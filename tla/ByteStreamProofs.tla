-------------------------- MODULE ByteStreamProofs --------------------------
(***************************************************************************)
(* Proofs about ByteStream.tla, for every capacity and every set of writes.*)
(***************************************************************************)
EXTENDS ByteStream, SequenceTheorems, TLAPS

-----------------------------------------------------------------------------
(***************************************************************************)
(* Lemmas about the bytes between two offsets, which is what peek shows: a *)
(* push appends to them, a pop cuts their head.                            *)
(***************************************************************************)
Between(c, b, e) == [i \in 1 .. e - b |-> c[b + i - 1]]

\* The bytes between two offsets are a sequence as long as their distance.
LEMMA BetweenIsBytes ==
    ASSUME NEW c \in [0 .. Capacity -> Bytes], NEW b \in Nat, NEW e \in Nat,
           b <= e, e <= Capacity
    PROVE  /\ e - b \in Nat
           /\ Between(c, b, e) \in Seq(Bytes)
           /\ Len(Between(c, b, e)) = e - b
           /\ \A i \in 1 .. e - b : Between(c, b, e)[i] = c[b + i - 1]
<1>1. e - b \in Nat
    OBVIOUS
<1>2. \A i \in 1 .. e - b : c[b + i - 1] \in Bytes
    BY CapacityAssumption
<1>3. Between(c, b, e) \in [1 .. e - b -> Bytes]
    BY <1>2 DEF Between
<1>4. Between(c, b, e) \in Seq(Bytes) /\ Len(Between(c, b, e)) = e - b
    BY <1>1, <1>3, SeqDef, LenProperties
<1> QED
    BY <1>1, <1>4 DEF Between

\* What peek shows is a sequence of bytes as long as bytes_buffered says.
LEMMA PeekIsBytes ==
    ASSUME TypeOK
    PROVE  /\ peek \in Seq(Bytes)
           /\ Len(peek) = bytes_buffered
           /\ \A i \in 1 .. bytes_buffered : peek[i] = content_[begin_ + i - 1]
<1>1. /\ begin_ \in Nat /\ end_ \in Nat
      /\ begin_ <= end_ /\ end_ <= Capacity
      /\ content_ \in [0 .. Capacity -> Bytes]
    BY DEF TypeOK
<1>2. peek = Between(content_, begin_, end_)
    BY DEF peek, Between, bytes_buffered
<1>3. Between(content_, begin_, end_) \in Seq(Bytes)
    BY <1>1, BetweenIsBytes
<1>4. Len(Between(content_, begin_, end_)) = end_ - begin_
    BY <1>1, BetweenIsBytes
<1>5. \A i \in 1 .. end_ - begin_ :
          Between(content_, begin_, end_)[i] = content_[begin_ + i - 1]
    BY <1>1, BetweenIsBytes
<1> QED
    BY <1>2, <1>3, <1>4, <1>5 DEF bytes_buffered

\* The number of bytes stored is what fits, and they fit below capacity_.
LEMMA StoredFits ==
    ASSUME TypeOK, NEW data \in Writes
    PROVE  /\ data \in Seq(Bytes) /\ Len(data) \in Nat
           /\ bytes_buffered \in Nat
           /\ Stored(data) \in 0 .. Len(data)
           /\ Base(data) \in Nat /\ Base(data) <= begin_
           /\ Base(data) + bytes_buffered + Stored(data) <= Capacity
           /\ Stored(data) = Smaller(Len(data), Capacity - bytes_buffered)
<1>1. data \in Seq(Bytes) /\ Len(data) \in Nat
    BY WritesAssumption, LenProperties
<1>2. /\ Capacity \in Nat /\ begin_ \in Nat /\ end_ \in Nat
      /\ begin_ <= end_ /\ end_ <= Capacity
    BY CapacityAssumption DEF TypeOK
<1>3. Base(data) \in Nat /\ Base(data) <= begin_
    BY <1>2 DEF Base
<1>4. bytes_buffered \in Nat /\ bytes_buffered = end_ - begin_
    BY <1>2 DEF bytes_buffered
<1>5. Stored(data) = Smaller(Len(data), Capacity - (Base(data) + bytes_buffered))
    BY DEF Stored, NewAt
<1>6. /\ Stored(data) \in 0 .. Len(data)
      /\ Base(data) + bytes_buffered + Stored(data) <= Capacity
    BY <1>1, <1>2, <1>3, <1>4, <1>5 DEF Smaller
<1>7. Stored(data) = Smaller(Len(data), Capacity - bytes_buffered)
    <2>1. CASE end_ + Len(data) > Capacity
        <3>1. Base(data) = 0
            BY <2>1 DEF Base
        <3> QED
            BY <1>4, <1>5, <3>1
    <2>2. CASE ~(end_ + Len(data) > Capacity)
        <3>1. Base(data) = begin_
            BY <2>2 DEF Base
        <3>2. Stored(data) = Len(data)
            BY <1>1, <1>2, <1>4, <1>5, <2>2, <3>1 DEF Smaller
        <3>3. Smaller(Len(data), Capacity - bytes_buffered) = Len(data)
            BY <1>1, <1>2, <1>4, <2>2 DEF Smaller
        <3> QED
            BY <3>2, <3>3
    <2> QED
        BY <2>1, <2>2
<1> QED
    BY <1>1, <1>3, <1>4, <1>6, <1>7

\* What a push writes to the string is the bytes buffered followed by the
\* bytes stored, from Base on.
LEMMA PushAppends ==
    ASSUME TypeOK, NEW data \in Writes
    PROVE  LET tail == Base(data) + bytes_buffered + Stored(data) IN
           /\ MovedAndWritten(data) \in [0 .. Capacity -> Bytes]
           /\ SubSeq(data, 1, Stored(data)) \in Seq(Bytes)
           /\ Len(SubSeq(data, 1, Stored(data))) = Stored(data)
           /\ Between(MovedAndWritten(data), Base(data), tail)
                = peek \o SubSeq(data, 1, Stored(data))
<1> DEFINE n == Stored(data)
           base == Base(data)
           tail == base + bytes_buffered + n
           new == SubSeq(data, 1, n)
           written == MovedAndWritten(data)
           after == Between(written, base, tail)
<1>1. /\ data \in Seq(Bytes) /\ Len(data) \in Nat
      /\ n \in 0 .. Len(data)
      /\ bytes_buffered \in Nat
      /\ base \in Nat /\ base <= begin_ /\ tail <= Capacity
    BY StoredFits
<1>2. /\ Capacity \in Nat /\ begin_ \in Nat /\ end_ \in Nat
      /\ begin_ <= end_ /\ end_ <= Capacity
      /\ content_ \in [0 .. Capacity -> Bytes]
    BY CapacityAssumption DEF TypeOK
<1>3. \A i \in 1 .. n : data[i] \in Bytes
    BY <1>1, ElementOfSeq
<1>4. /\ new \in Seq(Bytes) /\ Len(new) = n
      /\ \A i \in 1 .. n : new[i] = data[i]
    BY <1>1, <1>3, SubSeqProperties
<1>5. peek = Between(content_, begin_, end_)
    BY DEF peek, Between, bytes_buffered
<1>6. /\ peek \in Seq(Bytes) /\ Len(peek) = bytes_buffered
      /\ \A i \in 1 .. bytes_buffered : peek[i] = content_[begin_ + i - 1]
    BY PeekIsBytes
<1>12. /\ written = [i \in 0 .. Capacity |-> written[i]]
       /\ \A i \in 0 .. Capacity : written[i] =
            IF i \in KeptPlaces(data) THEN content_[begin_ + (i - base)]
            ELSE IF i \in NewPlaces(data) THEN data[i - NewAt(data) + 1]
            ELSE content_[i]
    BY DEF MovedAndWritten
<1>13. /\ KeptPlaces(data) = base .. (base + bytes_buffered - 1)
       /\ NewPlaces(data) = (base + bytes_buffered)
                               .. (base + bytes_buffered + n - 1)
       /\ NewAt(data) = base + bytes_buffered
    BY <1>1 DEF KeptPlaces, NewPlaces, NewAt
<1> HIDE DEF n, base, written
<1>7. written \in [0 .. Capacity -> Bytes]
    <2>1. ASSUME NEW i \in 0 .. Capacity, i \in base .. (base + bytes_buffered - 1)
          PROVE  content_[begin_ + (i - base)] \in Bytes
        <3>1. begin_ + (i - base) \in 0 .. Capacity
            BY <1>1, <1>2, <2>1 DEF bytes_buffered
        <3> QED
            BY <1>2, <3>1
    <2>2. ASSUME NEW i \in 0 .. Capacity,
                 i \in (base + bytes_buffered) .. (base + bytes_buffered + n - 1)
          PROVE  data[i - (base + bytes_buffered) + 1] \in Bytes
        <3>1. i - (base + bytes_buffered) + 1 \in 1 .. n
            BY <1>1, <2>2
        <3> QED
            BY <1>3, <3>1
    <2> QED
        BY <1>2, <1>12, <1>13, <2>1, <2>2
<1>8. /\ after \in Seq(Bytes) /\ Len(after) = bytes_buffered + n
      /\ \A i \in 1 .. bytes_buffered + n : after[i] = written[base + i - 1]
    <2>1. tail \in Nat /\ base <= tail /\ tail - base = bytes_buffered + n
        BY <1>1
    <2>2. after \in Seq(Bytes)
        BY <1>1, <1>7, <2>1, BetweenIsBytes
    <2>3. Len(after) = tail - base
        BY <1>1, <1>7, <2>1, BetweenIsBytes
    <2>4. \A i \in 1 .. tail - base : after[i] = written[base + i - 1]
        BY <1>1, <1>7, <2>1, BetweenIsBytes
    <2> QED
        BY <2>1, <2>2, <2>3, <2>4
<1>9. /\ peek \o new \in Seq(Bytes)
      /\ Len(peek \o new) = bytes_buffered + n
      /\ \A i \in 1 .. bytes_buffered + n :
            (peek \o new)[i] = IF i <= bytes_buffered THEN peek[i]
                               ELSE new[i - bytes_buffered]
    BY <1>4, <1>6, ConcatProperties
<1>10. ASSUME NEW i \in 1 .. bytes_buffered + n
       PROVE  after[i] = (peek \o new)[i]
    <2>1. base + i - 1 \in 0 .. Capacity
        BY <1>1, <1>2
    <2>2. CASE i <= bytes_buffered
        <3>1. written[base + i - 1] = content_[begin_ + i - 1]
            <4>1. base + i - 1 \in base .. (base + bytes_buffered - 1)
                BY <1>1, <2>2
            <4>2. begin_ + ((base + i - 1) - base) = begin_ + i - 1
                BY <1>1, <1>2
            <4> QED
                BY <1>12, <1>13, <2>1, <4>1, <4>2
        <3> QED
            BY <1>1, <1>6, <1>8, <1>9, <2>2, <3>1
    <2>3. CASE i > bytes_buffered
        <3>1. written[base + i - 1] = data[i - bytes_buffered]
            <4>1. /\ base + i - 1 \notin base .. (base + bytes_buffered - 1)
                  /\ base + i - 1 \in (base + bytes_buffered)
                                        .. (base + bytes_buffered + n - 1)
                BY <1>1, <2>3
            <4>2. (base + i - 1) - (base + bytes_buffered) + 1 = i - bytes_buffered
                BY <1>1
            <4> QED
                BY <1>12, <1>13, <2>1, <4>1, <4>2
        <3>2. i - bytes_buffered \in 1 .. n
            BY <1>1, <2>3
        <3> QED
            BY SMTT(30), <1>1, <1>4, <1>8, <1>9, <2>3, <3>1, <3>2
    <2>4. i <= bytes_buffered \/ i > bytes_buffered
        BY <1>1
    <2> QED
        BY <2>2, <2>3, <2>4
<1>11. after = peek \o new
    BY <1>8, <1>9, <1>10, SeqEqual
<1> QED
    BY <1>4, <1>7, <1>11 DEF n, base, written

\* A pop of k bytes cuts the first k of what peek shows.
LEMMA PopCuts ==
    ASSUME TypeOK, NEW k \in 0 .. bytes_buffered
    PROVE  LET rest == Between(content_, begin_ + k, end_) IN
           /\ rest \in Seq(Bytes)
           /\ rest = SubSeq(peek, k + 1, Len(peek))
           /\ SubSeq(peek, 1, k) \in Seq(Bytes)
           /\ Len(SubSeq(peek, 1, k)) = k
           /\ peek = SubSeq(peek, 1, k) \o rest
<1> DEFINE rest == Between(content_, begin_ + k, end_)
           cut == SubSeq(peek, k + 1, Len(peek))
<1>1. /\ Capacity \in Nat /\ begin_ \in Nat /\ end_ \in Nat
      /\ begin_ <= end_ /\ end_ <= Capacity
      /\ content_ \in [0 .. Capacity -> Bytes]
    BY CapacityAssumption DEF TypeOK
<1>2. bytes_buffered \in Nat /\ k \in Nat /\ k <= bytes_buffered
    BY <1>1 DEF bytes_buffered
<1>3. peek = Between(content_, begin_, end_)
    BY DEF peek, Between, bytes_buffered
<1>4. /\ peek \in Seq(Bytes) /\ Len(peek) = bytes_buffered
      /\ \A i \in 1 .. bytes_buffered : peek[i] = content_[begin_ + i - 1]
    BY PeekIsBytes
<1>5. \A i \in 1 .. bytes_buffered : peek[i] \in Bytes
    BY <1>4, ElementOfSeq
<1>6. /\ cut \in Seq(Bytes) /\ Len(cut) = bytes_buffered - k
      /\ \A i \in 1 .. bytes_buffered - k : cut[i] = peek[k + i]
    <2>1. /\ k + 1 \in Int /\ bytes_buffered \in Int
          /\ \A i \in (k + 1) .. bytes_buffered : peek[i] \in Bytes
        BY <1>2, <1>5
    <2>2. /\ cut \in Seq(Bytes)
          /\ Len(cut) = IF k + 1 <= bytes_buffered
                          THEN bytes_buffered - (k + 1) + 1 ELSE 0
          /\ \A i \in 1 .. bytes_buffered - (k + 1) + 1 :
                cut[i] = peek[k + 1 + i - 1]
        BY <1>4, <2>1, SubSeqProperties
    <2> QED
        BY <1>2, <2>2
<1>7. /\ rest \in Seq(Bytes) /\ Len(rest) = bytes_buffered - k
      /\ \A i \in 1 .. bytes_buffered - k : rest[i] = content_[begin_ + k + i - 1]
    <2>1. /\ begin_ + k \in Nat /\ begin_ + k <= end_
          /\ end_ - (begin_ + k) = bytes_buffered - k
        BY <1>1, <1>2 DEF bytes_buffered
    <2>2. rest \in Seq(Bytes)
        BY <1>1, <2>1, BetweenIsBytes
    <2>3. Len(rest) = end_ - (begin_ + k)
        BY <1>1, <2>1, BetweenIsBytes
    <2>4. \A i \in 1 .. end_ - (begin_ + k) :
              rest[i] = content_[(begin_ + k) + i - 1]
        BY <1>1, <2>1, BetweenIsBytes
    <2> QED
        BY <2>1, <2>2, <2>3, <2>4
<1>8. ASSUME NEW i \in 1 .. bytes_buffered - k
      PROVE  rest[i] = cut[i]
    <2>1. k + i \in 1 .. bytes_buffered /\ begin_ + (k + i) - 1 = begin_ + k + i - 1
        BY <1>1, <1>2
    <2> QED
        BY <1>4, <1>6, <1>7, <2>1
<1>9. rest = cut
    BY <1>6, <1>7, <1>8, SeqEqual
<1>10. /\ SubSeq(peek, 1, k) \in Seq(Bytes)
       /\ Len(SubSeq(peek, 1, k)) = k
    BY <1>2, <1>4, <1>5, SubSeqProperties
<1>11. SubSeq(peek, 1, k) \o cut = SubSeq(peek, 1, Len(peek))
    BY SMTT(30), <1>2, <1>4, ConcatAdjacentSubSeq
<1>12. SubSeq(peek, 1, Len(peek)) = peek
    BY <1>4, SubSeqFull
<1> QED
    BY <1>7, <1>9, <1>10, <1>11, <1>12

-----------------------------------------------------------------------------
(***************************************************************************)
(* The effect of the two actions that move bytes, in terms of peek.        *)
(***************************************************************************)

\* Push keeps the types and appends what it stored to peek and to accepted.
LEMMA PushStep ==
    ASSUME TypeOK, NEW data \in Writes, Push(data)
    PROVE  /\ TypeOK'
           /\ is_closed_ => peek' = peek
           /\ ~is_closed_ =>
                 /\ peek' = peek \o SubSeq(data, 1, Stored(data))
                 /\ SubSeq(data, 1, Stored(data)) \in Seq(Bytes)
                 /\ Len(SubSeq(data, 1, Stored(data))) = Stored(data)
<1>1. CASE is_closed_
    BY <1>1 DEF Push, TypeOK, peek, bytes_buffered
<1>2. CASE ~is_closed_
    <2> DEFINE new == SubSeq(data, 1, Stored(data))
    <2>1. /\ Base(data) \in Nat
          /\ Stored(data) \in Nat
          /\ bytes_buffered \in Nat
          /\ NewAt(data) = Base(data) + bytes_buffered
          /\ NewAt(data) + Stored(data) <= Capacity
        <3>1. Base(data) + bytes_buffered + Stored(data) <= Capacity
            BY StoredFits
        <3>2. /\ Base(data) \in Nat /\ bytes_buffered \in Nat
              /\ Stored(data) \in 0 .. Len(data) /\ Len(data) \in Nat
            BY StoredFits
        <3> QED
            BY <3>1, <3>2 DEF NewAt
    <2>2. /\ MovedAndWritten(data) \in [0 .. Capacity -> Bytes]
          /\ new \in Seq(Bytes) /\ Len(new) = Stored(data)
          /\ Between(MovedAndWritten(data), Base(data),
                     Base(data) + bytes_buffered + Stored(data)) = peek \o new
        BY PushAppends
    <2>3. /\ content_' = MovedAndWritten(data)
          /\ begin_' = Base(data)
          /\ end_' = NewAt(data) + Stored(data)
          /\ pushed_cnt_' = pushed_cnt_ + Stored(data)
          /\ accepted' = accepted \o new
          /\ UNCHANGED << popped_cnt_, is_closed_, error_, taken >>
        BY <1>2 DEF Push
    <2>4. peek' = Between(content_', begin_', end_')
        BY DEF peek, Between, bytes_buffered
    <2>5. peek' = peek \o new
        BY <2>1, <2>2, <2>3, <2>4
    <2>6. accepted' \in Seq(Bytes)
        BY <2>2, <2>3, ConcatProperties DEF TypeOK
    <2>7. /\ begin_' \in Nat /\ end_' \in Nat
          /\ begin_' <= end_' /\ end_' <= Capacity
          /\ pushed_cnt_' \in Nat
        BY <2>1, <2>3 DEF TypeOK
    <2>8. TypeOK'
        BY <2>2, <2>3, <2>6, <2>7 DEF TypeOK
    <2> QED
        BY <1>2, <2>2, <2>5, <2>8
<1> QED
    BY <1>1, <1>2 DEF TypeOK

\* Pop keeps the types and moves the head of peek to taken.  How many bytes
\* it counts differs from how many it removes only beyond what is buffered.
LEMMA PopStep ==
    ASSUME TypeOK, NEW len \in Nat, Pop(len)
    PROVE  LET k == Smaller(len, bytes_buffered) IN
           /\ TypeOK'
           /\ k \in 0 .. bytes_buffered
           /\ peek' = SubSeq(peek, k + 1, Len(peek))
           /\ peek = SubSeq(peek, 1, k) \o peek'
           /\ SubSeq(peek, 1, k) \in Seq(Bytes)
           /\ Len(SubSeq(peek, 1, k)) = k
           /\ peek' \in Seq(Bytes)
           /\ taken' = taken \o SubSeq(peek, 1, k)
           /\ len <= bytes_buffered => popped_cnt_' = popped_cnt_ + k
<1> DEFINE k == Smaller(len, bytes_buffered)
<1>1. /\ begin_ \in Nat /\ end_ \in Nat /\ begin_ <= end_
      /\ bytes_buffered = end_ - begin_ /\ bytes_buffered \in Nat
    BY DEF TypeOK, bytes_buffered
<1>2. k \in 0 .. bytes_buffered
    BY <1>1 DEF Smaller
<1>3. /\ begin_' = begin_ + k
      /\ popped_cnt_' = IF len <= bytes_buffered THEN popped_cnt_ + k
                                                ELSE popped_cnt_
    <2>1. CASE begin_ + len <= end_
        <3>1. len <= bytes_buffered /\ k = len
            BY <1>1, <2>1 DEF Smaller
        <3>2. begin_' = begin_ + len /\ popped_cnt_' = popped_cnt_ + len
            BY <2>1 DEF Pop
        <3> QED
            BY <3>1, <3>2
    <2>2. CASE ~(begin_ + len <= end_)
        <3>1. ~(len <= bytes_buffered) /\ k = bytes_buffered
            BY <1>1, <2>2 DEF Smaller
        <3>2. begin_' = end_ /\ popped_cnt_' = popped_cnt_ + (end_ - begin_')
            BY <2>2 DEF Pop
        <3>3. begin_' = begin_ + k /\ popped_cnt_' = popped_cnt_
            BY <1>1, <3>1, <3>2 DEF TypeOK
        <3> QED
            BY <3>1, <3>3
    <2> QED
        BY <2>1, <2>2
<1>4. /\ UNCHANGED << content_, end_, pushed_cnt_, is_closed_, error_, accepted >>
      /\ taken' = taken \o SubSeq(peek, 1, k)
    BY DEF Pop
<1>5. /\ Between(content_, begin_ + k, end_) \in Seq(Bytes)
      /\ Between(content_, begin_ + k, end_) = SubSeq(peek, k + 1, Len(peek))
      /\ SubSeq(peek, 1, k) \in Seq(Bytes)
      /\ Len(SubSeq(peek, 1, k)) = k
      /\ peek = SubSeq(peek, 1, k) \o Between(content_, begin_ + k, end_)
    BY <1>2, PopCuts
<1>6. peek' = Between(content_', begin_', end_')
    BY DEF peek, Between, bytes_buffered
<1>7. peek' = Between(content_, begin_ + k, end_)
    BY <1>3, <1>4, <1>6
<1>8. taken' \in Seq(Bytes)
    BY <1>4, <1>5, ConcatProperties DEF TypeOK
<1>9. /\ begin_' \in Nat /\ begin_' <= end_
      /\ popped_cnt_' \in Nat
    BY SMTT(30), <1>1, <1>2, <1>3 DEF TypeOK
<1>10. TypeOK'
    BY <1>4, <1>8, <1>9 DEF TypeOK
<1> QED
    BY <1>2, <1>3, <1>4, <1>5, <1>7, <1>10

-----------------------------------------------------------------------------
(***************************************************************************)
(* The invariants.                                                         *)
(***************************************************************************)
IInv == TypeOK /\ NothingLostOrReordered

\* Concatenation of strings of bytes is associative.
LEMMA AssociativeOnBytes ==
    \A s, t, u \in Seq(Bytes) : (s \o t) \o u = s \o (t \o u)
<1> QED
    BY ConcatAssociative

\* The stream is empty when it is made.
LEMMA InitIInv == Init => IInv
<1> SUFFICES ASSUME Init PROVE IInv
    OBVIOUS
<1>1. TypeOK
    <2>1. << >> \in Seq(Bytes)
        BY EmptySeq
    <2> QED
        <3>1. content_ \in [0 .. Capacity -> Bytes]
            BY BytesAssumption DEF Init
        <3> QED
            BY SMTT(30), <2>1, <3>1, CapacityAssumption DEF Init, TypeOK
<1>2. peek = << >>
    <2>1. Len(peek) = 0 /\ peek \in Seq(Bytes)
        BY <1>1, PeekIsBytes DEF Init, bytes_buffered
    <2> QED
        BY <2>1, EmptySeq
<1>3. NothingLostOrReordered
    BY <1>2, ConcatEmptySeq, EmptySeq DEF Init, NothingLostOrReordered
<1> QED
    BY <1>1, <1>3 DEF IInv

\* Every step keeps the types and the bytes.
LEMMA NextIInv == IInv /\ [Next]_vars => IInv'
<1> SUFFICES ASSUME IInv, [Next]_vars PROVE IInv'
    OBVIOUS
<1>1. TypeOK /\ NothingLostOrReordered
    BY DEF IInv
<1>2. /\ peek \in Seq(Bytes) /\ Len(peek) = bytes_buffered
      /\ bytes_buffered \in Nat
    BY <1>1, PeekIsBytes DEF TypeOK, bytes_buffered
<1>3. accepted \in Seq(Bytes) /\ taken \in Seq(Bytes)
    BY <1>1 DEF TypeOK
<1>4. ASSUME NEW data \in Writes, Push(data)
      PROVE  IInv'
    <2>1. TypeOK'
        BY <1>1, <1>4, PushStep
    <2>2. CASE is_closed_
        <3>1. peek' = peek
            BY <1>1, <1>4, <2>2, PushStep
        <3>2. UNCHANGED << accepted, taken >>
            BY <1>4, <2>2 DEF Push
        <3> QED
            BY <1>1, <2>1, <3>1, <3>2 DEF IInv, NothingLostOrReordered
    <2>3. CASE ~is_closed_
        <3> DEFINE new == SubSeq(data, 1, Stored(data))
        <3>1. peek' = peek \o new /\ new \in Seq(Bytes)
            BY <1>1, <1>4, <2>3, PushStep
        <3>2. accepted' = accepted \o new /\ taken' = taken
            BY <1>4, <2>3 DEF Push
        <3>3. (taken \o peek) \o new = taken \o (peek \o new)
            <4>1. peek \in Seq(Bytes) /\ taken \in Seq(Bytes) /\ new \in Seq(Bytes)
                BY <1>2, <1>3, <3>1
            <4> QED
                BY <4>1, AssociativeOnBytes, Zenon
        <3> QED
            BY <1>1, <2>1, <3>1, <3>2, <3>3 DEF IInv, NothingLostOrReordered
    <2> QED
        BY <2>2, <2>3
<1>5. ASSUME NEW len \in Nat, Pop(len)
      PROVE  IInv'
    <2> DEFINE k == Smaller(len, bytes_buffered)
               head == SubSeq(peek, 1, k)
    <2>1. /\ TypeOK' /\ peek' \in Seq(Bytes) /\ head \in Seq(Bytes)
          /\ peek = head \o peek'
          /\ taken' = taken \o head
        BY <1>1, <1>5, PopStep
    <2>2. accepted' = accepted
        BY <1>5 DEF Pop
    <2>3. (taken \o head) \o peek' = taken \o (head \o peek')
        BY <1>3, <2>1, AssociativeOnBytes, Zenon
    <2> QED
        BY <1>1, <2>1, <2>2, <2>3 DEF IInv, NothingLostOrReordered
<1>6. ASSUME NEW len \in Nat, Read(len)
      PROVE  IInv'
    <2>1. Smaller(len, bytes_buffered) \in Nat
        BY <1>2 DEF Smaller
    <2> QED
        BY <1>5, <1>6, <2>1 DEF Read
<1>7. CASE Close
    BY <1>1, <1>7 DEF Close, IInv, TypeOK, NothingLostOrReordered, peek, bytes_buffered
<1>8. CASE SetError
    BY <1>1, <1>8 DEF SetError, IInv, TypeOK, NothingLostOrReordered, peek, bytes_buffered
<1>9. CASE UNCHANGED vars
    BY <1>1, <1>9 DEF vars, IInv, TypeOK, NothingLostOrReordered, peek, bytes_buffered
<1>10. \A len \in 0 .. bytes_buffered + PopBeyond : len \in Nat
    BY <1>2, BoundsAssumption
<1>11. \A len \in 0 .. Capacity : len \in Nat
    BY CapacityAssumption
<1> QED
    BY <1>4, <1>5, <1>6, <1>7, <1>8, <1>9, <1>10, <1>11 DEF Next

\* IInv holds in every state: the step from the two lemmas above.
LEMMA SpecIInv == Spec => []IInv
<1> QED
    BY InitIInv, NextIInv, PTL DEF Spec

\* The types hold and the offsets stay in the string, for every capacity,
\* every set of writes, and pops of any length.
THEOREM TypeCorrect == Spec => []TypeOK
<1>1. IInv => TypeOK
    BY DEF IInv
<1> QED
    BY <1>1, SpecIInv, PTL

\* What was stored is what was removed followed by what peek shows: the move
\* to the head of the string (byte_stream.cc:30) loses, repeats and reorders
\* no byte, whatever the capacity and however long the pops.
THEOREM StreamKeepsBytes == Spec => []NothingLostOrReordered
<1>1. IInv => NothingLostOrReordered
    BY DEF IInv
<1> QED
    BY <1>1, SpecIInv, PTL

\* A push into an open stream stores as many bytes as there is room for, for
\* every capacity and wherever the buffered bytes lie (byte_stream.hh:43).
THEOREM PushesFillRoom == Spec => PushFillsRoom
<1>1. ASSUME IInv, NEW data \in Writes, Push(data), ~is_closed_
      PROVE  Len(accepted') = Len(accepted) + Smaller(Len(data), available_capacity)
    <2>1. TypeOK
        BY <1>1 DEF IInv
    <2>2. /\ data \in Seq(Bytes) /\ Len(data) \in Nat
          /\ Stored(data) \in 0 .. Len(data)
          /\ Stored(data) = Smaller(Len(data), Capacity - bytes_buffered)
        BY <1>1, <2>1, StoredFits
    <2>3. accepted' = accepted \o SubSeq(data, 1, Stored(data))
        BY <1>1 DEF Push
    <2>4. /\ SubSeq(data, 1, Stored(data)) \in Seq(Bytes)
          /\ Len(SubSeq(data, 1, Stored(data))) = Stored(data)
        BY <2>2, SubSeqProperties
    <2>5. accepted \in Seq(Bytes)
        BY <2>1 DEF TypeOK
    <2>6. Len(accepted') = Len(accepted) + Stored(data)
        BY <2>3, <2>4, <2>5, ConcatProperties
    <2>7. available_capacity = Capacity - bytes_buffered
        BY DEF available_capacity, bytes_buffered
    <2> QED
        BY <2>2, <2>6, <2>7
<1>2. IInv /\ [Next]_vars =>
        [\A data \in Writes :
            Push(data) /\ ~is_closed_ =>
                Len(accepted') = Len(accepted)
                                   + Smaller(Len(data), available_capacity)]_vars
    BY <1>1
<1> QED
    BY <1>2, SpecIInv, PTL DEF Spec, PushFillsRoom

-----------------------------------------------------------------------------
(***************************************************************************)
(* The counters, and the bounded queue the stream implements.  Both need   *)
(* callers that pop no more than is buffered (PopBeyond = 0), as read()    *)
(* and every caller in the repository does.                                *)
(***************************************************************************)

\* A step of the counters.
LEMMA NextCounters ==
    ASSUME PopBeyond = 0
    PROVE  IInv /\ CountersMatchBytes /\ [Next]_vars => CountersMatchBytes'
<1> SUFFICES ASSUME IInv, CountersMatchBytes, [Next]_vars
             PROVE  CountersMatchBytes'
    OBVIOUS
<1>1. TypeOK
    BY DEF IInv
<1>2. /\ bytes_buffered \in Nat
      /\ accepted \in Seq(Bytes) /\ taken \in Seq(Bytes)
      /\ pushed_cnt_ \in Nat /\ popped_cnt_ \in Nat
    BY <1>1 DEF TypeOK, bytes_buffered
<1>3. ASSUME NEW data \in Writes, Push(data)
      PROVE  CountersMatchBytes'
    <2>1. CASE is_closed_
        BY <1>3, <2>1 DEF Push, CountersMatchBytes
    <2>2. CASE ~is_closed_
        <3> DEFINE new == SubSeq(data, 1, Stored(data))
        <3>1. new \in Seq(Bytes) /\ Len(new) = Stored(data)
            BY <1>1, <1>3, <2>2, PushStep
        <3>2. /\ accepted' = accepted \o new
              /\ pushed_cnt_' = pushed_cnt_ + Stored(data)
              /\ UNCHANGED << popped_cnt_, taken >>
            BY <1>3, <2>2 DEF Push
        <3>3. Len(accepted \o new) = Len(accepted) + Len(new)
            BY <1>2, <3>1, ConcatProperties
        <3> QED
            BY <3>1, <3>2, <3>3 DEF CountersMatchBytes
    <2> QED
        BY <2>1, <2>2
<1>4. ASSUME NEW len \in 0 .. bytes_buffered, Pop(len)
      PROVE  CountersMatchBytes'
    <2> DEFINE k == Smaller(len, bytes_buffered)
               head == SubSeq(peek, 1, k)
    <2>1. len \in Nat /\ len <= bytes_buffered
        BY <1>2
    <2>2. /\ taken' = taken \o head
          /\ head \in Seq(Bytes) /\ Len(head) = k
          /\ popped_cnt_' = popped_cnt_ + k
        BY <1>1, <1>4, <2>1, PopStep
    <2>3. Len(taken \o head) = Len(taken) + Len(head)
        BY <1>2, <2>2, ConcatProperties
    <2>4. UNCHANGED << pushed_cnt_, accepted >>
        BY <1>4 DEF Pop
    <2> QED
        BY <2>2, <2>3, <2>4 DEF CountersMatchBytes
<1>5. ASSUME NEW len \in 0 .. Capacity, Read(len)
      PROVE  CountersMatchBytes'
    <2>1. Smaller(len, bytes_buffered) \in 0 .. bytes_buffered
        BY <1>2, CapacityAssumption DEF Smaller
    <2> QED
        BY <1>4, <1>5, <2>1 DEF Read
<1>6. CASE Close
    BY <1>6 DEF Close, CountersMatchBytes
<1>7. CASE SetError
    BY <1>7 DEF SetError, CountersMatchBytes
<1>8. CASE UNCHANGED vars
    BY <1>8 DEF vars, CountersMatchBytes
<1>9. bytes_buffered + PopBeyond = bytes_buffered
    BY <1>2
<1> QED
    BY <1>3, <1>4, <1>5, <1>6, <1>7, <1>8, <1>9 DEF Next

\* bytes_pushed and bytes_popped count the bytes stored and removed, as
\* byte_stream.hh:48,59 says, for callers that never pop too much.
THEOREM CountersCorrect ==
    ASSUME PopBeyond = 0
    PROVE  Spec => []CountersMatchBytes
<1>1. Init => CountersMatchBytes
    BY EmptySeq DEF Init, CountersMatchBytes
<1>2. IInv /\ CountersMatchBytes /\ [Next]_vars => CountersMatchBytes'
    BY NextCounters
<1> QED
    BY <1>1, <1>2, SpecIInv, PTL DEF Spec

\* The queue the variables stand for, field by field.
FifoType == [cap : Nat, buf : Seq(Bytes), closed : BOOLEAN, error : BOOLEAN,
             pushed : Nat, popped : Nat]

LEMMA FifoFields ==
    ASSUME TypeOK
    PROVE  /\ FifoOfStream \in FifoType
           /\ FifoOfStream.cap = Capacity
           /\ FifoOfStream.buf = peek
           /\ FifoOfStream.closed = is_closed_
           /\ FifoOfStream.error = error_
           /\ FifoOfStream.pushed = pushed_cnt_
           /\ FifoOfStream.popped = popped_cnt_
<1>1. peek \in Seq(Bytes)
    BY PeekIsBytes
<1> QED
    BY <1>1, CapacityAssumption DEF FifoOfStream, FifoType, TypeOK

\* The same after a step, from the types after it.
LEMMA FifoFieldsNext ==
    ASSUME TypeOK', peek' \in Seq(Bytes)
    PROVE  /\ FifoOfStream' \in FifoType
           /\ FifoOfStream'.cap = Capacity
           /\ FifoOfStream'.buf = peek'
           /\ FifoOfStream'.closed = is_closed_'
           /\ FifoOfStream'.error = error_'
           /\ FifoOfStream'.pushed = pushed_cnt_'
           /\ FifoOfStream'.popped = popped_cnt_'
<1> QED
    BY CapacityAssumption DEF FifoOfStream, FifoType, TypeOK

\* Two queues whose fields agree but for an update are equal after it.
LEMMA UpdateOnPush ==
    ASSUME NEW f \in FifoType, NEW g \in FifoType,
           NEW b \in Seq(Bytes), NEW n \in Nat,
           g.cap = f.cap, g.buf = b, g.pushed = n,
           g.closed = f.closed, g.error = f.error, g.popped = f.popped
    PROVE  g = [f EXCEPT !.buf = b, !.pushed = n]
<1> QED
    BY DEF FifoType

LEMMA UpdateOnPop ==
    ASSUME NEW f \in FifoType, NEW g \in FifoType,
           NEW b \in Seq(Bytes), NEW n \in Nat,
           g.cap = f.cap, g.buf = b, g.popped = n,
           g.closed = f.closed, g.error = f.error, g.pushed = f.pushed
    PROVE  g = [f EXCEPT !.buf = b, !.popped = n]
<1> QED
    BY DEF FifoType

LEMMA UpdateOnClose ==
    ASSUME NEW f \in FifoType, NEW g \in FifoType,
           g.cap = f.cap, g.closed = TRUE, g.buf = f.buf,
           g.error = f.error, g.pushed = f.pushed, g.popped = f.popped
    PROVE  g = [f EXCEPT !.closed = TRUE]
<1> QED
    BY DEF FifoType

LEMMA UpdateOnError ==
    ASSUME NEW f \in FifoType, NEW g \in FifoType,
           g.cap = f.cap, g.error = TRUE, g.buf = f.buf,
           g.closed = f.closed, g.pushed = f.pushed, g.popped = f.popped
    PROVE  g = [f EXCEPT !.error = TRUE]
<1> QED
    BY DEF FifoType

\* A push of the string is a push of the queue.
LEMMA PushImplements ==
    ASSUME TypeOK, NEW data \in Writes, Push(data)
    PROVE  FifoOfStream' = Abstract!Push(FifoOfStream, data)
<1>1. peek \in Seq(Bytes) /\ Len(peek) = bytes_buffered
    BY PeekIsBytes
<1>2. UNCHANGED << popped_cnt_, is_closed_, error_ >>
    BY DEF Push
<1>3. TypeOK' /\ peek' \in Seq(Bytes)
    <2>1. CASE is_closed_
        BY <1>1, <2>1, PushStep
    <2>2. CASE ~is_closed_
        BY <1>1, <2>2, PushStep, ConcatProperties
    <2> QED
        BY <2>1, <2>2
<1>4. /\ FifoOfStream \in FifoType
      /\ FifoOfStream.cap = Capacity /\ FifoOfStream.buf = peek
      /\ FifoOfStream.closed = is_closed_ /\ FifoOfStream.error = error_
      /\ FifoOfStream.pushed = pushed_cnt_ /\ FifoOfStream.popped = popped_cnt_
    BY FifoFields
<1>5. /\ FifoOfStream' \in FifoType
      /\ FifoOfStream'.cap = Capacity /\ FifoOfStream'.buf = peek'
      /\ FifoOfStream'.closed = is_closed_' /\ FifoOfStream'.error = error_'
      /\ FifoOfStream'.pushed = pushed_cnt_' /\ FifoOfStream'.popped = popped_cnt_'
      /\ TypeOK'
    BY <1>3, FifoFieldsNext
<1>6. CASE is_closed_
    <2>1. peek' = peek /\ pushed_cnt_' = pushed_cnt_
        BY <1>6, PushStep DEF Push
    <2>2. Abstract!Room(FifoOfStream, data) = 0
        BY <1>4, <1>6 DEF Abstract!Room
    <2>3. peek \o SubSeq(data, 1, 0) = peek
        <3>1. SubSeq(data, 1, 0) = << >>
            BY SubSeqEmpty
        <3> QED
            BY <1>1, <3>1, ConcatEmptySeq
    <2>4. pushed_cnt_ + 0 = pushed_cnt_
        BY DEF TypeOK
    <2>5. FifoOfStream' = [FifoOfStream EXCEPT !.buf = peek, !.pushed = pushed_cnt_]
        <3>1. pushed_cnt_ \in Nat
            BY DEF TypeOK
        <3>2. /\ FifoOfStream'.closed = FifoOfStream.closed
              /\ FifoOfStream'.error = FifoOfStream.error
              /\ FifoOfStream'.popped = FifoOfStream.popped
              /\ FifoOfStream'.cap = FifoOfStream.cap
            BY <1>2, <1>4, <1>5
        <3>3. /\ FifoOfStream'.buf = peek /\ peek \in Seq(Bytes)
              /\ FifoOfStream'.pushed = pushed_cnt_
            BY <1>1, <2>1, <1>5
        <3>4. FifoOfStream \in FifoType /\ FifoOfStream' \in FifoType
            BY <1>4, <1>5
        <3> QED
            BY ZenonT(30), <3>1, <3>2, <3>3, <3>4, UpdateOnPush
    <2> QED
        BY <1>4, <2>2, <2>3, <2>4, <2>5 DEF Abstract!Push
<1>7. CASE ~is_closed_
    <2>1. peek' = peek \o SubSeq(data, 1, Stored(data))
        BY <1>7, PushStep
    <2>2. pushed_cnt_' = pushed_cnt_ + Stored(data)
        BY <1>7 DEF Push
    <2>3. Abstract!Room(FifoOfStream, data)
            = Smaller(Len(data), Capacity - bytes_buffered)
        BY <1>1, <1>4, <1>7 DEF Abstract!Room, Abstract!Available,
                                Abstract!Least, Smaller
    <2>4. Abstract!Room(FifoOfStream, data) = Stored(data)
        BY <2>3, StoredFits
    <2>5. FifoOfStream' = [FifoOfStream EXCEPT !.buf = peek', !.pushed = pushed_cnt_']
        <3>1. pushed_cnt_' \in Nat
            BY <1>5 DEF TypeOK
        <3>2. /\ FifoOfStream'.closed = FifoOfStream.closed
              /\ FifoOfStream'.error = FifoOfStream.error
              /\ FifoOfStream'.popped = FifoOfStream.popped
              /\ FifoOfStream'.cap = FifoOfStream.cap
            BY <1>2, <1>4, <1>5
        <3>3. /\ FifoOfStream'.buf = peek' /\ peek' \in Seq(Bytes)
              /\ FifoOfStream'.pushed = pushed_cnt_'
            BY <1>3, <1>5
        <3>4. FifoOfStream \in FifoType /\ FifoOfStream' \in FifoType
            BY <1>4, <1>5
        <3> QED
            BY ZenonT(30), <3>1, <3>2, <3>3, <3>4, UpdateOnPush
    <2> QED
        BY <1>4, <2>1, <2>2, <2>4, <2>5 DEF Abstract!Push
<1> QED
    BY <1>6, <1>7

\* A pop of the string is a pop of the queue.
LEMMA PopImplements ==
    ASSUME TypeOK, NEW len \in 0 .. bytes_buffered, Pop(len)
    PROVE  FifoOfStream' = Abstract!Pop(FifoOfStream, len)
<1>1. bytes_buffered \in Nat /\ len \in Nat /\ len <= bytes_buffered
    BY DEF TypeOK, bytes_buffered
<1>2. Smaller(len, bytes_buffered) = len
    BY <1>1 DEF Smaller
<1>3. /\ TypeOK' /\ peek' \in Seq(Bytes)
      /\ peek' = SubSeq(peek, len + 1, Len(peek))
      /\ popped_cnt_' = popped_cnt_ + len
    BY <1>1, <1>2, PopStep
<1>4. UNCHANGED << pushed_cnt_, is_closed_, error_ >>
    BY DEF Pop
<1>5. Len(peek) = bytes_buffered
    BY PeekIsBytes
<1>7. /\ FifoOfStream \in FifoType
      /\ FifoOfStream.cap = Capacity /\ FifoOfStream.buf = peek
      /\ FifoOfStream.closed = is_closed_ /\ FifoOfStream.error = error_
      /\ FifoOfStream.pushed = pushed_cnt_ /\ FifoOfStream.popped = popped_cnt_
    BY FifoFields
<1>8. /\ FifoOfStream' \in FifoType
      /\ FifoOfStream'.cap = Capacity /\ FifoOfStream'.buf = peek'
      /\ FifoOfStream'.closed = is_closed_' /\ FifoOfStream'.error = error_'
      /\ FifoOfStream'.pushed = pushed_cnt_' /\ FifoOfStream'.popped = popped_cnt_'
      /\ TypeOK'
    BY <1>3, FifoFieldsNext
<1>9. Abstract!Gone(FifoOfStream, len) = len
    BY <1>1, <1>5, <1>7 DEF Abstract!Gone, Abstract!Buffered, Abstract!Least
<1>10. popped_cnt_' \in Nat
    BY <1>3 DEF TypeOK
<1>11. FifoOfStream' = [FifoOfStream EXCEPT !.buf = peek', !.popped = popped_cnt_']
    <2>1. /\ FifoOfStream'.closed = FifoOfStream.closed
          /\ FifoOfStream'.error = FifoOfStream.error
          /\ FifoOfStream'.pushed = FifoOfStream.pushed
          /\ FifoOfStream'.cap = FifoOfStream.cap
        BY <1>4, <1>7, <1>8
    <2>2. /\ FifoOfStream'.buf = peek' /\ peek' \in Seq(Bytes)
          /\ FifoOfStream'.popped = popped_cnt_'
        BY <1>3, <1>8
    <2>3. FifoOfStream \in FifoType /\ FifoOfStream' \in FifoType
        BY <1>7, <1>8
    <2> HIDE DEF FifoOfStream
    <2> QED
        BY ZenonT(30), <1>10, <2>1, <2>2, <2>3, UpdateOnPop
<1> QED
    BY <1>3, <1>7, <1>9, <1>11 DEF Abstract!Pop

\* The string and its two offsets implement the bounded queue: every step of
\* the code is a step of ByteFifo.tla or leaves the queue as it was.
THEOREM StreamImplementsFifo ==
    ASSUME PopBeyond = 0
    PROVE  Spec => ImplementsFifo
<1>1. Init => Abstract!Init
    <2> SUFFICES ASSUME Init PROVE Abstract!Init
        OBVIOUS
    <2>1. TypeOK
        BY InitIInv DEF IInv
    <2>2. peek \in Seq(Bytes) /\ Len(peek) = 0
        BY <2>1, PeekIsBytes DEF Init, bytes_buffered
    <2>3. peek = << >>
        BY <2>2, EmptySeq
    <2> QED
        BY <2>3 DEF Init, FifoOfStream, Abstract!Init, Abstract!NewFifo
<1>2. IInv /\ [Next]_vars => [Abstract!Next]_FifoOfStream
    <2> SUFFICES ASSUME IInv, [Next]_vars
                 PROVE  [Abstract!Next]_FifoOfStream
        OBVIOUS
    <2>1. TypeOK
        BY DEF IInv
    <2>2. bytes_buffered \in Nat /\ bytes_buffered <= Capacity
        BY <2>1, CapacityAssumption DEF TypeOK, bytes_buffered
    <2>3. ASSUME NEW data \in Writes, Push(data)
          PROVE  Abstract!Next
        BY <2>1, <2>3, PushImplements DEF Abstract!Next
    <2>4. ASSUME NEW len \in 0 .. bytes_buffered, Pop(len)
          PROVE  Abstract!Next
        <3>1. len \in 0 .. Capacity
            BY <2>2, CapacityAssumption
        <3> QED
            BY <2>1, <2>4, <3>1, PopImplements DEF Abstract!Next
    <2>5. ASSUME NEW len \in 0 .. Capacity, Read(len)
          PROVE  Abstract!Next
        <3>1. Smaller(len, bytes_buffered) \in 0 .. bytes_buffered
            BY <2>2, CapacityAssumption DEF Smaller
        <3> QED
            BY <2>4, <2>5, <3>1 DEF Read
    <2>6. CASE Close
        <3>1. FifoOfStream' = Abstract!Close(FifoOfStream)
            <4>1. peek' = peek /\ TypeOK'
                BY <2>1, <2>6 DEF Close, TypeOK, peek, bytes_buffered
            <4>2. FifoOfStream \in FifoType /\ FifoOfStream' \in FifoType
                BY <2>1, <4>1, PeekIsBytes, FifoFields, FifoFieldsNext
            <4> QED
                BY <2>1, <2>6, <4>1, <4>2, UpdateOnClose
                   DEF Close, Abstract!Close, FifoOfStream
        <3> QED
            BY <3>1 DEF Abstract!Next
    <2>7. CASE SetError
        <3>1. FifoOfStream' = Abstract!SetError(FifoOfStream)
            <4>1. peek' = peek /\ TypeOK'
                BY <2>1, <2>7 DEF SetError, TypeOK, peek, bytes_buffered
            <4>2. FifoOfStream \in FifoType /\ FifoOfStream' \in FifoType
                BY <2>1, <4>1, PeekIsBytes, FifoFields, FifoFieldsNext
            <4> QED
                BY <2>1, <2>7, <4>1, <4>2, UpdateOnError
                   DEF SetError, Abstract!SetError, FifoOfStream
        <3> QED
            BY <3>1 DEF Abstract!Next
    <2>8. CASE UNCHANGED vars
        BY <2>8 DEF vars, FifoOfStream, peek, bytes_buffered
    <2>9. bytes_buffered + PopBeyond = bytes_buffered
        BY <2>2
    <2> QED
        BY <2>3, <2>4, <2>5, <2>6, <2>7, <2>8, <2>9 DEF Next
<1> QED
    BY <1>1, <1>2, SpecIInv, PTL DEF Spec, ImplementsFifo, Abstract!Spec
=============================================================================
