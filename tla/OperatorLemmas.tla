--------------------------- MODULE OperatorLemmas ---------------------------
(***************************************************************************)
(* Lemmas about the operators the components share: the wrapping numbers   *)
(* of Wrap32.tla, the queue of Fifo.tla, the segments, the drain loop and  *)
(* bytes_pending of ReassemblerOps.tla, the push loop of TCPSenderOps.tla. *)
(***************************************************************************)
EXTENDS TCPPeerOps, NetworkInterfaceOps, SequenceTheorems, FiniteSetTheorems, TLAPS

-----------------------------------------------------------------------------
(***************************************************************************)
(* Numbers modulo the size of the number space.                            *)
(***************************************************************************)
\* The size of the number space is a positive number, twice Half.
LEMMA ModulusType == Modulus \in Nat \ {0} /\ Half \in Nat \ {0} /\ Modulus = 2 * Half
BY HalfAssumption DEF Modulus

\* A multiple of the size is zero or at least that far from zero.
LEMMA MultiplesLieApart ==
    ASSUME NEW k \in Int
    PROVE  /\ k * Modulus \in Int
           /\ k = 0 => k * Modulus = 0
           /\ k >= 1 => k * Modulus >= Modulus
           /\ k <= -1 => k * Modulus <= -Modulus
<1>1. Modulus \in Nat \ {0}
    BY ModulusType
<1>2. k >= 1 => k * Modulus >= Modulus
    BY <1>1
<1>3. k <= -1 => k * Modulus <= -Modulus
    BY <1>1
<1> QED
    BY <1>1, <1>2, <1>3

\* The remainder of a number is in range and differs from it by a multiple.
LEMMA Remainder ==
    ASSUME NEW a \in Int
    PROVE  /\ a % Modulus \in 0 .. Modulus - 1
           /\ \E k \in Int : a = k * Modulus + (a % Modulus)
<1>1. Modulus \in Nat \ {0}
    BY ModulusType
<1>2. a % Modulus \in 0 .. Modulus - 1
    BY <1>1
<1>3. a \div Modulus \in Int /\ a = (a \div Modulus) * Modulus + (a % Modulus)
    BY <1>1
<1> QED
    BY <1>2, <1>3

\* Two numbers that differ by a multiple of the size, both in a range that is
\* shorter than it, are one.
LEMMA OnlyRemainder ==
    ASSUME NEW a \in Int, NEW r \in 0 .. Modulus - 1, NEW k \in Int,
           a = k * Modulus + r
    PROVE  a % Modulus = r
<1>1. Modulus \in Nat \ {0}
    BY ModulusType
<1>2. PICK j \in Int : a = j * Modulus + (a % Modulus)
    BY Remainder
<1>3. a % Modulus \in 0 .. Modulus - 1
    BY Remainder
<1> DEFINE d == j - k
<1>4. d \in Int /\ d * Modulus = r - (a % Modulus)
    BY <1>1, <1>2, <1>3
<1>5. d * Modulus < Modulus /\ d * Modulus > -Modulus
    BY <1>1, <1>3, <1>4
<1>6. d = 0
    BY <1>1, <1>4, <1>5, MultiplesLieApart
<1>7. d * Modulus = 0
    BY <1>6, MultiplesLieApart
<1> QED
    BY <1>3, <1>4, <1>7

\* Two numbers that wrap to one raw value differ by a multiple of the size.
LEMMA SameRemainder ==
    ASSUME NEW a \in Int, NEW b \in Int, a % Modulus = b % Modulus
    PROVE  \E k \in Int : a - b = k * Modulus
<1>1. Modulus \in Nat \ {0}
    BY ModulusType
<1>2. PICK j \in Int : a = j * Modulus + (a % Modulus)
    BY Remainder
<1>3. PICK i \in Int : b = i * Modulus + (b % Modulus)
    BY Remainder
<1>4. b % Modulus \in Int /\ j - i \in Int
    BY Remainder
<1>5. a - b = (j - i) * Modulus
    BY <1>1, <1>2, <1>3, <1>4
<1> QED
    BY <1>4, <1>5

-----------------------------------------------------------------------------
(***************************************************************************)
(* wrap and unwrap.                                                        *)
(***************************************************************************)
\* A wrapped number is a raw value.
LEMMA WrapInRange ==
    ASSUME NEW n \in Int, NEW z \in Int
    PROVE  Wrap(n, z) \in 0 .. Modulus - 1
BY Remainder, z + n \in Int DEF Wrap

\* The signed distance lies in the half number space on either side of the
\* checkpoint, and is right but for a multiple of the size.
LEMMA SignedDistanceIsNear ==
    ASSUME NEW raw \in Int, NEW z \in Int, NEW cp \in Int
    PROVE  /\ SignedDistance(raw, z, cp) \in -Half .. Half - 1
           /\ \E k \in Int : raw - z - cp = k * Modulus + SignedDistance(raw, z, cp)
<1> DEFINE a == raw - z - cp
           d == a % Modulus
<1>1. a \in Int /\ Modulus \in Nat \ {0} /\ Half \in Nat \ {0} /\ Modulus = 2 * Half
    BY ModulusType
<1>2. d \in 0 .. Modulus - 1
    BY <1>1, Remainder
<1>3. PICK k \in Int : a = k * Modulus + d
    BY <1>1, Remainder
<1>4. SignedDistance(raw, z, cp) = IF d >= Half THEN d - Modulus ELSE d
    BY DEF SignedDistance
<1> HIDE DEF d, a
<1>5. SignedDistance(raw, z, cp) \in -Half .. Half - 1
    BY <1>1, <1>2, <1>4
<1>6. k + 1 \in Int /\ (k + 1) * Modulus = k * Modulus + Modulus
    BY <1>1, <1>3
<1>7. \/ a = k * Modulus + SignedDistance(raw, z, cp)
      \/ a = (k + 1) * Modulus + SignedDistance(raw, z, cp)
    BY <1>1, <1>2, <1>3, <1>4, <1>6, MultiplesLieApart
<1>8. \E i \in Int : a = i * Modulus + SignedDistance(raw, z, cp)
    BY <1>3, <1>6, <1>7
<1> QED
    BY <1>5, <1>8 DEF a

\* What unwrap returns is a number that wraps to the raw value.
LEMMA UnwrapWraps ==
    ASSUME NEW raw \in 0 .. Modulus - 1, NEW z \in Int, NEW cp \in Nat
    PROVE  /\ Unwrap(raw, z, cp) \in Nat
           /\ Wrap(Unwrap(raw, z, cp), z) = raw
<1> DEFINE sd == SignedDistance(raw, z, cp)
           u == Unwrap(raw, z, cp)
<1>1. Modulus \in Nat \ {0} /\ Half \in Nat \ {0} /\ Modulus = 2 * Half
    BY ModulusType
<1>0. raw \in Int /\ cp \in Int
    BY <1>1
<1>2. sd \in -Half .. Half - 1
    BY <1>0, SignedDistanceIsNear
<1>3. PICK k \in Int : raw - z - cp = k * Modulus + sd
    BY <1>0, SignedDistanceIsNear
<1>4. u = IF cp + sd >= 0 THEN cp + sd ELSE cp + sd + Modulus
    BY DEF Unwrap
<1> HIDE DEF sd, u
<1>5. u \in Nat
    BY <1>1, <1>2, <1>4
<1>6. -k \in Int /\ 1 - k \in Int
      /\ (-k) * Modulus = -(k * Modulus)
      /\ (1 - k) * Modulus = Modulus - k * Modulus
    BY <1>1, <1>3
<1>7. k * Modulus \in Int
    BY <1>3, MultiplesLieApart
<1>8. \/ z + u = (-k) * Modulus + raw
      \/ z + u = (1 - k) * Modulus + raw
    BY <1>1, <1>2, <1>3, <1>4, <1>6, <1>7
<1>9. (z + u) % Modulus = raw
    BY <1>5, <1>6, <1>8, z + u \in Int, OnlyRemainder
<1> QED
    BY <1>5, <1>9 DEF Wrap, u

\* How far apart two numbers are.
Gap(n, m) == IF n >= m THEN n - m ELSE m - n

\* No number that wraps to the raw value lies closer to the checkpoint than
\* the one unwrap returns.
LEMMA UnwrapClosest ==
    ASSUME NEW raw \in 0 .. Modulus - 1, NEW z \in Int, NEW cp \in Nat,
           NEW v \in Nat, Wrap(v, z) = raw
    PROVE  Gap(Unwrap(raw, z, cp), cp) <= Gap(v, cp)
<1> DEFINE sd == SignedDistance(raw, z, cp)
           u == Unwrap(raw, z, cp)
<1>1. Modulus \in Nat \ {0} /\ Half \in Nat \ {0} /\ Modulus = 2 * Half
    BY ModulusType
<1>0. raw \in Int /\ cp \in Int
    BY <1>1
<1>2. sd \in -Half .. Half - 1
    BY <1>0, SignedDistanceIsNear
<1>3. u = IF cp + sd >= 0 THEN cp + sd ELSE cp + sd + Modulus
    BY DEF Unwrap
<1>4. u \in Nat /\ (z + u) % Modulus = raw
    BY UnwrapWraps DEF Wrap
<1>5. (z + v) % Modulus = (z + u) % Modulus /\ z + v \in Int /\ z + u \in Int
    BY <1>4 DEF Wrap
<1> HIDE DEF sd, u
<1>6. PICK k \in Int : (z + v) - (z + u) = k * Modulus
    BY <1>5, SameRemainder
<1>7. v = u + k * Modulus /\ k * Modulus \in Int
    BY <1>4, <1>6, MultiplesLieApart
<1>8. k = 0 \/ k >= 1 \/ k <= -1
    OBVIOUS
<1>9. \/ v = u
      \/ v >= u + Modulus
      \/ v <= u - Modulus
    BY <1>1, <1>4, <1>7, <1>8, MultiplesLieApart
<1>10. Gap(u, cp) <= Gap(v, cp)
    BY <1>1, <1>2, <1>3, <1>4, <1>9 DEF Gap
<1> QED
    BY <1>10 DEF u

\* A number less than half the number space from the checkpoint comes back.
LEMMA UnwrapInvertsWrap ==
    ASSUME NEW n \in Nat, NEW z \in Int, NEW cp \in Nat,
           n - cp < Half, cp - n < Half
    PROVE  Unwrap(Wrap(n, z), z, cp) = n
<1> DEFINE raw == Wrap(n, z)
           u == Unwrap(raw, z, cp)
<1>1. Modulus \in Nat \ {0} /\ Half \in Nat \ {0} /\ Modulus = 2 * Half
    BY ModulusType
<1>0. n \in Int
    OBVIOUS
<1>2. raw \in 0 .. Modulus - 1
    BY <1>0, WrapInRange
<1>3. u \in Nat /\ Wrap(u, z) = raw
    BY <1>2, UnwrapWraps
<1>4. Gap(u, cp) <= Gap(n, cp)
    BY <1>2, UnwrapClosest
<1>5. (z + u) % Modulus = (z + n) % Modulus /\ z + u \in Int /\ z + n \in Int
    BY <1>3 DEF Wrap
<1> HIDE DEF raw, u
<1>6. PICK k \in Int : (z + u) - (z + n) = k * Modulus
    BY <1>5, SameRemainder
<1>7. u = n + k * Modulus /\ k * Modulus \in Int
    BY <1>3, <1>6, MultiplesLieApart
<1>8. u = n \/ u >= n + Modulus \/ u <= n - Modulus
    BY <1>1, <1>3, <1>7, MultiplesLieApart
<1>9. u = n
    BY <1>1, <1>3, <1>4, <1>8 DEF Gap
<1> QED
    BY <1>9 DEF u, raw

-----------------------------------------------------------------------------
(***************************************************************************)
(* The queue of bytes, in the modules whose bytes are the numbers of their *)
(* places in the stream.                                                   *)
(***************************************************************************)
QueueType == [cap : Nat, buf : Seq(Nat), closed : BOOLEAN, error : BOOLEAN,
              pushed : Nat, popped : Nat]

\* A queue that holds the bytes from the last one popped to the last one
\* pushed, in their places, and no more of them than it has room for.
InPlace(f) ==
    /\ f \in QueueType
    /\ Len(f.buf) <= f.cap
    /\ f.pushed = f.popped + Len(f.buf)
    /\ \A i \in 1 .. Len(f.buf) : f.buf[i] = f.popped + i - 1

\* A new queue is empty.
LEMMA NewFifoInPlace ==
    ASSUME NEW capacity \in Nat
    PROVE  InPlace(NewFifo(capacity)) /\ Len(NewFifo(capacity).buf) = 0
BY EmptySeq DEF InPlace, QueueType, NewFifo

\* What the numbers of a queue in place are.
LEMMA InPlaceNumbers ==
    ASSUME NEW f, InPlace(f)
    PROVE  /\ Buffered(f) \in Nat /\ Buffered(f) = Len(f.buf)
           /\ Available(f) \in Nat /\ Available(f) = f.cap - Len(f.buf)
           /\ f.pushed = f.popped + Buffered(f)
           /\ f.cap \in Nat /\ f.pushed \in Nat /\ f.popped \in Nat
           /\ f.closed \in BOOLEAN /\ f.error \in BOOLEAN /\ f.buf \in Seq(Nat)
           /\ Finished(f) <=> f.closed /\ Buffered(f) = 0
<1>1. f.buf \in Seq(Nat) /\ f.cap \in Nat /\ f.pushed \in Nat /\ f.popped \in Nat
      /\ f.closed \in BOOLEAN /\ f.error \in BOOLEAN
    BY DEF InPlace, QueueType
<1>2. Len(f.buf) \in Nat /\ Len(f.buf) <= f.cap /\ f.pushed = f.popped + Len(f.buf)
    BY <1>1, LenProperties DEF InPlace
<1>3. f.buf = << >> <=> Len(f.buf) = 0
    BY <1>1, EmptySeq
<1> QED
    BY <1>1, <1>2, <1>3 DEF Buffered, Available, Finished

\* A push of the bytes that come next leaves them in their places: the queue
\* takes as many as there is room for.
LEMMA PushInPlace ==
    ASSUME NEW f, InPlace(f), NEW data \in Seq(Nat),
           \A i \in 1 .. Len(data) : data[i] = f.pushed + i - 1
    PROVE  /\ InPlace(Push(f, data))
           /\ Room(f, data) \in 0 .. Len(data)
           /\ Room(f, data) <= Available(f)
           /\ Buffered(Push(f, data)) = Buffered(f) + Room(f, data)
           /\ Push(f, data).pushed = f.pushed + Room(f, data)
           /\ Push(f, data).popped = f.popped
           /\ Push(f, data).closed = f.closed
           /\ Push(f, data).error = f.error
           /\ Push(f, data).cap = f.cap
<1> DEFINE n == Room(f, data)
           new == SubSeq(data, 1, n)
           g == Push(f, data)
<1>1. /\ f.buf \in Seq(Nat) /\ f.cap \in Nat /\ f.pushed \in Nat /\ f.popped \in Nat
      /\ Available(f) \in Nat /\ Available(f) = f.cap - Len(f.buf)
      /\ Buffered(f) = Len(f.buf) /\ Len(f.buf) \in Nat
      /\ f.pushed = f.popped + Len(f.buf)
    BY InPlaceNumbers, LenProperties
<1>2. Len(data) \in Nat
    BY LenProperties
<1>3. n \in 0 .. Len(data) /\ n <= Available(f)
    BY <1>1, <1>2 DEF Room, Least
<1>15. n \in Int /\ n >= 0 /\ n <= f.cap - Len(f.buf)
    BY <1>1, <1>2, <1>3
<1> HIDE DEF n
<1>4. \A i \in 1 .. n : data[i] \in Nat
    BY <1>2, <1>3, ElementOfSeq
<1>5. new \in Seq(Nat) /\ Len(new) = n /\ \A i \in 1 .. n : new[i] = data[i]
    BY <1>2, <1>3, <1>4, SubSeqProperties
<1>6. /\ f.buf \o new \in Seq(Nat)
      /\ Len(f.buf \o new) = Len(f.buf) + n
      /\ \A i \in 1 .. Len(f.buf) + n : (f.buf \o new)[i] =
            IF i <= Len(f.buf) THEN f.buf[i] ELSE new[i - Len(f.buf)]
    BY SMTT(30), <1>1, <1>5, ConcatProperties
<1>7. /\ g = [f EXCEPT !.buf = f.buf \o new, !.pushed = f.pushed + n]
      /\ f \in QueueType
    BY DEF Push, InPlace, n
<1> HIDE DEF g, new
<1>12. f.pushed + n \in Nat
    BY <1>1, <1>2, <1>3
<1>13. g \in QueueType
    BY <1>6, <1>7, <1>12 DEF QueueType
<1>8. /\ g \in QueueType
      /\ g.buf = f.buf \o new /\ g.pushed = f.pushed + n /\ g.popped = f.popped
      /\ g.closed = f.closed /\ g.error = f.error /\ g.cap = f.cap
    BY <1>7, <1>13 DEF QueueType
<1>9. \A i \in 1 .. Len(g.buf) : g.buf[i] = g.popped + i - 1
    <2> SUFFICES ASSUME NEW i \in 1 .. Len(f.buf) + n
                 PROVE  (f.buf \o new)[i] = f.popped + i - 1
        BY <1>6, <1>8
    <2>1. CASE i <= Len(f.buf)
        BY <1>1, <1>3, <1>6, <2>1 DEF InPlace
    <2>2. CASE ~(i <= Len(f.buf))
        <3>1. i - Len(f.buf) \in 1 .. n
            BY <1>1, <1>3, <2>2
        <3>2. (f.buf \o new)[i] = data[i - Len(f.buf)]
            BY <1>5, <1>6, <2>2, <3>1
        <3>3. i - Len(f.buf) \in 1 .. Len(data)
            BY <1>2, <1>3, <3>1
        <3>4. data[i - Len(f.buf)] = f.pushed + (i - Len(f.buf)) - 1
            BY <3>3
        <3>5. (f.buf \o new)[i] = f.pushed + (i - Len(f.buf)) - 1
            BY <3>2, <3>4
        <3>6. i \in Int /\ Len(f.buf) \in Int /\ f.popped \in Int
            BY <1>1, <1>15
        <3>7. f.pushed = f.popped + Len(f.buf)
            BY <1>1
        <3>8. f.pushed + (i - Len(f.buf)) - 1 = f.popped + i - 1
            BY <3>6, <3>7
        <3> QED
            BY <3>5, <3>8
    <2> QED
        BY <2>1, <2>2
<1>14. Len(g.buf) = Len(f.buf) + n
    BY <1>6, <1>8
<1>10. Len(g.buf) = Len(f.buf) + n /\ Len(g.buf) <= g.cap
       /\ g.pushed = g.popped + Len(g.buf)
    <2>1. g.pushed = f.pushed + n /\ g.popped = f.popped /\ g.cap = f.cap
        BY <1>8
    <2> QED
        BY SMTT(30), <1>1, <1>14, <1>15, <2>1
<1>11. InPlace(g)
    BY <1>8, <1>9, <1>10 DEF InPlace
<1> QED
    BY <1>1, <1>3, <1>8, <1>10, <1>11 DEF g, n, Buffered

\* A pop of no more than is buffered takes the bytes that come first.
LEMMA PopInPlace ==
    ASSUME NEW f, InPlace(f), NEW len \in Nat, len <= Buffered(f)
    PROVE  /\ InPlace(Pop(f, len))
           /\ Buffered(Pop(f, len)) = Buffered(f) - len
           /\ Pop(f, len).popped = f.popped + len
           /\ Pop(f, len).pushed = f.pushed
           /\ Pop(f, len).closed = f.closed
           /\ Pop(f, len).error = f.error
           /\ Pop(f, len).cap = f.cap
<1> DEFINE rest == SubSeq(f.buf, len + 1, Len(f.buf))
           g == Pop(f, len)
<1>1. /\ f.buf \in Seq(Nat) /\ f.cap \in Nat /\ f.pushed \in Nat /\ f.popped \in Nat
      /\ Buffered(f) = Len(f.buf) /\ Len(f.buf) \in Nat
      /\ f.pushed = f.popped + Len(f.buf)
    BY InPlaceNumbers, LenProperties
<1>2. Gone(f, len) = len
    BY <1>1 DEF Gone, Least
<1>3. \A i \in len + 1 .. Len(f.buf) : f.buf[i] \in Nat
    BY <1>1, ElementOfSeq
<1>4. /\ rest \in Seq(Nat) /\ Len(rest) = Len(f.buf) - len
      /\ \A i \in 1 .. Len(f.buf) - len : rest[i] = f.buf[len + i]
    <2>1. /\ rest \in Seq(Nat)
          /\ Len(rest) = IF len + 1 <= Len(f.buf) THEN Len(f.buf) - (len + 1) + 1 ELSE 0
          /\ \A i \in 1 .. Len(f.buf) - (len + 1) + 1 : rest[i] = f.buf[len + 1 + i - 1]
        BY <1>1, <1>3, SubSeqProperties
    <2>2. \A i \in 1 .. Len(f.buf) - len : rest[i] = f.buf[len + i]
        <3> SUFFICES ASSUME NEW i \in 1 .. Len(f.buf) - len PROVE rest[i] = f.buf[len + i]
            OBVIOUS
        <3>1. i \in 1 .. Len(f.buf) - (len + 1) + 1 /\ len + 1 + i - 1 = len + i
            BY <1>1
        <3> QED
            BY <2>1, <3>1
    <2> QED
        BY <1>1, <2>1, <2>2
<1>5. /\ g = [f EXCEPT !.buf = rest, !.popped = f.popped + len]
      /\ f \in QueueType
    BY <1>2 DEF Pop, InPlace
<1> HIDE DEF g, rest
<1>10. f.popped + len \in Nat
    BY <1>1
<1>11. g \in QueueType
    BY <1>4, <1>5, <1>10 DEF QueueType
<1>6. /\ g \in QueueType
      /\ g.buf = rest /\ g.popped = f.popped + len /\ g.pushed = f.pushed
      /\ g.closed = f.closed /\ g.error = f.error /\ g.cap = f.cap
    BY <1>5, <1>11 DEF QueueType
<1>7. \A i \in 1 .. Len(g.buf) : g.buf[i] = g.popped + i - 1
    <2> SUFFICES ASSUME NEW i \in 1 .. Len(f.buf) - len
                 PROVE  rest[i] = f.popped + len + i - 1
        BY <1>4, <1>6
    <2>1. len + i \in 1 .. Len(f.buf)
        BY <1>1
    <2>2. f.buf[len + i] = f.popped + (len + i) - 1
        BY <2>1 DEF InPlace
    <2>3. rest[i] = f.buf[len + i]
        BY <1>4
    <2> QED
        BY SMTT(30), <1>1, <2>2, <2>3
<1>8. Len(g.buf) = Len(f.buf) - len /\ Len(g.buf) <= g.cap
      /\ g.pushed = g.popped + Len(g.buf)
    BY <1>1, <1>4, <1>6 DEF InPlace
<1>9. InPlace(g)
    BY <1>6, <1>7, <1>8 DEF InPlace
<1> QED
    BY <1>1, <1>6, <1>8, <1>9 DEF g, Buffered

\* Closing a queue and marking it with an error change nothing else.
LEMMA MarksInPlace ==
    ASSUME NEW f, InPlace(f)
    PROVE  /\ InPlace(Close(f)) /\ InPlace(SetError(f))
           /\ Close(f) = [f EXCEPT !.closed = TRUE] /\ Close(f).closed
           /\ Close(f).error = f.error
           /\ SetError(f).closed = f.closed
           /\ Close(f).buf = f.buf /\ SetError(f).buf = f.buf
           /\ Close(f).pushed = f.pushed /\ SetError(f).pushed = f.pushed
           /\ Close(f).popped = f.popped /\ SetError(f).popped = f.popped
           /\ Close(f).cap = f.cap /\ SetError(f).cap = f.cap
BY DEF InPlace, QueueType, Close, SetError

-----------------------------------------------------------------------------
(***************************************************************************)
(* Powers of two, as the number of subsets of a set: the provers know      *)
(* nothing else of exponentiation.                                         *)
(***************************************************************************)
LEMMA PowersDouble ==
    ASSUME NEW n \in Nat
    PROVE  2 ^ n \in Nat /\ 2 ^ (n + 1) = 2 * 2 ^ n
<1> DEFINE S == 1 .. n
           A == SUBSET S
           B == {T \cup {n + 1} : T \in A}
           f == [T \in A |-> T \cup {n + 1}]
<1>1. IsFiniteSet(S) /\ Cardinality(S) = n
      /\ IsFiniteSet(1 .. n + 1) /\ Cardinality(1 .. n + 1) = n + 1
    BY FS_Interval
<1>2. IsFiniteSet(A) /\ Cardinality(A) = 2 ^ n /\ Cardinality(A) \in Nat
      /\ Cardinality(SUBSET (1 .. n + 1)) = 2 ^ (n + 1)
    BY <1>1, FS_SUBSET, FS_CardinalityType
<1>3. n + 1 \notin S
    OBVIOUS
<1>4. f \in Bijection(A, B)
    <2>1. f \in [A -> B]
        OBVIOUS
    <2>2. ASSUME NEW T \in A, NEW U \in A, f[T] = f[U] PROVE T = U
        BY <1>3, <2>2
    <2>3. \A V \in B : \E T \in A : f[T] = V
        OBVIOUS
    <2> QED
        BY <2>1, <2>2, <2>3 DEF Bijection, Injection, Surjection, IsInjective
<1>5. IsFiniteSet(B) /\ Cardinality(B) = Cardinality(A)
    BY <1>2, <1>4, FS_Bijection DEF ExistsBijection
<1>6. A \cap B = {}
    BY <1>3
<1>7. A \cup B = SUBSET (1 .. n + 1)
    <2>1. ASSUME NEW U \in SUBSET (1 .. n + 1) PROVE U \in A \cup B
        <3>1. U \ {n + 1} \in A
            OBVIOUS
        <3>2. CASE n + 1 \in U
            BY <3>1, <3>2, U = (U \ {n + 1}) \cup {n + 1}
        <3>3. CASE n + 1 \notin U
            BY <3>1, <3>3, U = U \ {n + 1}
        <3> QED
            BY <3>2, <3>3
    <2>2. ASSUME NEW U \in A \cup B PROVE U \in SUBSET (1 .. n + 1)
        OBVIOUS
    <2> QED
        BY <2>1, <2>2
<1>8. Cardinality(A \cup B) = Cardinality(A) + Cardinality(B) - Cardinality(A \cap B)
    BY <1>2, <1>5, FS_Union
<1>9. Cardinality(A \cap B) = 0
    BY <1>6, FS_EmptySet
<1> HIDE DEF A, B
<1>10. Cardinality(A \cup B) = Cardinality(A) + Cardinality(A)
    BY <1>2, <1>5, <1>8, <1>9
<1>11. Cardinality(A \cup B) = 2 ^ (n + 1)
    BY <1>2, <1>7
<1> QED
    BY <1>2, <1>10, <1>11

-----------------------------------------------------------------------------
(***************************************************************************)
(* The natural numbers are well ordered.                                   *)
(***************************************************************************)
NatLess == OpToRel(<, Nat)

\* A set of natural numbers that is not empty has a smallest one.
LEMMA SmallestOne ==
    ASSUME NEW S \in SUBSET Nat, S # {}
    PROVE  \E m \in S : \A n \in S : m <= n
<1>1. IsWellFoundedOn(NatLess, Nat)
    BY NatLessThanWellFounded DEF NatLess
<1>2. PICK m \in S : \A n \in S : ~(<< n, m >> \in NatLess)
    BY <1>1, WFMin
<1>3. \A n, i \in Nat : n < i => << n, i >> \in NatLess
    BY DEF NatLess, OpToRel
<1>4. ASSUME NEW n \in S PROVE m <= n
    <2>1. ~(n < m)
        BY <1>2, <1>3
    <2> QED
        BY <2>1
<1> QED
    BY <1>4

-----------------------------------------------------------------------------
(***************************************************************************)
(* The sender's record and the operators on it (TCPSenderOps.tla).         *)
(***************************************************************************)
Segment == [at : Nat, msg : Message]

SenderType ==
    [input : QueueType, isn : 0 .. Modulus - 1, last : Nat, exp : Nat,
     finSent : BOOLEAN, finAcked : BOOLEAN, retx : Nat, conRetx : BOOLEAN,
     rto : Nat, running : BOOLEAN, expTime : Nat, wnd : Nat,
     ost : SUBSET Segment]

\* A message occupies as many numbers as it has bytes, and one for each flag.
LEMMA SequenceLengthIs ==
    ASSUME NEW msg \in Message
    PROVE  /\ Len(msg.payload) \in Nat
           /\ SequenceLength(msg) \in Nat
           /\ SequenceLength(msg) = Flag(msg.SYN) + Len(msg.payload) + Flag(msg.FIN)
           /\ SequenceLength(msg) >= Len(msg.payload)
<1>1. msg.payload \in Seq(Nat) /\ msg.SYN \in BOOLEAN /\ msg.FIN \in BOOLEAN
    BY DEF Message
<1>2. Len(msg.payload) \in Nat
    BY <1>1, LenProperties
<1>3. Flag(msg.SYN) \in {0, 1} /\ Flag(msg.FIN) \in {0, 1}
    BY DEF Flag
<1> QED
    BY <1>2, <1>3 DEF SequenceLength

\* A new sender is idle, with nothing sent.
LEMMA NewSenderType ==
    ASSUME NEW isn \in 0 .. Modulus - 1, NEW capacity \in Nat
    PROVE  NewSender(capacity, isn) \in SenderType
<1>1. NewFifo(capacity) \in QueueType
    BY NewFifoInPlace DEF InPlace
<1>2. InitialRTO \in Nat
    BY SenderConstants
<1> QED
    BY <1>1, <1>2 DEF NewSender, SenderType

\* The window counts as one when it is zero.
LEMMA WindowIs ==
    ASSUME NEW s \in SenderType
    PROVE  Window(s) \in Nat /\ Window(s) >= 1
BY DEF Window, SenderType

\* Restarting the timer changes nothing but the timer.
LEMMA StartTimerChanges ==
    ASSUME NEW s \in SenderType
    PROVE  /\ StartTimer(s) \in SenderType
           /\ StartTimer(s).running /\ StartTimer(s).expTime = s.rto
           /\ StartTimer(s).rto = s.rto
           /\ StartTimer(s).retx = s.retx /\ StartTimer(s).conRetx = s.conRetx
           /\ StartTimer(s).input = s.input /\ StartTimer(s).isn = s.isn
           /\ StartTimer(s).last = s.last /\ StartTimer(s).exp = s.exp
           /\ StartTimer(s).finSent = s.finSent
           /\ StartTimer(s).finAcked = s.finAcked
           /\ StartTimer(s).ost = s.ost /\ StartTimer(s).wnd = s.wnd
BY DEF StartTimer, SenderType

\* Backing off doubles the timeout when it counts a retransmission, and
\* changes nothing when the window is zero.
LEMMA BackOffChanges ==
    ASSUME NEW s \in SenderType
    PROVE  /\ BackOff(s) \in SenderType
           /\ BackOff(s).running = s.running /\ BackOff(s).expTime = s.expTime
           /\ BackOff(s).input = s.input /\ BackOff(s).isn = s.isn
           /\ BackOff(s).last = s.last /\ BackOff(s).exp = s.exp
           /\ BackOff(s).finSent = s.finSent
           /\ BackOff(s).finAcked = s.finAcked
           /\ BackOff(s).ost = s.ost /\ BackOff(s).wnd = s.wnd
           /\ s.wnd = 0 => BackOff(s).rto = s.rto
           /\ \/ /\ BackOff(s).rto = s.rto /\ BackOff(s).retx = s.retx
                 /\ BackOff(s).conRetx = s.conRetx
              \/ /\ BackOff(s).rto = 2 * s.rto /\ BackOff(s).conRetx
                 /\ BackOff(s).retx = IF s.conRetx THEN s.retx + 1 ELSE 1
<1>1. CASE s.wnd = 0 \/ s.retx >= RetxBound
    BY <1>1 DEF BackOff
<1>2. CASE ~(s.wnd = 0 \/ s.retx >= RetxBound)
    <2> DEFINE r == IF s.conRetx THEN s.retx + 1 ELSE 1
    <2>1. BackOff(s) = [s EXCEPT !.retx = r, !.conRetx = TRUE, !.rto = 2 * s.rto]
        BY <1>2 DEF BackOff
    <2>2. r \in Nat /\ 2 * s.rto \in Nat
        BY DEF SenderType
    <2> HIDE DEF r
    <2>3. BackOff(s) \in SenderType
        BY <2>1, <2>2 DEF SenderType
    <2>4. /\ BackOff(s).rto = 2 * s.rto /\ BackOff(s).conRetx /\ BackOff(s).retx = r
          /\ BackOff(s).running = s.running /\ BackOff(s).expTime = s.expTime
          /\ BackOff(s).input = s.input /\ BackOff(s).isn = s.isn
          /\ BackOff(s).last = s.last /\ BackOff(s).exp = s.exp
          /\ BackOff(s).finSent = s.finSent
          /\ BackOff(s).finAcked = s.finAcked
          /\ BackOff(s).ost = s.ost /\ BackOff(s).wnd = s.wnd
        BY <2>1 DEF SenderType
    <2> QED
        BY <1>2, <2>3, <2>4 DEF r
<1> QED
    BY <1>1, <1>2

\* An ack of something new: last moves, what is acknowledged in full goes, and
\* the timeout and the count of retransmissions start again.
LEMMA NewDataAckedChanges ==
    ASSUME NEW s \in SenderType, NEW ackno \in Nat, NEW window \in Nat
    PROVE  LET t == NewDataAcked(s, ackno, window) IN
           /\ t \in SenderType
           /\ t.input = s.input /\ t.isn = s.isn /\ t.exp = s.exp
           /\ t.finSent = s.finSent /\ t.running = s.running
           /\ t.last = ackno /\ t.ost = Unacked(s.ost, ackno)
           /\ t.rto = InitialRTO /\ t.retx = 0 /\ t.conRetx = FALSE
<1> DEFINE t == NewDataAcked(s, ackno, window)
<1>1. InitialRTO \in Nat
    BY SenderConstants
<1>2. Unacked(s.ost, ackno) \in SUBSET Segment
    BY DEF Unacked, SenderType
<1>3. t \in SenderType
    BY <1>1, <1>2 DEF NewDataAcked, SenderType
<1> QED
    BY <1>3 DEF NewDataAcked, SenderType

\* Any other ack moves the right edge of the window.
LEMMA OldAckChanges ==
    ASSUME NEW s \in SenderType, NEW ackno \in Nat, NEW window \in Nat
    PROVE  LET t == OldAck(s, ackno, window) IN
           /\ t \in SenderType
           /\ t.input = s.input /\ t.isn = s.isn /\ t.exp = s.exp
           /\ t.finSent = s.finSent /\ t.running = s.running
           /\ t.last = s.last /\ t.ost = s.ost /\ t.expTime = s.expTime
           /\ t.rto = s.rto /\ t.retx = s.retx /\ t.conRetx = s.conRetx
<1> DEFINE t == OldAck(s, ackno, window)
           w == IF ackno + window > s.last THEN ackno + window - s.last ELSE 0
<1>1. w \in Nat
    BY DEF SenderType
<1>2. t = [s EXCEPT !.wnd = w]
    BY DEF OldAck
<1> HIDE DEF w, t
<1>3. t \in SenderType
    BY <1>1, <1>2 DEF SenderType
<1> QED
    BY <1>2, <1>3 DEF SenderType, t

\* The three things an ackno can be: beyond what was sent, new, or old.  The
\* timer goes on only while something is outstanding, and anew after news.
TakenAsNew(s, t, ackno) ==
    /\ ackno <= s.exp /\ ackno > s.last
    /\ t.last = ackno /\ t.ost = Unacked(s.ost, ackno)
    /\ t.rto = InitialRTO /\ t.retx = 0 /\ t.conRetx = FALSE
    /\ t.running <=> t.ost # {}
    /\ t.running => t.expTime = t.rto

TakenAsOld(s, t, ackno) ==
    /\ ackno <= s.exp /\ ackno <= s.last
    /\ t.last = s.last /\ t.ost = s.ost
    /\ t.rto = s.rto /\ t.retx = s.retx /\ t.conRetx = s.conRetx
    /\ t.expTime = s.expTime
    /\ t.running <=> s.running /\ s.ost # {}

LEMMA TakeAckChanges ==
    ASSUME NEW s \in SenderType, NEW ackno \in Nat, NEW window \in Nat
    PROVE  LET t == TakeAck(s, ackno, window) IN
           /\ t \in SenderType
           /\ t.input = s.input /\ t.isn = s.isn /\ t.exp = s.exp
           /\ t.finSent = s.finSent
           /\ \/ ackno > s.exp /\ t = s
              \/ TakenAsNew(s, t, ackno)
              \/ TakenAsOld(s, t, ackno)
<1> DEFINE t == TakeAck(s, ackno, window)
           acked == s.finSent /\ ackno = s.exp
           noted == [s EXCEPT !.finAcked = acked]
           new == NewDataAcked(noted, ackno, window)
           old == OldAck(noted, ackno, window)
<1>1. s.exp \in Nat /\ s.last \in Nat /\ s.finSent \in BOOLEAN
    BY DEF SenderType
<1>2. acked \in BOOLEAN
    OBVIOUS
<1> HIDE DEF acked
<1>3. /\ noted \in SenderType
      /\ noted.input = s.input /\ noted.isn = s.isn /\ noted.exp = s.exp
      /\ noted.finSent = s.finSent /\ noted.running = s.running
      /\ noted.last = s.last /\ noted.ost = s.ost /\ noted.expTime = s.expTime
      /\ noted.rto = s.rto /\ noted.retx = s.retx /\ noted.conRetx = s.conRetx
    BY <1>2 DEF SenderType
<1>4. t = IF ackno > s.exp THEN s
          ELSE TimerAfterAck(IF ackno > s.last THEN new ELSE old, ackno > s.last)
    BY DEF TakeAck, acked
<1> HIDE DEF noted, t
<1>5. CASE ackno > s.exp
    BY <1>4, <1>5 DEF t
<1>6. CASE ackno <= s.exp /\ ackno > s.last
    <2>1. /\ new \in SenderType
          /\ new.input = s.input /\ new.isn = s.isn /\ new.exp = s.exp
          /\ new.finSent = s.finSent
          /\ new.last = ackno /\ new.ost = Unacked(s.ost, ackno)
          /\ new.rto = InitialRTO /\ new.retx = 0 /\ new.conRetx = FALSE
        <3>1. /\ new \in SenderType
              /\ new.input = noted.input /\ new.isn = noted.isn
            BY ZenonT(30), <1>3, NewDataAckedChanges
        <3>2. new.exp = noted.exp /\ new.finSent = noted.finSent /\ new.last = ackno
            BY ZenonT(30), <1>3, NewDataAckedChanges
        <3>3. new.ost = Unacked(noted.ost, ackno)
            BY <1>3, NewDataAckedChanges
        <3>4. new.rto = InitialRTO /\ new.retx = 0 /\ new.conRetx = FALSE
            BY ZenonT(30), <1>3, NewDataAckedChanges
        <3> HIDE DEF new
        <3> QED
            BY <1>3, <3>1, <3>2, <3>3, <3>4
    <2> HIDE DEF new, old
    <2>2. t = IF new.ost = {} THEN [new EXCEPT !.running = FALSE] ELSE StartTimer(new)
        <3>1. t = TimerAfterAck(new, ackno > s.last)
            BY <1>1, <1>4, <1>6
        <3> QED
            BY <1>6, <3>1 DEF TimerAfterAck
    <2>3. CASE new.ost = {}
        <3>1. t = [new EXCEPT !.running = FALSE]
            BY <2>2, <2>3
        <3>2. t \in SenderType
            BY <2>1, <3>1 DEF SenderType
        <3>3. /\ t.input = s.input /\ t.isn = s.isn /\ t.exp = s.exp
              /\ t.finSent = s.finSent
              /\ t.last = ackno /\ t.ost = Unacked(s.ost, ackno)
              /\ t.rto = InitialRTO /\ t.retx = 0 /\ t.conRetx = FALSE
              /\ t.running = FALSE /\ t.ost = {}
            BY <2>1, <2>3, <3>1 DEF SenderType
        <3> QED
            BY <1>6, <3>2, <3>3 DEF TakenAsNew, t
    <2>4. CASE new.ost # {}
        <3>1. t = StartTimer(new)
            BY <2>2, <2>4
        <3>2. /\ t \in SenderType
              /\ t.input = s.input /\ t.isn = s.isn /\ t.exp = s.exp
              /\ t.finSent = s.finSent
              /\ t.last = ackno /\ t.ost = Unacked(s.ost, ackno) /\ t.ost # {}
              /\ t.rto = InitialRTO /\ t.retx = 0 /\ t.conRetx = FALSE
              /\ t.running /\ t.expTime = t.rto
            BY <2>1, <2>4, <3>1, StartTimerChanges
        <3> QED
            BY <1>6, <3>2 DEF TakenAsNew, t
    <2> QED
        BY <2>3, <2>4
<1>7. CASE ackno <= s.exp /\ ackno <= s.last
    <2>1. /\ old \in SenderType
          /\ old.input = s.input /\ old.isn = s.isn /\ old.exp = s.exp
          /\ old.finSent = s.finSent /\ old.running = s.running
          /\ old.last = s.last /\ old.ost = s.ost /\ old.expTime = s.expTime
          /\ old.rto = s.rto /\ old.retx = s.retx /\ old.conRetx = s.conRetx
        BY <1>3, OldAckChanges
    <2> HIDE DEF new, old
    <2>2. t = IF old.ost = {} THEN [old EXCEPT !.running = FALSE] ELSE old
        <3>1. t = TimerAfterAck(old, ackno > s.last)
            BY <1>1, <1>4, <1>7
        <3> QED
            BY <1>1, <1>7, <3>1 DEF TimerAfterAck
    <2>3. CASE old.ost = {}
        <3>1. t = [old EXCEPT !.running = FALSE]
            BY <2>2, <2>3
        <3>2. t \in SenderType
            BY <2>1, <3>1 DEF SenderType
        <3>3. /\ t.input = s.input /\ t.isn = s.isn /\ t.exp = s.exp
              /\ t.finSent = s.finSent
              /\ t.last = s.last /\ t.ost = s.ost /\ t.expTime = s.expTime
              /\ t.rto = s.rto /\ t.retx = s.retx /\ t.conRetx = s.conRetx
              /\ t.running = FALSE /\ s.ost = {}
            BY <2>1, <2>3, <3>1 DEF SenderType
        <3> QED
            BY <1>7, <3>2, <3>3 DEF TakenAsOld, t
    <2>4. CASE old.ost # {}
        <3>1. t = old
            BY <2>2, <2>4
        <3> QED
            BY <1>7, <2>1, <2>4, <3>1 DEF TakenAsOld, t
    <2> QED
        BY <2>3, <2>4
<1> QED
    BY <1>1, <1>5, <1>6, <1>7

\* What an ack does to the right edge of the window: it is where the ack says,
\* or stays, or, when the ack says it is further left than the window starts,
\* the window is empty.
EdgeMoved(s, t, ackno, window) ==
    \/ t.last + t.wnd = ackno + window
    \/ t.last = s.last /\ t.wnd \in {0, s.wnd}

LEMMA TakeAckMovesEdge ==
    ASSUME NEW s \in SenderType, NEW ackno \in Nat, NEW window \in Nat,
           NEW t, t = TakeAck(s, ackno, window)
    PROVE  /\ EdgeMoved(s, t, ackno, window)
           /\ t.finAcked => s.finAcked \/ (s.finSent /\ ackno = s.exp)
<1> DEFINE acked == s.finSent /\ ackno = s.exp
           noted == [s EXCEPT !.finAcked = acked]
           new == NewDataAcked(noted, ackno, window)
           old == OldAck(noted, ackno, window)
           after == IF ackno > s.last THEN new ELSE old
<1>1. s.exp \in Nat /\ s.last \in Nat /\ s.wnd \in Nat /\ s.finSent \in BOOLEAN
    BY DEF SenderType
<1>2. t = IF ackno > s.exp THEN s ELSE TimerAfterAck(after, ackno > s.last)
    BY DEF TakeAck
<1>3. acked \in BOOLEAN /\ (acked => s.finSent /\ ackno = s.exp)
    OBVIOUS
<1> HIDE DEF acked
<1>4. noted \in SenderType /\ noted.last = s.last /\ noted.finAcked = acked
    BY <1>3 DEF SenderType
<1> HIDE DEF noted
<1>5. new.finAcked = acked /\ new.last = ackno /\ new.wnd = window
    BY <1>4 DEF NewDataAcked, SenderType
<1>6. /\ old.finAcked = acked /\ old.last = s.last
      /\ old.wnd = IF ackno + window > s.last THEN ackno + window - s.last ELSE 0
    BY <1>4 DEF OldAck, SenderType
<1>11. new \in SenderType /\ old \in SenderType
    BY <1>4, NewDataAckedChanges, OldAckChanges
<1> HIDE DEF new, old
<1>7. ASSUME NEW u \in SenderType, NEW isNew, t = TimerAfterAck(u, isNew)
      PROVE  t.last = u.last /\ t.wnd = u.wnd /\ t.finAcked = u.finAcked
    <2>1. \/ t = [u EXCEPT !.running = FALSE]
          \/ t = StartTimer(u)
          \/ t = u
        BY <1>7 DEF TimerAfterAck
    <2>2. CASE t = [u EXCEPT !.running = FALSE]
        BY <2>2 DEF SenderType
    <2>3. CASE t = StartTimer(u)
        BY <2>3, StartTimerChanges
    <2> QED
        BY <2>1, <2>2, <2>3
<1>8. CASE ackno > s.exp
    BY <1>2, <1>8 DEF EdgeMoved
<1>9. CASE ackno <= s.exp /\ ackno > s.last
    <2>1. t = TimerAfterAck(new, ackno > s.last)
        BY <1>1, <1>2, <1>9
    <2>2. t.last = ackno /\ t.wnd = window /\ t.finAcked = acked
        BY <1>5, <1>7, <1>11, <2>1
    <2> QED
        BY <1>3, <2>2 DEF EdgeMoved
<1>10. CASE ackno <= s.exp /\ ackno <= s.last
    <2>1. t = TimerAfterAck(old, ackno > s.last)
        BY <1>1, <1>2, <1>10
    <2>2. t.last = s.last /\ t.wnd = old.wnd /\ t.finAcked = acked
        BY <1>6, <1>7, <1>11, <2>1
    <2>3. EdgeMoved(s, t, ackno, window)
        BY <1>1, <1>6, <2>2 DEF EdgeMoved
    <2> QED
        BY <1>3, <2>2, <2>3
<1> QED
    BY <1>1, <1>8, <1>9, <1>10

\* Starting over forgets what was sent.
LEMMA StartOverChanges ==
    ASSUME NEW s \in SenderType, NEW window \in Nat
    PROVE  LET t == StartOver(s, window) IN
           /\ t \in SenderType
           /\ t.input = s.input /\ t.isn = s.isn /\ t.finSent = s.finSent
           /\ t.last = 0 /\ t.exp = 0 /\ t.ost = {}
           /\ t.running = s.running /\ t.expTime = s.expTime
           /\ t.rto = s.rto /\ t.retx = s.retx /\ t.conRetx = s.conRetx
<1>1. StartOver(s, window) \in SenderType
    BY DEF StartOver, SenderType
<1> QED
    BY <1>1 DEF StartOver, SenderType

AckMessage ==
    [hasAck : BOOLEAN, ackno : 0 .. Modulus - 1, window : Nat, RST : BOOLEAN]

\* The three kinds of messages a peer sends, and what receive does with each.
TakesReset(s, t) == t = [s EXCEPT !.input = SetError(s.input)]
TakesAck(s, t)   == \E ackno, window \in Nat : t = TakeAck(s, ackno, window)
TakesNoAck(s, t) ==
    \E window \in Nat : t = TakeAck(StartOver(s, window), 0, window)

LEMMA AckCases ==
    ASSUME NEW s \in SenderType, NEW m \in AckMessage
    PROVE  LET t == SenderReceive(s, m) IN
           \/ m.RST /\ TakesReset(s, t)
           \/ m.hasAck /\ ~m.RST /\ TakesAck(s, t)
           \/ ~m.hasAck /\ ~m.RST /\ TakesNoAck(s, t)
<1>1. s.isn \in Int /\ s.last \in Nat
    BY ModulusType DEF SenderType
<1>2. /\ m.hasAck \in BOOLEAN /\ m.RST \in BOOLEAN
      /\ m.window \in Nat /\ m.ackno \in 0 .. Modulus - 1
    BY DEF AckMessage
<1>3. Unwrap(m.ackno, s.isn, s.last) \in Nat
    BY <1>1, <1>2, UnwrapWraps
<1>4. CASE m.RST
    BY <1>4 DEF SenderReceive, TakesReset
<1>5. CASE m.hasAck /\ ~m.RST
    <2>1. SenderReceive(s, m) = TakeAck(s, Unwrap(m.ackno, s.isn, s.last), m.window)
        BY <1>5 DEF SenderReceive
    <2> QED
        BY <1>2, <1>3, <1>5, <2>1 DEF TakesAck
<1>6. CASE ~m.hasAck /\ ~m.RST
    <2>1. SenderReceive(s, m) = TakeAck(StartOver(s, m.window), 0, m.window)
        BY <1>6 DEF SenderReceive
    <2> QED
        BY <1>2, <1>6, <2>1 DEF TakesNoAck
<1> QED
    BY <1>2, <1>4, <1>5, <1>6

-----------------------------------------------------------------------------
(***************************************************************************)
(* The loop of push: the room left in the window and what is left to send. *)
(* Only with it are the two locals never negative, and only with it does a *)
(* turn stay within the window.                                            *)
(***************************************************************************)
LeftToSend(s) ==
    Flag(s.exp = 0) + Buffered(s.input) + Flag(s.input.closed /\ ~s.finSent)

LoopRight(s, l) ==
    /\ s \in SenderType /\ InPlace(s.input)
    /\ s.finSent => s.input.closed /\ Buffered(s.input) = 0
    /\ l.wnd \in Nat /\ l.data \in Nat
    /\ l.wnd = s.last + Window(s) - s.exp
    /\ l.data = LeftToSend(s)

\* What a turn of push's loop sends: something, no more than the window has
\* room for, taken from the head of the stream, and the FIN only with the last
\* byte of a closed stream.
LEMMA TurnSendsSome ==
    ASSUME NEW s, NEW l, LoopRight(s, l), Turns(l)
    PROVE  LET msg == TurnMessage(s, l)
               n   == TurnBytes(s, l)
           IN  /\ msg \in Message
               /\ n \in Nat /\ n <= Buffered(s.input)
               /\ Len(msg.payload) = n
               /\ \A i \in 1 .. n : msg.payload[i] = s.input.popped + i - 1
               /\ msg.SYN = (s.exp = 0)
               /\ msg.seqno = Wrap(s.exp, s.isn)
               /\ msg.FIN \in BOOLEAN
               /\ msg.FIN => s.input.closed /\ n = Buffered(s.input)
               /\ SequenceLength(msg) = Flag(s.exp = 0) + n + Flag(msg.FIN)
               /\ SequenceLength(msg) \in Nat
               /\ SequenceLength(msg) > 0 /\ SequenceLength(msg) <= l.wnd
<1> DEFINE msg == TurnMessage(s, l)
           n   == TurnBytes(s, l)
           f   == s.input
           syn == s.exp = 0
           fin == TurnFIN(s, l)
<1>1. /\ s.exp \in Nat /\ s.isn \in Int /\ s.finSent \in BOOLEAN
      /\ l.wnd \in Nat /\ l.data \in Nat
      /\ l.wnd > 0 /\ l.data > 0
      /\ l.data = LeftToSend(s)
      /\ MaxPayload \in Nat \ {0}
    BY ModulusType, SenderConstants DEF LoopRight, SenderType, Turns
<1>2. /\ InPlace(f) /\ Buffered(f) \in Nat /\ Buffered(f) = Len(f.buf)
      /\ f.buf \in Seq(Nat) /\ f.closed \in BOOLEAN /\ f.error \in BOOLEAN
    BY InPlaceNumbers DEF LoopRight
<1>3. Flag(syn) = IF syn THEN 1 ELSE 0
    BY DEF Flag
<1>4. n = Least(Buffered(f), Least(l.wnd - Flag(syn), MaxPayload))
    BY DEF TurnBytes, TurnSYN
<1>5. fin <=> /\ l.wnd - Flag(syn) - n > 0
              /\ f.closed /\ n = Buffered(f)
    BY DEF TurnFIN, TurnSYN
<1>6. /\ msg.seqno = Wrap(s.exp, s.isn) /\ msg.SYN = syn
      /\ msg.payload = SubSeq(f.buf, 1, n) /\ msg.FIN = fin /\ msg.RST = f.error
      /\ msg = [seqno |-> Wrap(s.exp, s.isn), SYN |-> syn,
                payload |-> SubSeq(f.buf, 1, n), FIN |-> fin, RST |-> f.error]
    BY DEF TurnMessage, TurnSYN
<1>7. fin \in BOOLEAN
    BY DEF TurnFIN
<1> HIDE DEF msg, n, fin
<1>8. n \in Nat /\ n <= Buffered(f) /\ n <= l.wnd - Flag(syn)
    BY SMTT(30), <1>1, <1>2, <1>3, <1>4 DEF Least
<1>9. /\ SubSeq(f.buf, 1, n) \in Seq(Nat) /\ Len(SubSeq(f.buf, 1, n)) = n
      /\ \A i \in 1 .. n : SubSeq(f.buf, 1, n)[i] = f.buf[i]
    <2>1. \A i \in 1 .. n : f.buf[i] \in Nat
        BY SMTT(30), <1>2, <1>8, ElementOfSeq
    <2>2. /\ SubSeq(f.buf, 1, n) \in Seq(Nat)
          /\ Len(SubSeq(f.buf, 1, n)) = IF 1 <= n THEN n - 1 + 1 ELSE 0
          /\ \A i \in 1 .. n - 1 + 1 : SubSeq(f.buf, 1, n)[i] = f.buf[1 + i - 1]
        BY <1>8, <2>1, SubSeqProperties
    <2> QED
        BY <1>8, <2>2
<1>10. Len(msg.payload) = n
    BY <1>6, <1>9
<1>11. \A i \in 1 .. n : msg.payload[i] = f.popped + i - 1
    <2>1. \A i \in 1 .. n : f.buf[i] = f.popped + i - 1
        BY <1>2, <1>8 DEF InPlace
    <2> QED
        BY <1>6, <1>9, <2>1
<1>12. Wrap(s.exp, s.isn) \in 0 .. Modulus - 1
    BY <1>1, s.exp \in Int, WrapInRange
<1>13. msg \in Message
    BY <1>2, <1>6, <1>7, <1>9, <1>12 DEF Message
<1>14. SequenceLength(msg) = Flag(syn) + n + Flag(fin)
    BY <1>6, <1>10 DEF SequenceLength
<1>15. Flag(fin) = IF fin THEN 1 ELSE 0
    BY DEF Flag
<1>16. SequenceLength(msg) \in Nat /\ SequenceLength(msg) <= l.wnd
    <2>1. CASE fin
        BY <1>1, <1>3, <1>5, <1>8, <1>14, <1>15, <2>1
    <2>2. CASE ~fin
        BY <1>1, <1>3, <1>8, <1>14, <1>15, <2>2
    <2> QED
        BY <2>1, <2>2
<1>17. SequenceLength(msg) > 0
    <2>1. CASE syn
        BY <1>3, <1>7, <1>8, <1>14, <1>15, <2>1
    <2>2. CASE ~syn /\ Buffered(f) > 0
        <3>1. n > 0
            BY <1>1, <1>2, <1>3, <1>4, <2>2 DEF Least
        <3> QED
            BY <1>3, <1>7, <1>8, <1>14, <1>15, <2>2, <3>1
    <2>3. CASE ~syn /\ Buffered(f) = 0
        <3>1. f.closed
            BY <1>1, <1>2, <1>3, <2>3 DEF LeftToSend, Flag
        <3>2. n = 0
            BY <1>8, <2>3
        <3>3. fin
            BY <1>1, <1>3, <1>5, <2>3, <3>1, <3>2
        <3> QED
            BY <1>3, <1>14, <1>15, <2>3, <3>2, <3>3
    <2> QED
        BY <1>2, <2>1, <2>2, <2>3
<1>18. fin => f.closed /\ n = Buffered(f)
    BY <1>5
<1> QED
    BY <1>6, <1>7, <1>8, <1>10, <1>11, <1>13, <1>14, <1>16, <1>17, <1>18
       DEF msg, n, fin

\* What a turn of push's loop changes.
Turned(s, l, t, k) ==
    LET msg == TurnMessage(s, l)
        n   == TurnBytes(s, l)
    IN  /\ t \in SenderType
        /\ t.input = Pop(s.input, n)
        /\ t.isn = s.isn /\ t.last = s.last /\ t.wnd = s.wnd
        /\ t.exp = s.exp + SequenceLength(msg)
        /\ t.finSent = (s.finSent \/ msg.FIN) /\ t.finAcked = s.finAcked
        /\ t.retx = s.retx /\ t.conRetx = s.conRetx
        /\ t.rto = s.rto /\ t.running = TRUE
        /\ t.expTime = (IF s.running THEN s.expTime ELSE s.rto)
        /\ t.ost = s.ost \cup {[at |-> s.exp, msg |-> msg]}
        /\ k.wnd = l.wnd - SequenceLength(msg)
        /\ k.data = (IF msg.FIN THEN 0 ELSE l.data - Flag(msg.SYN) - n)
        /\ k.out = Append(l.out, msg)

LEMMA TurnMoves ==
    ASSUME NEW s, NEW l, LoopRight(s, l), Turns(l),
           NEW t, t = TurnSender(s, TurnMessage(s, l)),
           NEW k, k = TurnLoop(s, l, TurnMessage(s, l))
    PROVE  Turned(s, l, t, k)
<1> DEFINE msg == TurnMessage(s, l)
           n   == TurnBytes(s, l)
           g   == Pop(s.input, n)
           ost == s.ost \cup {[at |-> s.exp, msg |-> msg]}
           fin == s.finSent \/ msg.FIN
           exp == s.exp + SequenceLength(msg)
           time == IF s.running THEN s.expTime ELSE s.rto
<1>1. t = TurnSender(s, msg) /\ k = TurnLoop(s, l, msg)
    OBVIOUS
<1>2. /\ msg \in Message /\ n \in Nat /\ n <= Buffered(s.input)
      /\ Len(msg.payload) = n /\ SequenceLength(msg) \in Nat
    BY TurnSendsSome
<1>3. s \in SenderType
    BY DEF LoopRight
<1>4. g \in QueueType
    BY <1>2, PopInPlace DEF LoopRight, InPlace
<1>5. ost \in SUBSET Segment
    BY <1>2, <1>3 DEF SenderType, Segment
<1>6. fin \in BOOLEAN
    OBVIOUS
<1>7. exp \in Nat /\ time \in Nat
    BY <1>2, <1>3 DEF SenderType
<1>8. t = [s EXCEPT !.input = g, !.finSent = fin, !.ost = ost,
                               !.exp = exp, !.running = TRUE, !.expTime = time]
    BY <1>1, <1>2 DEF TurnSender
<1>9. k = [wnd |-> l.wnd - SequenceLength(msg),
               data |-> IF msg.FIN THEN 0 ELSE l.data - Flag(msg.SYN) - n,
               out |-> Append(l.out, msg)]
    BY <1>1, <1>2 DEF TurnLoop
<1> HIDE DEF msg, n, g, ost, fin, exp, time
<1>10. t \in SenderType
    BY ZenonT(30), <1>3, <1>4, <1>5, <1>6, <1>7, <1>8 DEF SenderType
<1>11. /\ t.input = g /\ t.isn = s.isn /\ t.last = s.last
       /\ t.exp = exp /\ t.finSent = fin
       /\ t.retx = s.retx /\ t.conRetx = s.conRetx
       /\ t.rto = s.rto /\ t.running = TRUE
       /\ t.expTime = time /\ t.wnd = s.wnd /\ t.ost = ost
       /\ t.finAcked = s.finAcked
    BY <1>3, <1>8 DEF SenderType
<1>12. /\ k.wnd = l.wnd - SequenceLength(msg)
       /\ k.data = IF msg.FIN THEN 0 ELSE l.data - Flag(msg.SYN) - n
       /\ k.out = Append(l.out, msg)
    BY <1>9
<1> QED
    BY <1>10, <1>11, <1>12 DEF Turned, msg, n, g, ost, fin, exp, time

\* A turn leaves the loop right.
LEMMA TurnKeepsLoop ==
    ASSUME NEW s, NEW l, LoopRight(s, l), Turns(l),
           NEW t, t = TurnSender(s, TurnMessage(s, l)),
           NEW k, k = TurnLoop(s, l, TurnMessage(s, l))
    PROVE  LoopRight(t, k) /\ t.input.cap = s.input.cap
<1> DEFINE msg == TurnMessage(s, l)
           n   == TurnBytes(s, l)
           len == SequenceLength(msg)
<1>2. Turned(s, l, t, k)
    BY TurnMoves
<1>1. /\ t \in SenderType /\ t.input = Pop(s.input, n)
      /\ t.last = s.last /\ t.wnd = s.wnd
      /\ t.exp = s.exp + len
      /\ t.finSent = (s.finSent \/ msg.FIN)
      /\ k.wnd = l.wnd - len
      /\ k.data = (IF msg.FIN THEN 0 ELSE l.data - Flag(msg.SYN) - n)
    BY <1>2 DEF Turned
<1>3. /\ n \in Nat /\ n <= Buffered(s.input)
      /\ msg.SYN = (s.exp = 0) /\ msg.FIN \in BOOLEAN
      /\ msg.FIN => s.input.closed /\ n = Buffered(s.input)
      /\ len \in Nat /\ len > 0 /\ len <= l.wnd
    BY TurnSendsSome
<1> HIDE DEF msg, n, len
<1>4. /\ s.exp \in Nat /\ s.last \in Nat /\ s.finSent \in BOOLEAN
      /\ l.wnd \in Nat /\ l.data \in Nat
      /\ InPlace(s.input) /\ s.input.cap \in Nat
      /\ l.wnd = s.last + Window(s) - s.exp
      /\ l.data = LeftToSend(s)
      /\ s.finSent => s.input.closed /\ Buffered(s.input) = 0
    BY InPlaceNumbers DEF LoopRight, SenderType
<1>5. /\ InPlace(t.input) /\ t.input.cap = s.input.cap
      /\ Buffered(t.input) = Buffered(s.input) - n
      /\ t.input.closed = s.input.closed
    BY <1>1, <1>3, <1>4, PopInPlace
<1>6. Buffered(s.input) \in Nat /\ s.input.closed \in BOOLEAN
    BY <1>4, InPlaceNumbers
<1>7. Window(t) = Window(s) /\ Window(s) \in Nat
    BY <1>1, WindowIs DEF Window, LoopRight
<1>8. k.wnd \in Nat /\ k.wnd = t.last + Window(t) - t.exp
    BY <1>1, <1>3, <1>4, <1>7
<1>9. LeftToSend(s) = Flag(s.exp = 0) + Buffered(s.input)
                             + Flag(s.input.closed /\ ~s.finSent)
    BY DEF LeftToSend
<1>10. LeftToSend(t) = Flag(t.exp = 0) + Buffered(t.input)
                               + Flag(t.input.closed /\ ~t.finSent)
    BY DEF LeftToSend, Buffered
<1>11. Flag(t.exp = 0) = 0
    BY <1>1, <1>3, <1>4 DEF Flag
<1>12. k.data \in Nat /\ k.data = LeftToSend(t)
    <2>1. CASE msg.FIN
        <3>1. Flag(t.input.closed /\ ~t.finSent) = 0
            BY <1>1, <2>1 DEF Flag
        <3>2. Buffered(t.input) = 0
            BY <1>3, <1>5, <1>6, <2>1
        <3> QED
            BY <1>1, <1>10, <1>11, <2>1, <3>1, <3>2
    <2>2. CASE ~msg.FIN
        <3>1. Flag(t.input.closed /\ ~t.finSent)
                = Flag(s.input.closed /\ ~s.finSent)
            BY <1>1, <1>5, <2>2 DEF Flag
        <3>2. Flag(msg.SYN) = Flag(s.exp = 0)
            BY <1>3
        <3>3. /\ Flag(s.exp = 0) \in {0, 1}
              /\ Flag(s.input.closed /\ ~s.finSent) \in {0, 1}
            BY DEF Flag
        <3>4. k.data = l.data - Flag(s.exp = 0) - n
            BY <1>1, <2>2, <3>2
        <3> QED
            BY <1>3, <1>4, <1>5, <1>6, <1>9, <1>10, <1>11, <3>1, <3>3, <3>4
    <2> QED
        BY <1>3, <2>1, <2>2
<1>13. t.finSent => t.input.closed /\ Buffered(t.input) = 0
    BY <1>1, <1>3, <1>4, <1>5, <1>6
<1> QED
    BY <1>1, <1>5, <1>8, <1>12, <1>13 DEF LoopRight

\* receive leaves the stream alone but for the mark of error, and the FIN sent.
LEMMA ReceiveKeepsStream ==
    ASSUME NEW s \in SenderType, InPlace(s.input), NEW m \in AckMessage
    PROVE  LET t == SenderReceive(s, m) IN
           /\ t \in SenderType /\ InPlace(t.input)
           /\ t.input.cap = s.input.cap /\ t.input.closed = s.input.closed
           /\ t.input.buf = s.input.buf /\ t.input.popped = s.input.popped
           /\ t.finSent = s.finSent /\ t.isn = s.isn
<1> DEFINE t == SenderReceive(s, m)
<1>1. CASE TakesReset(s, t)
    <2> DEFINE f == SetError(s.input)
    <2>1. t = [s EXCEPT !.input = f]
        BY <1>1 DEF TakesReset
    <2>2. InPlace(f) /\ f.cap = s.input.cap /\ f.closed = s.input.closed
          /\ f.buf = s.input.buf /\ f.popped = s.input.popped
        BY MarksInPlace
    <2>3. f \in QueueType
        BY <2>2 DEF InPlace
    <2> HIDE DEF f, t
    <2>4. t \in SenderType
        BY <2>1, <2>3 DEF SenderType
    <2>5. t.input = f /\ t.finSent = s.finSent /\ t.isn = s.isn
        BY <2>1 DEF SenderType
    <2> QED
        BY <2>2, <2>4, <2>5 DEF t
<1>2. CASE TakesAck(s, t)
    <2>1. PICK a \in Nat, w \in Nat : t = TakeAck(s, a, w)
        BY <1>2 DEF TakesAck
    <2> HIDE DEF t
    <2>2. t \in SenderType /\ t.input = s.input /\ t.finSent = s.finSent
          /\ t.isn = s.isn
        BY <2>1, TakeAckChanges
    <2> QED
        BY <2>2 DEF t
<1>3. CASE TakesNoAck(s, t)
    <2>1. PICK w \in Nat : t = TakeAck(StartOver(s, w), 0, w)
        BY <1>3 DEF TakesNoAck
    <2> DEFINE o == StartOver(s, w)
    <2>2. o \in SenderType /\ o.input = s.input /\ o.finSent = s.finSent
          /\ o.isn = s.isn
        BY StartOverChanges
    <2>3. t = TakeAck(o, 0, w)
        BY <2>1
    <2> HIDE DEF t, o
    <2>4. t \in SenderType /\ t.input = o.input /\ t.finSent = o.finSent
          /\ t.isn = o.isn
        BY <2>2, <2>3, TakeAckChanges
    <2> QED
        BY <2>2, <2>4 DEF t
<1> QED
    BY <1>1, <1>2, <1>3, AckCases

\* tick leaves all alone but the timer and the count of retransmissions.
LEMMA TickChanges ==
    ASSUME NEW s \in SenderType
    PROVE  LET t == TickExpires(s) IN
           /\ t \in SenderType
           /\ t.input = s.input /\ t.isn = s.isn
           /\ t.last = s.last /\ t.exp = s.exp /\ t.wnd = s.wnd
           /\ t.finSent = s.finSent /\ t.ost = s.ost
           /\ t.finAcked = s.finAcked
           /\ s.wnd = 0 => t.rto = s.rto
           /\ t.running <=> s.ost # {}
           /\ t.running => t.expTime = t.rto
           /\ \/ t.rto = s.rto /\ t.retx = s.retx /\ t.conRetx = s.conRetx
              \/ /\ t.rto = 2 * s.rto /\ t.conRetx
                 /\ t.retx = IF s.conRetx THEN s.retx + 1 ELSE 1
<1> DEFINE t == TickExpires(s)
           b == BackOff(s)
<1>1. CASE s.ost = {}
    <2>1. t = [s EXCEPT !.running = FALSE]
        BY <1>1 DEF TickExpires
    <2> HIDE DEF t
    <2>2. t \in SenderType
        BY <2>1 DEF SenderType
    <2>3. /\ t.input = s.input /\ t.isn = s.isn
          /\ t.last = s.last /\ t.exp = s.exp /\ t.wnd = s.wnd
          /\ t.finSent = s.finSent /\ t.ost = s.ost
          /\ t.finAcked = s.finAcked
          /\ t.rto = s.rto /\ t.retx = s.retx /\ t.conRetx = s.conRetx
          /\ t.running = FALSE
        BY <2>1 DEF SenderType
    <2> QED
        BY <1>1, <2>2, <2>3 DEF t
<1>2. CASE s.ost # {}
    <2>1. t = StartTimer(b)
        BY <1>2 DEF TickExpires
    <2>2. /\ b \in SenderType
          /\ b.input = s.input /\ b.isn = s.isn
          /\ b.last = s.last /\ b.exp = s.exp /\ b.wnd = s.wnd
          /\ b.finSent = s.finSent /\ b.ost = s.ost
          /\ b.finAcked = s.finAcked
          /\ s.wnd = 0 => b.rto = s.rto
          /\ \/ b.rto = s.rto /\ b.retx = s.retx /\ b.conRetx = s.conRetx
             \/ /\ b.rto = 2 * s.rto /\ b.conRetx
                /\ b.retx = IF s.conRetx THEN s.retx + 1 ELSE 1
        BY BackOffChanges
    <2> HIDE DEF t, b
    <2>3. /\ t \in SenderType
          /\ t.input = b.input /\ t.isn = b.isn
          /\ t.last = b.last /\ t.exp = b.exp /\ t.wnd = b.wnd
          /\ t.finSent = b.finSent /\ t.ost = b.ost
          /\ t.finAcked = b.finAcked
          /\ t.rto = b.rto /\ t.retx = b.retx /\ t.conRetx = b.conRetx
          /\ t.running /\ t.expTime = b.rto
        BY <2>1, <2>2, StartTimerChanges
    <2> QED
        BY <1>2, <2>2, <2>3 DEF t
<1> QED
    BY <1>1, <1>2

-----------------------------------------------------------------------------
(***************************************************************************)
(* The first of the pending segments.                                      *)
(***************************************************************************)
\* The set of the code holds no two segments with the same keys.
KeysDiffer(segs) ==
    \A s, t \in segs : s.begin = t.begin /\ s.end = t.end => s = t

\* A segment's keys are in order, below a bound and within its data.
KeysRight(s, bound) ==
    s.begin <= s.end /\ s.end <= s.begin + Len(s.data) /\ s.end <= bound

\* The segments of a set in which no two have the same keys, with ends below a
\* bound, have a first one in the order of the code's set (seg::operator<).
LEMMA FirstSegIsFirst ==
    ASSUME NEW bound \in Nat, NEW segs \in SUBSET SegType, segs # {}, KeysDiffer(segs),
           \A s \in segs : KeysRight(s, bound)
    PROVE  /\ FirstSeg(segs) \in segs
           /\ \A t \in segs \ {FirstSeg(segs)} : Before(FirstSeg(segs), t)
           /\ \A t \in segs : FirstSeg(segs).begin <= t.begin
<1>1. \A s \in segs : /\ s.begin \in Nat /\ s.end \in Nat
                      /\ bound - s.end \in Nat
    <2> SUFFICES ASSUME NEW s \in segs
                 PROVE  /\ s.begin \in Nat /\ s.end \in Nat
                        /\ bound - s.end \in Nat
        OBVIOUS
    <2>1. s.begin \in Nat /\ s.end \in Nat
        BY DEF SegType
    <2>2. s.end <= bound
        BY DEF KeysRight
    <2> QED
        BY <2>1, <2>2
<1> DEFINE begins == {s.begin : s \in segs}
<1>2. PICK b \in begins : \A n \in begins : b <= n
    <2>1. begins \in SUBSET Nat /\ begins # {}
        BY <1>1
    <2> QED
        BY <2>1, SmallestOne
<1> DEFINE firsts == {s \in segs : s.begin = b}
           rooms == {bound - s.end : s \in firsts}
<1>3. PICK e \in rooms : \A n \in rooms : e <= n
    <2>1. rooms \in SUBSET Nat /\ rooms # {}
        BY <1>1, <1>2
    <2> QED
        BY <2>1, SmallestOne
<1>4. PICK s \in segs : s.begin = b /\ bound - s.end = e
    BY <1>3
<1>5. ASSUME NEW t \in segs \ {s} PROVE Before(s, t)
    <2>1. b <= t.begin
        BY <1>2
    <2>2. CASE t.begin = b
        <3>1. e <= bound - t.end
            BY <1>3, <2>2
        <3>2. s.end # t.end
            BY <1>4, <2>2 DEF KeysDiffer
        <3>3. s.end \in Nat /\ t.end \in Nat /\ bound \in Nat
            BY <1>1
        <3>4. s.end > t.end
            BY <1>4, <3>1, <3>2, <3>3
        <3> QED
            BY <1>4, <2>2, <3>4 DEF Before
    <2>3. CASE t.begin # b
        <3>1. b \in Nat /\ t.begin \in Nat
            BY <1>1, <1>4
        <3>2. b < t.begin
            BY <2>1, <2>3, <3>1
        <3> QED
            BY <1>4, <3>2 DEF Before
    <2> QED
        BY <2>2, <2>3
<1>6. /\ FirstSeg(segs) \in segs
      /\ \A t \in segs \ {FirstSeg(segs)} : Before(FirstSeg(segs), t)
    BY <1>5 DEF FirstSeg
<1>7. ASSUME NEW t \in segs PROVE FirstSeg(segs).begin <= t.begin
    <2> DEFINE f == FirstSeg(segs)
    <2>1. f.begin \in Nat /\ t.begin \in Nat
        BY <1>1, <1>6
    <2>2. t = f \/ Before(f, t)
        BY <1>6
    <2> QED
        BY <2>1, <2>2 DEF Before
<1> QED
    BY <1>6, <1>7

-----------------------------------------------------------------------------
(***************************************************************************)
(* Parts of strings.                                                       *)
(***************************************************************************)
\* The bytes of a string from one offset up to another.
LEMMA WithinPart ==
    ASSUME NEW data \in Seq(Nat), NEW i \in Nat, NEW j \in Nat,
           i <= j, j <= Len(data)
    PROVE  /\ Within(data, i, j) \in Seq(Nat)
           /\ Len(Within(data, i, j)) = j - i
           /\ \A k \in 1 .. j - i : Within(data, i, j)[k] = data[i + k]
<1>1. Len(data) \in Nat
    BY LenProperties
<1>2. \A k \in i + 1 .. j : data[k] \in Nat
    BY <1>1, ElementOfSeq
<1>3. /\ SubSeq(data, i + 1, j) \in Seq(Nat)
      /\ Len(SubSeq(data, i + 1, j)) = IF i + 1 <= j THEN j - (i + 1) + 1 ELSE 0
      /\ \A k \in 1 .. j - (i + 1) + 1 : SubSeq(data, i + 1, j)[k] = data[i + 1 + k - 1]
    BY <1>2, SubSeqProperties
<1>4. ASSUME NEW k \in 1 .. j - i PROVE SubSeq(data, i + 1, j)[k] = data[i + k]
    <2>1. k \in 1 .. j - (i + 1) + 1 /\ i + 1 + k - 1 = i + k
        OBVIOUS
    <2> QED
        BY <1>3, <2>1
<1>5. (IF i + 1 <= j THEN j - (i + 1) + 1 ELSE 0) = j - i
    OBVIOUS
<1> QED
    BY <1>3, <1>4, <1>5 DEF Within

\* The bytes of a string from an offset on.
LEMMA FromPart ==
    ASSUME NEW data \in Seq(Nat), NEW i \in Nat, i <= Len(data)
    PROVE  /\ From(data, i) \in Seq(Nat)
           /\ Len(From(data, i)) = Len(data) - i
           /\ \A k \in 1 .. Len(data) - i : From(data, i)[k] = data[i + k]
<1> DEFINE n == Len(data)
<1>1. n \in Nat /\ n <= Len(data) /\ From(data, i) = Within(data, i, n)
    BY LenProperties DEF From, Within
<1> HIDE DEF n
<1>2. /\ Within(data, i, n) \in Seq(Nat)
      /\ Len(Within(data, i, n)) = n - i
      /\ \A k \in 1 .. n - i : Within(data, i, n)[k] = data[i + k]
    BY <1>1, i <= n, WithinPart DEF n
<1> QED
    BY <1>1, <1>2 DEF n

-----------------------------------------------------------------------------
(***************************************************************************)
(* A record of the right type, step by step.                               *)
(***************************************************************************)
ReassemblerType ==
    [segs : SUBSET SegType, next : Nat, last : Nat, hasLast : BOOLEAN,
     output : QueueType]

Typed(r, cap, bound) ==
    /\ r \in ReassemblerType
    /\ \A s \in r.segs : KeysRight(s, bound)
    /\ KeysDiffer(r.segs)
    /\ IsFiniteSet(r.segs)
    /\ r.output.cap = cap
    /\ Len(r.output.buf) <= cap

\* The fields of a record of that type.
LEMMA TypedFields ==
    ASSUME NEW cap \in Nat, NEW bound \in Nat, NEW r, Typed(r, cap, bound)
    PROVE  /\ r.segs \in SUBSET SegType /\ r.next \in Nat /\ r.last \in Nat
           /\ r.hasLast \in BOOLEAN /\ r.output \in QueueType
           /\ r.output.buf \in Seq(Nat) /\ Len(r.output.buf) \in Nat
           /\ Available(r.output) \in 0 .. cap
           /\ WindowEdge(r) \in Nat /\ WindowEdge(r) = r.next + Available(r.output)
           /\ r.next <= WindowEdge(r)
<1>1. /\ r.segs \in SUBSET SegType /\ r.next \in Nat /\ r.last \in Nat
      /\ r.hasLast \in BOOLEAN /\ r.output \in QueueType
    BY DEF Typed, ReassemblerType
<1>2. r.output.buf \in Seq(Nat)
    BY <1>1 DEF QueueType
<1>3. Len(r.output.buf) \in Nat
    BY <1>2, LenProperties
<1>4. Available(r.output) = cap - Len(r.output.buf) /\ Len(r.output.buf) <= cap
    BY DEF Available, Typed
<1>5. Available(r.output) \in 0 .. cap
    BY <1>3, <1>4
<1>6. Available(r.output) \in Nat
    BY <1>5
<1> QED
    BY <1>1, <1>2, <1>3, <1>5, <1>6 DEF WindowEdge

\* A push keeps a queue's type and its bound.
LEMMA PushBounded ==
    ASSUME NEW f \in QueueType, Len(f.buf) <= f.cap, NEW data \in Seq(Nat)
    PROVE  /\ Push(f, data) \in QueueType
           /\ Push(f, data).cap = f.cap
           /\ Len(Push(f, data).buf) <= f.cap
<1> DEFINE n == Room(f, data)
           new == SubSeq(data, 1, n)
<1>1. /\ f.buf \in Seq(Nat) /\ f.cap \in Nat /\ f.pushed \in Nat
    BY DEF QueueType
<1>2. Len(data) \in Nat /\ Len(f.buf) \in Nat
    BY <1>1, LenProperties
<1>3. n \in Nat /\ n <= Len(data) /\ n <= f.cap - Len(f.buf)
    BY <1>1, <1>2 DEF Room, Least, Available
<1> HIDE DEF n
<1>4. \A i \in 1 .. n : data[i] \in Nat
    BY <1>2, <1>3, ElementOfSeq
<1>5. new \in Seq(Nat) /\ Len(new) = n
    BY <1>3, <1>4, SubSeqProperties
<1>6. f.buf \o new \in Seq(Nat) /\ Len(f.buf \o new) = Len(f.buf) + n
    BY <1>1, <1>5, ConcatProperties
<1>7. Push(f, data) = [f EXCEPT !.buf = f.buf \o new, !.pushed = f.pushed + n]
    BY DEF Push, n
<1> HIDE DEF new
<1>8. f.pushed + n \in Nat
    BY <1>1, <1>3
<1>9. Push(f, data) \in QueueType
    BY <1>6, <1>7, <1>8 DEF QueueType
<1>10. Push(f, data).cap = f.cap /\ Push(f, data).buf = f.buf \o new
    BY <1>7 DEF QueueType
<1>11. Len(f.buf) + n <= f.cap
    BY <1>1, <1>2, <1>3
<1> QED
    BY <1>6, <1>9, <1>10, <1>11

\* A pop of no more than there is keeps a queue's type and its bound.
LEMMA PopBounded ==
    ASSUME NEW f \in QueueType, Len(f.buf) <= f.cap,
           NEW len \in Nat, len <= Buffered(f)
    PROVE  /\ Pop(f, len) \in QueueType
           /\ Pop(f, len).cap = f.cap
           /\ Len(Pop(f, len).buf) = Len(f.buf) - len
<1> DEFINE rest == From(f.buf, len)
<1>1. /\ f.buf \in Seq(Nat) /\ f.cap \in Nat /\ f.popped \in Nat
    BY DEF QueueType
<1>2. Len(f.buf) \in Nat /\ len <= Len(f.buf)
    BY <1>1, LenProperties DEF Buffered
<1>3. Gone(f, len) = len
    BY <1>2 DEF Gone, Least, Buffered
<1>4. rest \in Seq(Nat) /\ Len(rest) = Len(f.buf) - len
    BY <1>1, <1>2, FromPart
<1>5. Pop(f, len) = [f EXCEPT !.buf = rest, !.popped = f.popped + len]
    BY <1>3 DEF Pop, From
<1> HIDE DEF rest
<1>6. f.popped + len \in Nat
    BY <1>1
<1>7. Pop(f, len) \in QueueType
    BY <1>4, <1>5, <1>6 DEF QueueType
<1>8. Pop(f, len).cap = f.cap /\ Pop(f, len).buf = rest
    BY <1>5 DEF QueueType
<1> QED
    BY <1>4, <1>7, <1>8

\* Noting the end of the stream touches nothing else.
LEMMA NoteLastTyped ==
    ASSUME NEW cap \in Nat, NEW bound \in Nat, NEW r, Typed(r, cap, bound),
           NEW first \in Nat, NEW data \in Seq(Nat), NEW isLast \in BOOLEAN
    PROVE  LET n == NoteLast(r, first, data, isLast) IN
           /\ Typed(n, cap, bound)
           /\ n.segs = r.segs /\ n.next = r.next /\ n.output = r.output
           /\ WindowEdge(n) = WindowEdge(r)
           /\ n.hasLast <=> (r.hasLast \/ isLast)
           /\ n.last = IF isLast THEN first + Len(data) ELSE r.last
<1> DEFINE n == NoteLast(r, first, data, isLast)
<1>1. first + Len(data) \in Nat
    BY LenProperties
<1>2. r \in ReassemblerType
    BY DEF Typed
<1>3. n = IF isLast THEN [r EXCEPT !.last = first + Len(data), !.hasLast = TRUE] ELSE r
    BY DEF NoteLast
<1> HIDE DEF n
<1>4. CASE isLast
    <2> DEFINE l == first + Len(data)
    <2> HIDE DEF l
    <2>1. n = [r EXCEPT !.last = l, !.hasLast = TRUE] /\ l \in Nat
        BY <1>1, <1>3, <1>4 DEF l
    <2>2. n \in ReassemblerType
        BY <1>2, <2>1 DEF ReassemblerType
    <2>3. /\ n.segs = r.segs /\ n.next = r.next /\ n.output = r.output
          /\ n.hasLast = TRUE /\ n.last = l
        BY <1>2, <2>1 DEF ReassemblerType
    <2>4. Typed(n, cap, bound)
        BY <2>2, <2>3 DEF Typed
    <2>5. WindowEdge(n) = WindowEdge(r)
        BY <2>3 DEF WindowEdge
    <2> QED
        BY <1>4, <2>3, <2>4, <2>5 DEF n, l
<1>5. CASE ~isLast
    <2>1. n = r
        BY <1>3, <1>5
    <2>2. Typed(n, cap, bound) /\ WindowEdge(n) = WindowEdge(r)
        BY <2>1
    <2> QED
        BY <1>5, <2>1, <2>2 DEF n
<1> QED
    BY <1>4, <1>5

\* What a call writes at once, it writes to a record of the right type.
LEMMA WriteNowTyped ==
    ASSUME NEW cap \in Nat, NEW bound \in Nat, NEW r, Typed(r, cap, bound),
           NEW first \in Nat, NEW data \in Seq(Nat),
           first <= r.next, r.next <= first + Len(data),
           NEW w, w = WriteNow(r, first, data)
    PROVE  /\ Typed(w, cap, bound)
           /\ w.output = Push(r.output, From(data, r.next - first))
           /\ w.next = Least(first + Len(data), WindowEdge(r))
           /\ w.segs = IF FillsWindow(r, first, data) THEN {} ELSE r.segs
           /\ w.last = r.last /\ w.hasLast = r.hasLast
<1> DEFINE o == Push(r.output, From(data, r.next - first))
           e == Least(first + Len(data), WindowEdge(r))
           g == IF FillsWindow(r, first, data) THEN {} ELSE r.segs
<1>1. /\ r.segs \in SUBSET SegType /\ r.next \in Nat /\ r.output \in QueueType
      /\ WindowEdge(r) \in Nat /\ Len(data) \in Nat
    BY TypedFields, LenProperties
<1>2. r.next - first \in Nat /\ r.next - first <= Len(data)
    BY <1>1
<1>3. From(data, r.next - first) \in Seq(Nat)
    BY <1>2, FromPart
<1>4. Len(r.output.buf) <= r.output.cap /\ r.output.cap = cap
    BY DEF Typed
<1>5. o \in QueueType /\ o.cap = cap /\ Len(o.buf) <= cap
    BY <1>1, <1>3, <1>4, PushBounded
<1>6. e \in Nat
    BY <1>1 DEF Least
<1>7. g \in SUBSET SegType /\ KeysDiffer(g) /\ \A s \in g : KeysRight(s, bound)
    BY <1>1 DEF Typed, KeysDiffer
<1>12. IsFiniteSet(g)
    BY FS_EmptySet DEF Typed
<1>8. w = [r EXCEPT !.output = o, !.next = e, !.segs = g] /\ r \in ReassemblerType
    BY DEF WriteNow, Typed
<1> HIDE DEF o, e, g
<1>9. w \in ReassemblerType
    BY <1>5, <1>6, <1>7, <1>8 DEF ReassemblerType
<1>10. w.output = o /\ w.next = e /\ w.segs = g /\ w.last = r.last /\ w.hasLast = r.hasLast
    BY <1>8 DEF ReassemblerType
<1>11. Typed(w, cap, bound)
    BY <1>5, <1>7, <1>9, <1>10, <1>12 DEF Typed
<1> QED
    BY <1>10, <1>11 DEF o, e, g

\* A segment that is kept has keys of its own.
LEMMA KeepTyped ==
    ASSUME NEW cap \in Nat, NEW bound \in Nat, NEW r, Typed(r, cap, bound),
           NEW first \in Nat, NEW data \in Seq(Nat),
           first <= WindowEdge(r), first + Len(data) <= bound
    PROVE  LET k == Keep(r, first, data)
               s == [begin |-> first, data |-> data,
                     end |-> Least(first + Len(data), WindowEdge(r))] IN
           /\ Typed(k, cap, bound)
           /\ k.output = r.output /\ k.next = r.next
           /\ k.last = r.last /\ k.hasLast = r.hasLast
           /\ \/ /\ k.segs = r.segs
                 /\ \E t \in r.segs : t.begin = s.begin /\ t.end = s.end
              \/ k.segs = r.segs \cup {s}
<1> DEFINE k == Keep(r, first, data)
           e == Least(first + Len(data), WindowEdge(r))
           s == [begin |-> first, data |-> data, end |-> e]
           g == r.segs \cup {s}
           same == \E t \in r.segs : t.begin = s.begin /\ t.end = s.end
<1>1. /\ r.segs \in SUBSET SegType /\ WindowEdge(r) \in Nat /\ Len(data) \in Nat
      /\ bound \in Nat
    BY TypedFields, LenProperties
<1>2. /\ e \in Nat /\ first <= e /\ e <= first + Len(data) /\ e <= bound
    BY <1>1 DEF Least
<1>3. k = IF same THEN r ELSE [r EXCEPT !.segs = g]
    BY DEF Keep
<1> HIDE DEF e
<1>4. s \in SegType /\ s.begin = first /\ s.end = e /\ s.data = data
    BY <1>2 DEF SegType
<1>5. KeysRight(s, bound)
    BY <1>2, <1>4 DEF KeysRight
<1> HIDE DEF k, s
<1>6. CASE same
    <2>1. k = r
        BY <1>3, <1>6
    <2> QED
        BY <1>6, <2>1 DEF k, s, e
<1>7. CASE ~same
    <2>1. k = [r EXCEPT !.segs = g]
        BY <1>3, <1>7
    <2>2. g \in SUBSET SegType /\ \A t \in g : KeysRight(t, bound)
        BY <1>1, <1>4, <1>5 DEF Typed
    <2>3. KeysDiffer(g)
        <3> SUFFICES ASSUME NEW t \in g, NEW u \in g, t.begin = u.begin, t.end = u.end
                     PROVE  t = u
            BY DEF KeysDiffer
        <3>1. CASE t \in r.segs /\ u \in r.segs
            BY <3>1 DEF Typed, KeysDiffer
        <3>2. CASE t = s /\ u = s
            BY <3>2
        <3>3. CASE t = s /\ u \in r.segs
            BY <1>7, <3>3
        <3>4. CASE u = s /\ t \in r.segs
            BY <1>7, <3>4
        <3> QED
            BY <3>1, <3>2, <3>3, <3>4
    <2>4. r \in ReassemblerType
        BY DEF Typed
    <2>8. IsFiniteSet(g)
        BY FS_AddElement DEF Typed
    <2> HIDE DEF g
    <2>5. k \in ReassemblerType
        BY <2>1, <2>2, <2>4 DEF ReassemblerType
    <2>6. /\ k.segs = g /\ k.output = r.output /\ k.next = r.next
          /\ k.last = r.last /\ k.hasLast = r.hasLast
        BY <2>1, <2>4 DEF ReassemblerType
    <2>7. Typed(k, cap, bound)
        BY <2>2, <2>3, <2>5, <2>6, <2>8 DEF Typed
    <2> QED
        BY <2>6, <2>7 DEF k, s, e, g
<1> QED
    BY <1>6, <1>7

\* What a turn of the loop that writes takes of its segment.
TurnData(r) ==
    LET s == FirstSeg(r.segs) IN
    IF r.next = s.begin THEN s.data
                        ELSE Within(s.data, r.next - s.begin, s.end - s.begin)

\* The first segment of a record of the right type.
LEMMA FirstSegFields ==
    ASSUME NEW cap \in Nat, NEW bound \in Nat, NEW r, Typed(r, cap, bound),
           r.segs # {}
    PROVE  LET s == FirstSeg(r.segs) IN
           /\ s \in r.segs /\ s.begin \in Nat /\ s.end \in Nat /\ s.data \in Seq(Nat)
           /\ Len(s.data) \in Nat
           /\ s.begin <= s.end /\ s.end <= s.begin + Len(s.data) /\ s.end <= bound
           /\ \A t \in r.segs : s.begin <= t.begin
<1> DEFINE s == FirstSeg(r.segs)
<1>1. s \in r.segs /\ \A t \in r.segs : s.begin <= t.begin
    BY FirstSegIsFirst, TypedFields DEF Typed
<1>2. s \in SegType /\ KeysRight(s, bound)
    BY <1>1, TypedFields DEF Typed
<1> HIDE DEF s
<1>3. s.begin \in Nat /\ s.end \in Nat /\ s.data \in Seq(Nat)
    BY <1>2 DEF SegType
<1>4. Len(s.data) \in Nat
    BY <1>3, LenProperties
<1>5. s.begin <= s.end /\ s.end <= s.begin + Len(s.data) /\ s.end <= bound
    BY <1>2 DEF KeysRight
<1> QED
    BY <1>1, <1>3, <1>4, <1>5 DEF s

\* A turn of the loop erases the first segment; if that reaches past next_, it
\* writes what is new in it.
LEMMA DrainOneTyped ==
    ASSUME NEW cap \in Nat, NEW bound \in Nat, NEW r, Typed(r, cap, bound),
           r.segs # {}, FirstSeg(r.segs).begin <= r.next
    PROVE  LET d == DrainOne(r)
               s == FirstSeg(r.segs) IN
           /\ Typed(d, cap, bound)
           /\ d.segs = r.segs \ {s} /\ d.last = r.last /\ d.hasLast = r.hasLast
           /\ r.next >= s.end => d.output = r.output /\ d.next = r.next
           /\ r.next < s.end => /\ d.output = Push(r.output, TurnData(r))
                                /\ d.next = s.end
<1> DEFINE s == FirstSeg(r.segs)
           d == DrainOne(r)
           o == Push(r.output, TurnData(r))
           g == r.segs \ {s}
<1>1. /\ r.segs \in SUBSET SegType /\ r.next \in Nat /\ r.output \in QueueType
    BY TypedFields
<1>2. /\ s \in r.segs /\ s.begin \in Nat /\ s.end \in Nat /\ s.data \in Seq(Nat)
      /\ s.begin <= s.end /\ s.end <= s.begin + Len(s.data) /\ Len(s.data) \in Nat
    BY FirstSegFields
<1>3. g \in SUBSET SegType /\ KeysDiffer(g) /\ \A t \in g : KeysRight(t, bound)
    BY <1>1 DEF Typed, KeysDiffer
<1>7. IsFiniteSet(g)
    BY FS_RemoveElement DEF Typed
<1>4. r \in ReassemblerType /\ Len(r.output.buf) <= r.output.cap /\ r.output.cap = cap
    BY DEF Typed
<1>5. CASE r.next >= s.end
    <2>1. d = [r EXCEPT !.segs = g]
        BY <1>5 DEF DrainOne
    <2> HIDE DEF d, g
    <2>2. d \in ReassemblerType
        BY <1>3, <1>4, <2>1 DEF ReassemblerType
    <2>3. /\ d.segs = g /\ d.output = r.output /\ d.next = r.next
          /\ d.last = r.last /\ d.hasLast = r.hasLast
        BY <1>4, <2>1 DEF ReassemblerType
    <2>4. Typed(d, cap, bound)
        BY <1>3, <1>7, <2>2, <2>3 DEF Typed
    <2>5. ~(r.next < s.end)
        BY <1>1, <1>2, <1>5
    <2> QED
        BY <2>3, <2>4, <2>5 DEF d, g
<1>6. CASE r.next < s.end
    <2>0. ~(r.next >= s.end)
        BY <1>1, <1>2, <1>6
    <2>1. TurnData(r) \in Seq(Nat)
        <3>1. CASE r.next = s.begin
            BY <1>2, <3>1 DEF TurnData
        <3>2. CASE r.next # s.begin
            <4> DEFINE i == r.next - s.begin
                       j == s.end - s.begin
            <4>1. i \in Nat /\ j \in Nat /\ i <= j /\ j <= Len(s.data)
                BY <1>1, <1>2, <1>6
            <4>2. TurnData(r) = Within(s.data, i, j)
                BY <3>2 DEF TurnData
            <4> HIDE DEF i, j, s
            <4> QED
                BY ZenonT(30), <1>2, <4>1, <4>2, WithinPart
        <3> QED
            BY <3>1, <3>2
    <2>2. o \in QueueType /\ o.cap = cap /\ Len(o.buf) <= cap
        BY <1>1, <1>4, <2>1, PushBounded
    <2>3. d = [r EXCEPT !.segs = g, !.next = s.end, !.output = o]
        BY <2>0 DEF DrainOne, TurnData
    <2> HIDE DEF d, g, o, s
    <2>4. d \in ReassemblerType
        BY <1>2, <1>3, <1>4, <2>2, <2>3 DEF ReassemblerType
    <2>5. /\ d.segs = g /\ d.output = o /\ d.next = s.end
          /\ d.last = r.last /\ d.hasLast = r.hasLast
        BY <1>4, <2>3 DEF ReassemblerType
    <2>6. Typed(d, cap, bound)
        BY <1>3, <1>7, <2>2, <2>4, <2>5 DEF Typed
    <2> QED
        BY <2>0, <2>5, <2>6 DEF d, g, o, s
<1> QED
    BY <1>1, <1>2, <1>5, <1>6

\* The end of the loop closes the output, or changes nothing.
LEMMA CloseTyped ==
    ASSUME NEW cap \in Nat, NEW bound \in Nat, NEW r, Typed(r, cap, bound)
    PROVE  LET c == CloseIfComplete(r) IN
           /\ Typed(c, cap, bound)
           /\ c.segs = r.segs /\ c.next = r.next /\ c.last = r.last
           /\ c.hasLast = r.hasLast
           /\ c.output = IF r.hasLast /\ r.next = r.last THEN Close(r.output) ELSE r.output
           /\ WindowEdge(c) = WindowEdge(r)
<1> DEFINE c == CloseIfComplete(r)
           o == Close(r.output)
           ends == r.hasLast /\ r.next = r.last
<1>1. r \in ReassemblerType /\ r.output \in QueueType
    BY TypedFields DEF Typed
<1>2. o \in QueueType /\ o.cap = r.output.cap /\ o.buf = r.output.buf
    BY <1>1 DEF Close, QueueType
<1>3. c = IF ends THEN [r EXCEPT !.output = o] ELSE r
    BY DEF CloseIfComplete
<1> HIDE DEF c, ends, o
<1>4. CASE ends
    <2>1. c = [r EXCEPT !.output = o]
        BY <1>3, <1>4
    <2>2. c \in ReassemblerType
        BY <1>1, <1>2, <2>1 DEF ReassemblerType
    <2>3. /\ c.segs = r.segs /\ c.next = r.next /\ c.last = r.last
          /\ c.hasLast = r.hasLast /\ c.output = o
        BY <1>1, <2>1 DEF ReassemblerType
    <2>4. Typed(c, cap, bound)
        BY <1>2, <2>2, <2>3 DEF Typed
    <2>5. WindowEdge(c) = WindowEdge(r)
        BY <1>2, <2>3 DEF WindowEdge, Available
    <2> QED
        BY <1>4, <2>3, <2>4, <2>5 DEF c, o, ends
<1>5. CASE ~ends
    <2>1. c = r
        BY <1>3, <1>5
    <2>2. Typed(c, cap, bound)
        BY <2>1
    <2> QED
        BY <1>5, <2>1, <2>2 DEF c, o, ends
<1> QED
    BY <1>4, <1>5

\* The reader takes bytes from the output and touches nothing else.
LEMMA PopTyped ==
    ASSUME NEW cap \in Nat, NEW bound \in Nat, NEW r, Typed(r, cap, bound),
           NEW len \in Nat, len <= Buffered(r.output)
    PROVE  LET p == [r EXCEPT !.output = Pop(r.output, len)] IN
           /\ Typed(p, cap, bound)
           /\ p.segs = r.segs /\ p.next = r.next /\ p.last = r.last
           /\ p.hasLast = r.hasLast /\ p.output = Pop(r.output, len)
           /\ WindowEdge(p) = WindowEdge(r) + len
<1> DEFINE o == Pop(r.output, len)
           p == [r EXCEPT !.output = o]
<1>1. /\ r \in ReassemblerType /\ r.output \in QueueType /\ r.next \in Nat
      /\ r.output.cap = cap /\ Len(r.output.buf) <= r.output.cap
      /\ Len(r.output.buf) \in Nat
    BY TypedFields DEF Typed
<1>2. /\ o \in QueueType /\ o.cap = cap /\ Len(o.buf) = Len(r.output.buf) - len
    BY <1>1, PopBounded
<1>3. Len(o.buf) <= cap
    BY <1>1, <1>2
<1> HIDE DEF o
<1>4. p \in ReassemblerType
    BY <1>1, <1>2 DEF ReassemblerType
<1>5. /\ p.segs = r.segs /\ p.next = r.next /\ p.last = r.last
      /\ p.hasLast = r.hasLast /\ p.output = o
    BY <1>1 DEF ReassemblerType
<1> HIDE DEF p
<1>6. Typed(p, cap, bound)
    BY <1>2, <1>3, <1>4, <1>5 DEF Typed
<1>7. WindowEdge(p) = WindowEdge(r) + len
    <2> DEFINE n == r.next
               b == Len(r.output.buf)
               c == Len(o.buf)
    <2>1. WindowEdge(p) = n + (cap - c)
        BY <1>2, <1>5 DEF WindowEdge, Available
    <2>2. WindowEdge(r) = n + (cap - b)
        BY <1>1 DEF WindowEdge, Available
    <2>3. n \in Int /\ b \in Int /\ cap \in Int /\ c = b - len
        BY <1>1, <1>2
    <2> HIDE DEF n, b, c
    <2>4. n + (cap - c) = (n + (cap - b)) + len
        BY <2>3
    <2> QED
        BY <2>1, <2>2, <2>4
<1> QED
    BY <1>5, <1>6, <1>7 DEF p, o

-----------------------------------------------------------------------------
(*****************************************************************************)
(* Where the Reassembler's bytes lie.                                     *)
(*****************************************************************************)
\* The bytes of a string are those of the stream from a place on.
LiesAt(data, first) == \A i \in 1 .. Len(data) : data[i] = first + i - 1

\* A pending segment holds the bytes of its place, as many as its keys say, and
\* ends within the window and, when it holds any, within the stream.
SegRight(s, edge, total) ==
    /\ s.end = s.begin + Len(s.data)
    /\ s.end <= edge
    /\ LiesAt(s.data, s.begin)
    /\ s.begin < s.end => s.end <= total

\* What a Reassembler has of a stream of total bytes: what it has written is in
\* its place, and so is what it holds; the end it knows is the stream's.
Streams(r, total) ==
    /\ InPlace(r.output)
    /\ r.output.pushed = r.next
    /\ \A s \in r.segs : SegRight(s, WindowEdge(r), total)
    /\ r.next <= total
    /\ r.hasLast => r.last = total
    /\ r.output.closed => r.hasLast /\ r.next = total

\* Pushing the bytes that come next, of which there are some only while the
\* stream is open: next_ moves as far as the output takes them, and the window
\* stays where it is.
LEMMA PushMovesNext ==
    ASSUME NEW cap \in Nat, NEW bound \in Nat, NEW total \in Nat, NEW r, Typed(r, cap, bound),
           Streams(r, total), NEW part \in Seq(Nat),
           LiesAt(part, r.next), r.next + Len(part) <= total
    PROVE  LET p == Push(r.output, part)
               n == Least(r.next + Len(part), WindowEdge(r)) IN
           /\ InPlace(p) /\ p.pushed = n /\ p.closed = r.output.closed
           /\ p.cap = r.output.cap /\ p.error = r.output.error
           /\ n + Available(p) = WindowEdge(r)
           /\ n \in Nat /\ r.next <= n /\ n <= total
<1> DEFINE o == r.output
           p == Push(o, part)
           m == Len(part)
           room == Room(o, part)
           av == Available(o)
           n == Least(r.next + m, WindowEdge(r))
<1>1. /\ InPlace(o) /\ o.pushed = r.next
      /\ o.closed => r.next = total
    BY DEF Streams
<1>2. r.next \in Nat /\ av \in Nat /\ WindowEdge(r) = r.next + av
      /\ m \in Nat /\ r.next + m <= total /\ total \in Nat
    BY TypedFields, LenProperties
<1>3. \A i \in 1 .. Len(part) : part[i] = o.pushed + i - 1
    BY <1>1 DEF LiesAt
<1>4. /\ InPlace(p)
      /\ Buffered(p) = Buffered(o) + room
      /\ p.pushed = o.pushed + room
      /\ p.closed = o.closed
      /\ p.cap = o.cap /\ p.error = o.error
    BY <1>1, <1>3, PushInPlace
<1>5. room = IF o.closed THEN 0 ELSE Least(m, av)
    BY DEF Room
<1>6. /\ Buffered(o) \in Nat /\ av = o.cap - Buffered(o) /\ o.cap \in Nat
      /\ Available(p) = p.cap - Buffered(p)
    BY <1>1, <1>4, InPlaceNumbers
<1> HIDE DEF o, p, m, room, av
<1>7. room \in Nat /\ n = r.next + room
    <2>1. CASE o.closed
        <3>1. r.next = total /\ room = 0
            BY <1>1, <1>5, <2>1
        <3>2. m = 0
            BY <1>2, <3>1
        <3> QED
            BY <1>2, <3>1, <3>2 DEF Least
    <2>2. CASE ~o.closed
        <3>1. room = Least(m, av)
            BY <1>5, <2>2
        <3> QED
            BY <1>2, <3>1 DEF Least
    <2> QED
        BY <2>1, <2>2
<1>8. n \in Nat /\ r.next <= n /\ n <= total
    BY <1>2 DEF Least
<1>9. p.pushed = n
    BY <1>1, <1>4, <1>7
<1> HIDE DEF n
<1> DEFINE x == r.next
           b == Buffered(o)
           c == o.cap
           a == Available(p)
<1>10. a = c - (b + room) /\ av = c - b /\ n = x + room /\ WindowEdge(r) = x + av
    BY <1>2, <1>4, <1>6, <1>7
<1>11. x \in Int /\ b \in Int /\ c \in Int /\ room \in Int
    BY <1>2, <1>6, <1>7
<1> HIDE DEF x, b, c, a
<1>12. n + a = x + av
    BY <1>10, <1>11
<1>13. n + Available(p) = WindowEdge(r)
    BY <1>10, <1>12 DEF a
<1> QED
    BY <1>4, <1>8, <1>9, <1>13 DEF o, p, m, n

\* Noting the end where it is keeps that.
LEMMA NoteLastStreams ==
    ASSUME NEW cap \in Nat, NEW bound \in Nat, NEW total \in Nat, NEW r, Typed(r, cap, bound),
           Streams(r, total), NEW first \in Nat, NEW data \in Seq(Nat),
           NEW isLast \in BOOLEAN, isLast => first + Len(data) = total
    PROVE  Streams(NoteLast(r, first, data, isLast), total)
<1> DEFINE n == NoteLast(r, first, data, isLast)
<1>1. /\ n.segs = r.segs /\ n.next = r.next /\ n.output = r.output
      /\ WindowEdge(n) = WindowEdge(r)
      /\ n.hasLast <=> (r.hasLast \/ isLast)
      /\ n.last = IF isLast THEN first + Len(data) ELSE r.last
    BY NoteLastTyped
<1> HIDE DEF n
<1>2. n.hasLast => n.last = total
    BY <1>1 DEF Streams
<1>3. n.output.closed => n.hasLast /\ n.next = total
    BY <1>1 DEF Streams
<1>4. Streams(n, total)
    BY <1>1, <1>2, <1>3 DEF Streams
<1> QED
    BY <1>4 DEF n

\* What a call writes at once is in its place.
LEMMA WriteNowStreams ==
    ASSUME NEW cap \in Nat, NEW bound \in Nat, NEW total \in Nat, NEW r, Typed(r, cap, bound),
           Streams(r, total), NEW first \in Nat, NEW data \in Seq(Nat),
           LiesAt(data, first), first <= r.next, r.next <= first + Len(data),
           first + Len(data) <= total
    PROVE  LET w == WriteNow(r, first, data) IN
           /\ Streams(w, total)
           /\ WindowEdge(w) = WindowEdge(r)
           /\ w.output.closed = r.output.closed
           /\ w.output.error = r.output.error
           /\ r.next <= w.next
<1> DEFINE w == WriteNow(r, first, data)
           i == r.next - first
           part == From(data, i)
<1>1. /\ w.output = Push(r.output, part)
      /\ w.next = Least(first + Len(data), WindowEdge(r))
      /\ w.segs = IF FillsWindow(r, first, data) THEN {} ELSE r.segs
      /\ w.last = r.last /\ w.hasLast = r.hasLast
    BY WriteNowTyped
<1>2. r.next \in Nat /\ Len(data) \in Nat /\ WindowEdge(r) \in Nat /\ total \in Nat
    BY TypedFields, LenProperties
<1>3. i \in Nat /\ i <= Len(data) /\ r.next = first + i
    BY <1>2
<1> HIDE DEF i
<1>4. /\ part \in Seq(Nat) /\ Len(part) = Len(data) - i
      /\ \A k \in 1 .. Len(data) - i : part[k] = data[i + k]
    BY <1>3, FromPart
<1> HIDE DEF part, w
<1>5. LiesAt(part, r.next)
    <2> SUFFICES ASSUME NEW k \in 1 .. Len(part) PROVE part[k] = r.next + k - 1
        BY DEF LiesAt
    <2>1. k \in 1 .. Len(data) - i /\ i + k \in 1 .. Len(data)
        BY SMTT(30), <1>2, <1>3, <1>4
    <2>2. part[k] = first + (i + k) - 1
        BY <1>4, <2>1 DEF LiesAt
    <2>3. first + (i + k) - 1 = (first + i) + k - 1
        BY <1>3, <2>1
    <2> QED
        BY <1>3, <2>2, <2>3
<1>6. r.next + Len(part) = first + Len(data)
    BY <1>2, <1>3, <1>4
<1>7. /\ InPlace(w.output) /\ w.output.pushed = w.next
      /\ w.output.closed = r.output.closed /\ w.output.error = r.output.error
      /\ w.next + Available(w.output) = WindowEdge(r)
      /\ w.next \in Nat /\ r.next <= w.next /\ w.next <= total
    BY <1>1, <1>4, <1>5, <1>6, PushMovesNext
<1>8. WindowEdge(w) = WindowEdge(r)
    BY <1>7 DEF WindowEdge
<1>9. w.output.closed => w.hasLast /\ w.next = total
    <2> SUFFICES ASSUME w.output.closed PROVE w.hasLast /\ w.next = total
        OBVIOUS
    <2>1. w.hasLast /\ r.next = total
        BY <1>1, <1>7 DEF Streams
    <2> QED
        BY <1>2, <1>7, <2>1
<1>10. \A s \in w.segs : SegRight(s, WindowEdge(w), total)
    BY <1>1, <1>8 DEF Streams
<1>11. w.hasLast => w.last = total
    BY <1>1 DEF Streams
<1>12. Streams(w, total)
    BY <1>7, <1>9, <1>10, <1>11 DEF Streams
<1> QED
    BY <1>7, <1>8, <1>12 DEF w

\* Some segments are those of before and one with the keys b and e, which may
\* be one of them.
Adds(new, old, b, e) ==
    \/ new = old /\ \E t \in old : t.begin = b /\ t.end = e
    \/ \E s : new = old \cup {s} /\ s.begin = b /\ s.end = e

\* What a call keeps is in its place, and within the window.
LEMMA KeepStreams ==
    ASSUME NEW cap \in Nat, NEW bound \in Nat, NEW total \in Nat, NEW r, Typed(r, cap, bound),
           Streams(r, total), NEW first \in Nat, NEW data \in Seq(Nat),
           LiesAt(data, first), first + Len(data) <= WindowEdge(r),
           first + Len(data) <= bound, Len(data) = 0 \/ first + Len(data) <= total,
           NEW k, k = Keep(r, first, data)
    PROVE  /\ Streams(k, total)
           /\ WindowEdge(k) = WindowEdge(r)
           /\ Adds(k.segs, r.segs, first, first + Len(data))
<1> DEFINE e == Least(first + Len(data), WindowEdge(r))
           s == [begin |-> first, data |-> data, end |-> e]
<1>1. Len(data) \in Nat /\ WindowEdge(r) \in Nat
    BY LenProperties, TypedFields
<1>2. first <= WindowEdge(r) /\ e = first + Len(data)
    BY <1>1 DEF Least
<1>3. /\ k.output = r.output /\ k.next = r.next
      /\ k.last = r.last /\ k.hasLast = r.hasLast
      /\ \/ /\ k.segs = r.segs
            /\ \E t \in r.segs : t.begin = s.begin /\ t.end = s.end
         \/ k.segs = r.segs \cup {s}
    BY <1>2, KeepTyped
<1> HIDE DEF e
<1>4. s.begin = first /\ s.end = first + Len(data) /\ s.data = data
    BY <1>2
<1> HIDE DEF s
<1>5. WindowEdge(k) = WindowEdge(r)
    BY <1>3 DEF WindowEdge
<1>6. SegRight(s, WindowEdge(k), total)
    <2>1. s.begin < s.end => Len(data) # 0
        BY <1>1, <1>4
    <2> QED
        BY <1>4, <1>5, <2>1 DEF SegRight
<1>7. \A t \in k.segs : SegRight(t, WindowEdge(k), total)
    BY <1>3, <1>5, <1>6 DEF Streams
<1>8. Streams(k, total)
    BY <1>3, <1>7 DEF Streams
<1>9. Adds(k.segs, r.segs, first, first + Len(data))
    BY <1>3, <1>4 DEF Adds
<1> QED
    BY <1>5, <1>8, <1>9

\* What a turn of the loop writes is in its place.
LEMMA DrainOneStreams ==
    ASSUME NEW cap \in Nat, NEW bound \in Nat, NEW total \in Nat, NEW r, Typed(r, cap, bound),
           Streams(r, total), r.segs # {},
           FirstSeg(r.segs).begin <= r.next
    PROVE  LET d == DrainOne(r) IN
           /\ Streams(d, total)
           /\ WindowEdge(d) = WindowEdge(r)
           /\ d.output.closed = r.output.closed
           /\ d.output.error = r.output.error
           /\ r.next <= d.next
<1> DEFINE s == FirstSeg(r.segs)
           d == DrainOne(r)
           part == TurnData(r)
<1>1. /\ d.segs = r.segs \ {s} /\ d.last = r.last /\ d.hasLast = r.hasLast
      /\ r.next >= s.end => d.output = r.output /\ d.next = r.next
      /\ r.next < s.end => d.output = Push(r.output, part) /\ d.next = s.end
    BY DrainOneTyped
<1>2. /\ s \in r.segs /\ s.begin \in Nat /\ s.end \in Nat /\ s.data \in Seq(Nat)
      /\ Len(s.data) \in Nat /\ s.begin <= s.end
    BY FirstSegFields
<1>3. s.end = s.begin + Len(s.data) /\ s.end <= WindowEdge(r) /\ LiesAt(s.data, s.begin)
    BY <1>2 DEF Streams, SegRight
<1>8. s.begin < s.end => s.end <= total
    BY <1>2 DEF Streams, SegRight
<1>4. r.next \in Nat /\ total \in Nat /\ s.begin <= r.next /\ WindowEdge(r) \in Nat
    BY TypedFields
<1>5. part = IF r.next = s.begin THEN s.data
                                 ELSE Within(s.data, r.next - s.begin, s.end - s.begin)
    BY DEF TurnData
<1> HIDE DEF s, d, part
<1>6. CASE r.next >= s.end
    <2>1. d.output = r.output /\ d.next = r.next
        BY <1>1, <1>6
    <2>2. WindowEdge(d) = WindowEdge(r)
        BY <2>1 DEF WindowEdge
    <2>3. \A t \in d.segs : SegRight(t, WindowEdge(d), total)
        BY <1>1, <2>2 DEF Streams
    <2>4. Streams(d, total)
        BY <1>1, <2>1, <2>3 DEF Streams
    <2> QED
        BY <1>4, <2>1, <2>2, <2>4 DEF d
<1>7. CASE r.next < s.end
    <2>1. d.output = Push(r.output, part) /\ d.next = s.end
        BY <1>1, <1>7
    <2>2. /\ part \in Seq(Nat) /\ Len(part) = s.end - r.next /\ LiesAt(part, r.next)
        <3>1. CASE r.next = s.begin
            <4>1. part = s.data
                BY <1>5, <3>1
            <4>2. Len(s.data) = s.end - s.begin
                BY <1>2, <1>3
            <4> QED
                BY <1>2, <1>3, <3>1, <4>1, <4>2
        <3>2. CASE r.next # s.begin
            <4> DEFINE i == r.next - s.begin
                       j == s.end - s.begin
                       b == s.begin
                       e == s.end
                       x == r.next
                       size == Len(s.data)
            <4>5. /\ b \in Nat /\ e \in Nat /\ x \in Nat /\ size \in Nat
                  /\ e = b + size /\ b <= x /\ x < e
                BY <1>2, <1>3, <1>4, <1>7
            <4>6. i = x - b /\ j = e - b
                OBVIOUS
            <4>1. i \in Nat /\ j \in Nat /\ i <= j /\ j <= Len(s.data)
                  /\ j - i = s.end - r.next /\ r.next = s.begin + i
                <5> HIDE DEF b, e, x, size, i, j
                <5>1. i \in Nat /\ j \in Nat /\ i <= j /\ j <= size /\ j - i = e - x /\ x = b + i
                    BY <4>5, <4>6
                <5> QED
                    BY <5>1 DEF b, e, x, size
            <4> HIDE DEF b, e, x, size
            <4>2. part = Within(s.data, i, j)
                BY <1>5, <3>2
            <4> HIDE DEF i, j
            <4>3. /\ part \in Seq(Nat) /\ Len(part) = j - i
                  /\ \A k \in 1 .. j - i : part[k] = s.data[i + k]
                <5>1. s.data \in Seq(Nat)
                    BY <1>2
                <5> QED
                    BY <4>1, <4>2, <5>1, WithinPart
            <4>4. LiesAt(part, r.next)
                <5> SUFFICES ASSUME NEW k \in 1 .. Len(part)
                             PROVE  part[k] = r.next + k - 1
                    BY DEF LiesAt
                <5>1. k \in 1 .. j - i /\ i + k \in 1 .. Len(s.data)
                    <6> DEFINE whole == Len(s.data)
                    <6>1. whole \in Nat /\ Len(part) = j - i
                        BY <1>2, <4>3
                    <6>2. i \in Nat /\ j \in Nat /\ i <= j /\ j <= whole
                        BY <4>1
                    <6> HIDE DEF whole
                    <6>3. k \in 1 .. j - i /\ i + k \in 1 .. whole
                        BY <6>1, <6>2
                    <6> QED
                        BY <6>3 DEF whole
                <5>2. part[k] = s.begin + (i + k) - 1
                    BY <1>3, <4>3, <5>1 DEF LiesAt
                <5>3. s.begin + (i + k) - 1 = (s.begin + i) + k - 1
                    BY SMTT(30), <1>2, <4>1, <5>1
                <5> QED
                    BY <4>1, <5>2, <5>3
            <4> QED
                BY <4>1, <4>3, <4>4
        <3> QED
            BY <3>1, <3>2
    <2>3. r.next + Len(part) = s.end
        BY <1>2, <1>4, <2>2
    <2>11. s.end <= total
        <3>1. s.begin < s.end
            BY <1>2, <1>4, <1>7
        <3> QED
            BY <1>8, <3>1
    <2>4. Least(s.end, WindowEdge(r)) = s.end
        BY <1>2, <1>3, <1>4 DEF Least
    <2>5. /\ InPlace(d.output) /\ d.output.pushed = d.next
          /\ d.output.closed = r.output.closed /\ d.output.error = r.output.error
          /\ d.next + Available(d.output) = WindowEdge(r)
          /\ d.next \in Nat /\ r.next <= d.next /\ d.next <= total
        BY <1>2, <2>1, <2>2, <2>3, <2>4, <2>11, PushMovesNext
    <2>6. WindowEdge(d) = WindowEdge(r)
        BY <2>5 DEF WindowEdge
    <2>7. ~d.output.closed
        <3>1. r.next # total
            BY <1>2, <1>4, <1>7, <2>11
        <3> QED
            BY <2>5, <3>1 DEF Streams
    <2>8. \A t \in d.segs : SegRight(t, WindowEdge(d), total)
        BY <1>1, <2>6 DEF Streams
    <2>9. d.hasLast => d.last = total
        BY <1>1 DEF Streams
    <2>10. Streams(d, total)
        BY <2>5, <2>7, <2>8, <2>9 DEF Streams
    <2> QED
        BY <2>5, <2>6, <2>10 DEF d
<1> QED
    BY <1>2, <1>4, <1>6, <1>7

\* The end of the loop closes the output only where the stream ends.
LEMMA CloseStreams ==
    ASSUME NEW cap \in Nat, NEW bound \in Nat, NEW total \in Nat, NEW r, Typed(r, cap, bound),
           Streams(r, total)
    PROVE  LET c == CloseIfComplete(r) IN
           Streams(c, total) /\ c.output.error = r.output.error
<1> DEFINE c == CloseIfComplete(r)
           ends == r.hasLast /\ r.next = r.last
<1>1. /\ c.segs = r.segs /\ c.next = r.next /\ c.last = r.last
      /\ c.hasLast = r.hasLast
      /\ c.output = IF ends THEN Close(r.output) ELSE r.output
      /\ WindowEdge(c) = WindowEdge(r)
    BY CloseTyped
<1> HIDE DEF c
<1>2. InPlace(r.output)
    BY DEF Streams
<1>3. /\ InPlace(c.output) /\ c.output.pushed = r.output.pushed
      /\ c.output.error = r.output.error
    BY <1>1, <1>2, MarksInPlace
<1>4. c.output.closed => ends \/ r.output.closed
    BY <1>1
<1>5. c.output.closed => c.hasLast /\ c.next = total
    BY <1>1, <1>4 DEF Streams
<1>6. Streams(c, total)
    BY <1>1, <1>3, <1>5 DEF Streams
<1> QED
    BY <1>3, <1>6 DEF c

\* The reader leaves everything in its place and moves the window.
LEMMA PopStreams ==
    ASSUME NEW cap \in Nat, NEW bound \in Nat, NEW total \in Nat, NEW r, Typed(r, cap, bound),
           Streams(r, total), NEW len \in Nat, len <= Buffered(r.output)
    PROVE  LET p == [r EXCEPT !.output = Pop(r.output, len)] IN
           /\ Streams(p, total)
           /\ p.output.closed = r.output.closed /\ p.output.error = r.output.error
<1> DEFINE p == [r EXCEPT !.output = Pop(r.output, len)]
<1>1. /\ p.segs = r.segs /\ p.next = r.next /\ p.last = r.last
      /\ p.hasLast = r.hasLast /\ p.output = Pop(r.output, len)
      /\ WindowEdge(p) = WindowEdge(r) + len
    BY PopTyped
<1> HIDE DEF p
<1>2. InPlace(r.output) /\ WindowEdge(r) \in Nat /\ r.segs \in SUBSET SegType
    BY TypedFields DEF Streams
<1>3. /\ InPlace(p.output) /\ p.output.pushed = r.output.pushed
      /\ p.output.closed = r.output.closed /\ p.output.error = r.output.error
    BY <1>1, <1>2, PopInPlace
<1>4. ASSUME NEW s \in p.segs
      PROVE  SegRight(s, WindowEdge(p), total)
    <2>1. SegRight(s, WindowEdge(r), total)
        BY <1>1 DEF Streams
    <2>2. s.end \in Nat
        BY <1>1, <1>2 DEF SegType
    <2>3. s.end <= WindowEdge(p)
        BY <1>1, <1>2, <2>1, <2>2 DEF SegRight
    <2> QED
        BY <2>1, <2>3 DEF SegRight
<1>5. Streams(p, total)
    BY <1>1, <1>3, <1>4 DEF Streams
<1> QED
    BY <1>3, <1>5 DEF p

-----------------------------------------------------------------------------
(*****************************************************************************)
(* Loops: recursive functions over the number of turns taken.              *)
(*****************************************************************************)
\* Starting from a member of a set and going on by a function from the set to
\* itself, one stays in it, as many times as one likes.
Run(f, S, x, g, n) ==
    /\ f \in [0 .. n -> S]
    /\ \A i \in 0 .. n : f[i] = IF i = 0 THEN x ELSE g[f[i - 1]]

LEMMA Iterates ==
    ASSUME NEW S, NEW x \in S, NEW g \in [S -> S], NEW n \in Nat
    PROVE  \E f : Run(f, S, x, g, n)
<1> DEFINE Exists(k) == \E f \in [0 .. k -> S] :
                            \A i \in 0 .. k : f[i] = IF i = 0 THEN x ELSE g[f[i - 1]]
           bad == {k \in Nat : ~Exists(k)}
<1>1. Exists(0)
    <2> DEFINE f == [i \in 0 .. 0 |-> x]
    <2>1. f \in [0 .. 0 -> S] /\ \A i \in 0 .. 0 : f[i] = IF i = 0 THEN x ELSE g[f[i - 1]]
        OBVIOUS
    <2> QED
        BY <2>1
<1>2. ASSUME NEW k \in Nat, Exists(k) PROVE Exists(k + 1)
    <2>1. PICK f \in [0 .. k -> S] :
              \A i \in 0 .. k : f[i] = IF i = 0 THEN x ELSE g[f[i - 1]]
        BY <1>2
    <2> DEFINE e == [i \in 0 .. k + 1 |-> IF i = k + 1 THEN g[f[k]] ELSE f[i]]
    <2>2. e \in [0 .. k + 1 -> S]
        <3>1. f[k] \in S
            OBVIOUS
        <3>2. \A i \in 0 .. k + 1 : i # k + 1 => i \in 0 .. k
            OBVIOUS
        <3> QED
            BY <3>1, <3>2
    <2>3. ASSUME NEW i \in 0 .. k + 1 PROVE e[i] = IF i = 0 THEN x ELSE g[e[i - 1]]
        <3>1. CASE i = k + 1
            <4>1. e[i] = g[f[k]] /\ i - 1 = k /\ i # 0
                BY <3>1
            <4>2. e[k] = f[k]
                OBVIOUS
            <4> QED
                BY <4>1, <4>2
        <3>2. CASE i # k + 1
            <4>1. i \in 0 .. k /\ e[i] = f[i]
                BY <3>2
            <4>2. i # 0 => i - 1 \in 0 .. k + 1 /\ i - 1 # k + 1
                BY <4>1
            <4>3. i # 0 => e[i - 1] = f[i - 1]
                BY <4>2
            <4> QED
                BY <2>1, <4>1, <4>3
        <3> QED
            BY <3>1, <3>2
    <2> HIDE DEF e
    <2> QED
        BY <2>2, <2>3
<1> HIDE DEF Exists
<1>3. ASSUME bad # {} PROVE FALSE
    <2>1. PICK k \in bad : \A j \in bad : k <= j
        BY <1>3, SmallestOne
    <2>2. k # 0
        BY <1>1, <2>1
    <2>3. k - 1 \in Nat /\ ~(k - 1 \in bad)
        BY <2>1, <2>2
    <2>4. Exists((k - 1) + 1)
        BY <1>2, <2>3
    <2>5. (k - 1) + 1 = k
        BY <2>1
    <2> QED
        BY <2>1, <2>4, <2>5
<1>4. Exists(n)
    BY <1>3
<1> QED
    BY <1>4 DEF Exists, Run

\* What is in a set after some step and stays in it from each step to the next
\* is in it after every later one.
LEMMA StaysIn ==
    ASSUME NEW S, NEW n \in Nat, NEW m \in 0 .. n, NEW h, h[m] \in S,
           \A i \in m .. n : i # m /\ h[i - 1] \in S => h[i] \in S
    PROVE  \A i \in m .. n : h[i] \in S
<1> DEFINE bad == {i \in m .. n : h[i] \notin S}
<1>1. ASSUME bad # {} PROVE FALSE
    <2>0. bad \in SUBSET Nat
        OBVIOUS
    <2>1. PICK k \in bad : \A j \in bad : k <= j
        BY <1>1, <2>0, SmallestOne
    <2>2. k # m /\ k \in m .. n
        BY <2>1
    <2>3. k - 1 \in m .. n /\ ~(k - 1 \in bad)
        BY <2>1, <2>2
    <2>4. h[k - 1] \in S
        BY <2>3
    <2> QED
        BY <2>1, <2>2, <2>4
<1> QED
    BY <1>1

\* The loop over the segments goes from r through its turns, as many as there
\* are segments.
DrainRun(after, S, r) ==
    LET n == Cardinality(r.segs) IN
    /\ DrainAll(r) = after[n] /\ after[0] = r
    /\ \A i \in 0 .. n : after[i] \in S /\ (i # 0 => after[i] = DrainTurn(after[i - 1]))

\* It stays in any set that each of its turns stays in.
LEMMA DrainRuns ==
    ASSUME NEW S, NEW r \in S, IsFiniteSet(r.segs),
           \A d \in S : DrainTurn(d) \in S
    PROVE  \E after : DrainRun(after, S, r)
<1> DEFINE n == Cardinality(r.segs)
           g == [d \in S |-> DrainTurn(d)]
           Is(f) == f = [i \in 0 .. n |-> IF i = 0 THEN r ELSE DrainTurn(f[i - 1])]
           after == CHOOSE f : Is(f)
<1>1. n \in Nat
    BY FS_CardinalityType
<1>2. g \in [S -> S]
    OBVIOUS
<1>10. DrainAll(r) = after[n]
    BY DEF DrainAll, n
<1> HIDE DEF n, g, Is
<1>3. PICK f \in [0 .. n -> S] : \A i \in 0 .. n : f[i] = IF i = 0 THEN r ELSE g[f[i - 1]]
    <2>1. r \in S
        OBVIOUS
    <2> HIDE DEF after
    <2>2. PICK f : Run(f, S, r, g, n)
        BY <1>1, <1>2, <2>1, Iterates
    <2> QED
        BY <2>2 DEF Run
<1>4. \A i \in 0 .. n : f[i] = IF i = 0 THEN r ELSE DrainTurn(f[i - 1])
    <2> SUFFICES ASSUME NEW i \in 0 .. n, i # 0 PROVE f[i] = DrainTurn(f[i - 1])
        BY <1>3
    <2>1. f[i - 1] \in S
        BY <1>1
    <2> QED
        BY <1>3, <2>1 DEF g
<1>5. Is(f)
    BY <1>4 DEF Is
<1>6. Is(after)
    BY <1>5
<1> HIDE DEF after
<1>7. /\ after[0] = r /\ after[0] \in S
      /\ \A i \in 0 .. n : i # 0 => after[i] = DrainTurn(after[i - 1])
      /\ \A i \in 0 .. n : i # 0 /\ after[i - 1] \in S => after[i] \in S
    <2>1. after = [i \in 0 .. n |-> IF i = 0 THEN r ELSE DrainTurn(after[i - 1])]
        BY <1>6 DEF Is
    <2>2. \A i \in 0 .. n : i # 0 => after[i] = DrainTurn(after[i - 1])
        BY <1>1, <2>1
    <2> QED
        BY <1>1, <2>1, <2>2
<1>8. \A i \in 0 .. n : after[i] \in S
    BY <1>1, <1>7, 0 \in 0 .. n, StaysIn
<1>9. DrainRun(after, S, r)
    BY <1>7, <1>8, <1>10 DEF DrainRun, n
<1> QED
    BY <1>9

LEMMA DrainAllStays ==
    ASSUME NEW S, NEW r \in S, IsFiniteSet(r.segs),
           \A d \in S : DrainTurn(d) \in S
    PROVE  DrainAll(r) \in S
<1>1. PICK after : DrainRun(after, S, r)
    BY DrainRuns
<1>2. Cardinality(r.segs) \in 0 .. Cardinality(r.segs)
    BY FS_CardinalityType
<1> QED
    BY <1>1, <1>2 DEF DrainRun

\* It ends when no segment is left that it could write: a turn that finds one
\* erases it.
LEMMA DrainAllEnds ==
    ASSUME NEW S, NEW r \in S, IsFiniteSet(r.segs),
           \A d \in S : DrainTurn(d) \in S,
           \A d \in S : /\ IsFiniteSet(d.segs)
                        /\ Drains(d) => Cardinality(DrainTurn(d).segs)
                                          = Cardinality(d.segs) - 1
    PROVE  ~Drains(DrainAll(r))
<1> DEFINE n == Cardinality(r.segs)
           left(d) == Cardinality(d.segs)
<1>1. n \in Nat
    BY FS_CardinalityType
<1>2. PICK after : DrainRun(after, S, r)
    BY DrainRuns
<1>3. /\ DrainAll(r) = after[n] /\ after[0] = r
      /\ \A i \in 0 .. n : after[i] \in S /\ (i # 0 => after[i] = DrainTurn(after[i - 1]))
    BY <1>2 DEF DrainRun
<1>4. \A i \in 0 .. n : left(after[i]) \in Nat
    BY <1>3, FS_CardinalityType
<1> DEFINE ok(i) == ~Drains(after[i]) \/ left(after[i]) = n - i
           h == [i \in 0 .. n |-> IF ok(i) THEN 1 ELSE 0]
           One == {1}
<1>5. ok(0)
    BY <1>1, <1>3
<1>6. ASSUME NEW i \in 0 .. n, i # 0, ok(i - 1) PROVE ok(i)
    <2>1. i - 1 \in 0 .. n /\ after[i] = DrainTurn(after[i - 1])
        BY <1>1, <1>3, <1>6
    <2>2. CASE Drains(after[i - 1])
        <3>1. left(after[i]) = left(after[i - 1]) - 1
            BY <1>3, <2>1, <2>2
        <3>2. left(after[i - 1]) = n - (i - 1)
            BY <1>6, <2>2
        <3> HIDE DEF left, n
        <3>3. left(after[i]) = n - i
            BY <1>1, <3>1, <3>2
        <3> QED
            BY <3>3
    <2>3. CASE ~Drains(after[i - 1])
        BY <1>6, <2>1, <2>3 DEF DrainTurn
    <2> QED
        BY <2>2, <2>3
<1> HIDE DEF ok
<1>7. \A i \in 0 .. n : h[i] \in One <=> ok(i)
    OBVIOUS
<1> HIDE DEF h, One
<1>8. h[0] \in One /\ \A i \in 0 .. n : i # 0 /\ h[i - 1] \in One => h[i] \in One
    <2>1. \A i \in 0 .. n : i # 0 => i - 1 \in 0 .. n
        BY <1>1
    <2>2. 0 \in 0 .. n
        BY <1>1
    <2> HIDE DEF n
    <2> QED
        BY <1>5, <1>6, <1>7, <2>1, <2>2
<1>9. ok(n)
    <2> HIDE DEF n
    <2>1. \A i \in 0 .. n : h[i] \in One
        BY <1>1, <1>8, 0 \in 0 .. n, StaysIn
    <2>2. n \in 0 .. n
        BY <1>1
    <2> QED
        BY <1>7, <2>1, <2>2
<1>10. left(after[n]) = 0 => after[n].segs = {}
    <2>1. IsFiniteSet(after[n].segs)
        BY <1>1, <1>3
    <2> QED
        BY <2>1, FS_EmptySet
<1>11. after[n].segs = {} => ~Drains(after[n])
    BY DEF Drains
<1> QED
    BY <1>1, <1>3, <1>9, <1>10, <1>11 DEF ok

\* The loop of push ends in any set that its first turn reaches and that each
\* of its turns stays in.
LEMMA PushLoopsStays ==
    ASSUME NEW S, NEW s, Buffered(s.input) \in Nat,
           PushTurn([sender |-> s, loop |-> PushLoop(s)]) \in S,
           \A y \in S : PushTurn(y) \in S
    PROVE  PushLoops(s) \in S
<1> DEFINE n == Buffered(s.input) + 2
           x == [sender |-> s, loop |-> PushLoop(s)]
           T == S \cup {x}
           g == [y \in T |-> PushTurn(y)]
           Is(f) == f = [i \in 0 .. n |-> IF i = 0 THEN x ELSE PushTurn(f[i - 1])]
           after == CHOOSE f : Is(f)
<1>1. n \in Nat /\ 1 \in 0 .. n
    OBVIOUS
<1>2. g \in [T -> T] /\ x \in T
    OBVIOUS
<1>3. PushTurn(x) \in S
    OBVIOUS
<1>10. PushLoops(s) = after[n]
    BY DEF PushLoops
<1> HIDE DEF n, x, Is
<1>4. PICK f \in [0 .. n -> T] : \A i \in 0 .. n : f[i] = IF i = 0 THEN x ELSE g[f[i - 1]]
    <2> HIDE DEF after, T, g
    <2>1. PICK f : Run(f, T, x, g, n)
        BY <1>1, <1>2, Iterates
    <2> QED
        BY <2>1 DEF Run
<1> HIDE DEF T, g
<1>5. \A i \in 0 .. n : f[i] = IF i = 0 THEN x ELSE PushTurn(f[i - 1])
    <2> SUFFICES ASSUME NEW i \in 0 .. n, i # 0 PROVE f[i] = PushTurn(f[i - 1])
        BY <1>4
    <2>1. f[i - 1] \in T
        BY <1>1
    <2> QED
        BY <1>4, <2>1 DEF g
<1>6. Is(after)
    <2>1. Is(f)
        BY <1>5 DEF Is
    <2> QED
        BY <2>1
<1> HIDE DEF after
<1>7. \A i \in 0 .. n : after[i] = IF i = 0 THEN x ELSE PushTurn(after[i - 1])
    <2>1. after = [i \in 0 .. n |-> IF i = 0 THEN x ELSE PushTurn(after[i - 1])]
        BY <1>6 DEF Is
    <2> QED
        BY <2>1
<1>8. after[1] \in S
    BY <1>1, <1>3, <1>7
<1>9. \A i \in 1 .. n : i # 1 /\ after[i - 1] \in S => after[i] \in S
    BY <1>1, <1>7
<1>11. \A i \in 1 .. n : after[i] \in S
    BY <1>1, <1>8, <1>9, StaysIn
<1>12. n \in 1 .. n
    BY <1>1
<1> QED
    BY <1>10, <1>11, <1>12

\* insert leaves a record of its type, whatever it is given.
LEMMA InsertTyped ==
    ASSUME NEW cap \in Nat, NEW bound \in Nat, NEW r, Typed(r, cap, bound),
           NEW first \in Nat, NEW data \in Seq(Nat), NEW isLast \in BOOLEAN,
           first + Len(data) <= bound,
           NEW t, t = Insert(r, first, data, isLast)
    PROVE  Typed(t, cap, bound)
<1> DEFINE noted == NoteLast(r, first, data, isLast)
           S == {d \in ReassemblerType : Typed(d, cap, bound)}
<1>1. Typed(noted, cap, bound)
    BY NoteLastTyped
<1> HIDE DEF noted
<1>2. noted.next \in Nat /\ WindowEdge(noted) \in Nat /\ Len(data) \in Nat
    BY <1>1, TypedFields, LenProperties
<1>3. CASE ReturnsEarly(noted, first, data)
    BY <1>1, <1>3 DEF Insert, noted
<1>4. CASE ~ReturnsEarly(noted, first, data)
    <2> DEFINE p == Place(noted, first, data)
               d == DrainAll(p)
    <2>1. Typed(p, cap, bound)
        <3>1. CASE first <= noted.next
            <4>1. noted.next <= first + Len(data)
                BY <1>2, <1>4, <3>1 DEF ReturnsEarly
            <4> QED
                BY <1>1, <3>1, <4>1, WriteNowTyped DEF Place
        <3>2. CASE ~(first <= noted.next)
            <4>1. first <= WindowEdge(noted)
                BY <1>2, <1>4, <3>2 DEF ReturnsEarly
            <4> QED
                BY <1>1, <3>2, <4>1, KeepTyped DEF Place
        <3> QED
            BY <3>1, <3>2
    <2> HIDE DEF p
    <2>2. p \in S /\ IsFiniteSet(p.segs)
        BY <2>1 DEF Typed
    <2>3. ASSUME NEW e \in S PROVE DrainTurn(e) \in S
        <3>1. Typed(DrainTurn(e), cap, bound)
            BY DrainOneTyped DEF DrainTurn, Drains
        <3> QED
            BY <3>1 DEF Typed
    <2>4. d \in S
        <3> HIDE DEF S
        <3> QED
            BY <2>2, <2>3, DrainAllStays
    <2>5. Typed(d, cap, bound)
        BY <2>4
    <2>6. t = CloseIfComplete(d)
        BY <1>4 DEF Insert, p, noted
    <2> HIDE DEF d
    <2> QED
        BY <2>5, <2>6, CloseTyped
<1> QED
    BY <1>3, <1>4

\* insert keeps what has been written and what is held in its place, when what
\* it is given lies in its place, within the window or a single byte.
LEMMA InsertStreams ==
    ASSUME NEW cap \in Nat, NEW bound \in Nat, NEW total \in Nat, NEW r,
           Typed(r, cap, bound), Streams(r, total),
           NEW first \in Nat, NEW data \in Seq(Nat), NEW isLast \in BOOLEAN,
           LiesAt(data, first), first + Len(data) <= bound,
           Len(data) = 0 \/ first + Len(data) <= total,
           isLast => first + Len(data) = total,
           first + Len(data) <= WindowEdge(r) \/ Len(data) <= 1,
           NEW t, t = Insert(r, first, data, isLast)
    PROVE  /\ Typed(t, cap, bound) /\ Streams(t, total)
           /\ WindowEdge(t) = WindowEdge(r)
           /\ t.output.error = r.output.error
           /\ t.hasLast => r.hasLast \/ isLast
<1> DEFINE noted == NoteLast(r, first, data, isLast)
           edge  == WindowEdge(r)
           error == r.output.error
           has   == noted.hasLast
           S == {d \in ReassemblerType : /\ Typed(d, cap, bound) /\ Streams(d, total)
                                         /\ WindowEdge(d) = edge
                                         /\ d.output.error = error
                                         /\ d.hasLast = has}
<1>1. /\ Typed(noted, cap, bound)
      /\ noted.output = r.output
      /\ WindowEdge(noted) = edge
      /\ has <=> r.hasLast \/ isLast
    BY NoteLastTyped
<1>2. Streams(noted, total)
    BY NoteLastStreams
<1> HIDE DEF noted, edge, error, has
<1>3. noted.next \in Nat /\ edge \in Nat /\ Len(data) \in Nat
    BY <1>1, TypedFields, LenProperties
<1>4. CASE ReturnsEarly(noted, first, data)
    <2>1. t = noted
        BY <1>4 DEF Insert, noted
    <2> QED
        BY <1>1, <1>2, <2>1 DEF edge, has
<1>5. CASE ~ReturnsEarly(noted, first, data)
    <2> DEFINE p == Place(noted, first, data)
               d == DrainAll(p)
    <2>1. /\ Typed(p, cap, bound) /\ Streams(p, total)
          /\ WindowEdge(p) = edge
          /\ p.output.error = error
          /\ p.hasLast = has
        <3>1. CASE first <= noted.next
            <4>1. noted.next <= first + Len(data)
                BY <1>3, <1>5, <3>1 DEF ReturnsEarly
            <4>2. first + Len(data) <= total
                <5>1. noted.next <= total
                    BY <1>2 DEF Streams
                <5> QED
                    BY <1>3, <3>1, <5>1
            <4>3. p = WriteNow(noted, first, data)
                BY <3>1 DEF Place
            <4> HIDE DEF p
            <4>4. Typed(p, cap, bound) /\ p.hasLast = noted.hasLast
                BY <1>1, <3>1, <4>1, <4>3, WriteNowTyped
            <4>5. /\ Streams(p, total)
                  /\ WindowEdge(p) = WindowEdge(noted)
                  /\ p.output.error = noted.output.error
                BY <1>1, <1>2, <3>1, <4>1, <4>2, <4>3, WriteNowStreams
            <4> QED
                BY <1>1, <4>4, <4>5 DEF error, has
        <3>2. CASE ~(first <= noted.next)
            <4>1. first < edge
                BY <1>1, <1>3, <1>5, <3>2 DEF ReturnsEarly
            <4>2. first + Len(data) <= WindowEdge(noted) /\ first <= WindowEdge(noted)
                BY <1>1, <1>3, <4>1 DEF edge
            <4>3. p = Keep(noted, first, data)
                BY <3>2 DEF Place
            <4> HIDE DEF p
            <4>4. /\ Typed(p, cap, bound) /\ p.hasLast = noted.hasLast
                  /\ p.output = noted.output
                BY <1>1, <4>2, <4>3, KeepTyped
            <4>5. /\ Streams(p, total) /\ WindowEdge(p) = WindowEdge(noted)
                  /\ Adds(p.segs, noted.segs, first, first + Len(data))
                <5>1. /\ Typed(noted, cap, bound) /\ Streams(noted, total)
                      /\ first + Len(data) <= WindowEdge(noted)
                    BY <1>1, <1>2, <4>2
                <5> HIDE DEF S, d
                <5> QED
                    BY <4>3, <5>1, KeepStreams
            <4> QED
                BY <1>1, <4>4, <4>5 DEF error, has
        <3> QED
            BY <3>1, <3>2
    <2> HIDE DEF p
    <2>2. p \in S /\ IsFiniteSet(p.segs)
        BY <2>1 DEF Typed
    <2>3. ASSUME NEW e \in S PROVE DrainTurn(e) \in S
        <3>1. CASE Drains(e)
            <4> DEFINE f == DrainOne(e)
            <4>1. e.segs # {} /\ FirstSeg(e.segs).begin <= e.next
                BY <3>1 DEF Drains
            <4>2. Typed(f, cap, bound) /\ f.hasLast = e.hasLast
                BY <4>1, DrainOneTyped
            <4>3. /\ Streams(f, total) /\ WindowEdge(f) = WindowEdge(e)
                  /\ f.output.error = e.output.error
                BY <4>1, DrainOneStreams
            <4> HIDE DEF f
            <4>4. f \in S
                BY <4>2, <4>3 DEF Typed
            <4> QED
                BY <3>1, <4>4 DEF DrainTurn, f
        <3>2. CASE ~Drains(e)
            BY <3>2 DEF DrainTurn
        <3> QED
            BY <3>1, <3>2
    <2>4. d \in S
        <3> HIDE DEF S
        <3> QED
            BY <2>2, <2>3, DrainAllStays
    <2>5. /\ Typed(d, cap, bound) /\ Streams(d, total)
          /\ WindowEdge(d) = edge /\ d.output.error = error /\ d.hasLast = has
        BY <2>4
    <2>6. t = CloseIfComplete(d)
        BY <1>5 DEF Insert, p, noted
    <2> HIDE DEF d
    <2>7. Typed(t, cap, bound) /\ WindowEdge(t) = WindowEdge(d) /\ t.hasLast = d.hasLast
        BY <2>5, <2>6, CloseTyped
    <2>8. Streams(t, total) /\ t.output.error = d.output.error
        BY <2>5, <2>6, CloseStreams
    <2> QED
        BY <1>1, <2>5, <2>7, <2>8 DEF edge, error, has
<1> QED
    BY <1>4, <1>5

\* Every pending segment begins after the next byte to write.
AllLater(r) == \A s \in r.segs : s.begin > r.next

\* insert goes on from where it is: next_ and a closed output stay, what is held
\* lies later again when it returns, and an empty string that ends the stream
\* closes the output if all the rest is written.
LEMMA InsertMoves ==
    ASSUME NEW cap \in Nat, NEW bound \in Nat, NEW total \in Nat, NEW r,
           Typed(r, cap, bound), Streams(r, total),
           NEW first \in Nat, NEW data \in Seq(Nat), NEW isLast \in BOOLEAN,
           LiesAt(data, first), first + Len(data) <= bound,
           Len(data) = 0 \/ first + Len(data) <= total,
           isLast => first + Len(data) = total,
           first + Len(data) <= WindowEdge(r) \/ Len(data) <= 1,
           NEW t, t = Insert(r, first, data, isLast)
    PROVE  /\ r.next <= t.next
           /\ r.output.closed => t.output.closed
           /\ AllLater(r) => AllLater(t)
           /\ isLast /\ Len(data) = 0 /\ r.next = total => t.output.closed
<1> DEFINE noted == NoteLast(r, first, data, isLast)
           start == r.next
           shut  == r.output.closed
           S == {d \in ReassemblerType : /\ Typed(d, cap, bound) /\ Streams(d, total)
                                         /\ start <= d.next
                                         /\ shut => d.output.closed
                                         /\ d.last = noted.last
                                         /\ d.hasLast = noted.hasLast}
<1>1. /\ Typed(noted, cap, bound)
      /\ noted.segs = r.segs /\ noted.next = r.next /\ noted.output = r.output
      /\ WindowEdge(noted) = WindowEdge(r)
      /\ noted.hasLast <=> (r.hasLast \/ isLast)
      /\ isLast => noted.last = first + Len(data)
    BY NoteLastTyped
<1>2. Streams(noted, total)
    BY NoteLastStreams
<1>3. /\ noted.next \in Nat /\ WindowEdge(noted) \in Nat /\ Len(data) \in Nat
      /\ start \in Nat
    BY <1>1, TypedFields, LenProperties
<1>4. start = noted.next /\ shut = noted.output.closed
    BY <1>1
<1> HIDE DEF noted
<1>5. CASE ReturnsEarly(noted, first, data)
    <2>1. t = noted
        BY <1>5 DEF Insert, noted
    <2>2. AllLater(r) => AllLater(t)
        BY <1>1, <2>1 DEF AllLater
    <2>3. ~(isLast /\ Len(data) = 0 /\ r.next = total)
        BY <1>1, <1>3, <1>5 DEF ReturnsEarly
    <2> QED
        BY <1>1, <1>3, <2>1, <2>2, <2>3
<1>6. CASE ~ReturnsEarly(noted, first, data)
    <2> DEFINE p == Place(noted, first, data)
               d == DrainAll(p)
    <2> HIDE DEF start, shut
    <2>1. /\ Typed(p, cap, bound) /\ Streams(p, total)
          /\ start <= p.next
          /\ shut => p.output.closed
          /\ p.last = noted.last /\ p.hasLast = noted.hasLast
        <3>1. CASE first <= noted.next
            <4>1. noted.next <= first + Len(data)
                BY <1>3, <1>6, <3>1 DEF ReturnsEarly
            <4>2. first + Len(data) <= total
                <5>1. noted.next <= total
                    BY <1>2 DEF Streams
                <5> QED
                    BY <1>3, <3>1, <5>1
            <4>3. p = WriteNow(noted, first, data)
                BY <3>1 DEF Place
            <4> HIDE DEF p, S, d
            <4>4. Typed(p, cap, bound) /\ p.hasLast = noted.hasLast /\ p.last = noted.last
                BY <1>1, <3>1, <4>1, <4>3, WriteNowTyped
            <4>5. /\ Streams(p, total)
                  /\ p.output.closed = noted.output.closed
                  /\ noted.next <= p.next
                BY <1>1, <1>2, <3>1, <4>1, <4>2, <4>3, WriteNowStreams
            <4> QED
                BY <1>4, <4>4, <4>5
        <3>2. CASE ~(first <= noted.next)
            <4>1. first < WindowEdge(noted)
                BY <1>1, <1>3, <1>6, <3>2 DEF ReturnsEarly
            <4>2. first + Len(data) <= WindowEdge(noted) /\ first <= WindowEdge(noted)
                BY <1>1, <1>3, <4>1
            <4>3. p = Keep(noted, first, data)
                BY <3>2 DEF Place
            <4> HIDE DEF p, S, d
            <4>4. /\ Typed(p, cap, bound) /\ p.hasLast = noted.hasLast
                  /\ p.output = noted.output /\ p.next = noted.next
                  /\ p.last = noted.last
                BY <1>1, <4>2, <4>3, KeepTyped
            <4>5. /\ Streams(p, total) /\ WindowEdge(p) = WindowEdge(noted)
                  /\ Adds(p.segs, noted.segs, first, first + Len(data))
                <5>1. /\ Typed(noted, cap, bound) /\ Streams(noted, total)
                      /\ first + Len(data) <= WindowEdge(noted)
                    BY <1>1, <1>2, <4>2
                <5> QED
                    BY <4>3, <5>1, KeepStreams
            <4> QED
                BY <1>3, <1>4, <4>4, <4>5
        <3> QED
            BY <3>1, <3>2
    <2> HIDE DEF p
    <2>2. p \in S /\ IsFiniteSet(p.segs)
        BY <2>1 DEF Typed
    <2>3. ASSUME NEW e \in S
          PROVE  /\ DrainTurn(e) \in S /\ IsFiniteSet(e.segs)
                 /\ Drains(e) => Cardinality(DrainTurn(e).segs) = Cardinality(e.segs) - 1
        <3>0. IsFiniteSet(e.segs)
            BY DEF Typed
        <3>1. CASE Drains(e)
            <4> DEFINE f == DrainOne(e)
            <4>1. e.segs # {} /\ FirstSeg(e.segs).begin <= e.next
                BY <3>1 DEF Drains
            <4>2. /\ Typed(f, cap, bound) /\ f.hasLast = e.hasLast /\ f.last = e.last
                  /\ f.segs = e.segs \ {FirstSeg(e.segs)}
                BY <4>1, DrainOneTyped
            <4>3. /\ Streams(f, total) /\ f.output.closed = e.output.closed
                  /\ e.next <= f.next
                BY <4>1, DrainOneStreams
            <4>4. e.next \in Nat /\ f.next \in Nat
                BY <4>2, TypedFields
            <4>5. FirstSeg(e.segs) \in e.segs
                BY <4>1, FirstSegFields
            <4>6. Cardinality(f.segs) = Cardinality(e.segs) - 1
                <5>1. Cardinality(e.segs \ {FirstSeg(e.segs)}) = Cardinality(e.segs) - 1
                    BY <3>0, <4>5, FS_RemoveElement
                <5> QED
                    BY <4>2, <5>1
            <4> HIDE DEF f
            <4>7. start <= f.next
                BY <1>3, <4>3, <4>4
            <4>8. f \in S
                BY <4>2, <4>3, <4>7 DEF Typed
            <4> QED
                BY <3>0, <3>1, <4>6, <4>8 DEF DrainTurn, f
        <3>2. CASE ~Drains(e)
            BY <3>0, <3>2 DEF DrainTurn
        <3> QED
            BY <3>1, <3>2
    <2>4. d \in S /\ ~Drains(d)
        <3> HIDE DEF S
        <3>1. d \in S
            BY <2>2, <2>3, DrainAllStays
        <3>2. ~Drains(d)
            BY <2>2, <2>3, DrainAllEnds
        <3> QED
            BY <3>1, <3>2
    <2>5. /\ Typed(d, cap, bound) /\ Streams(d, total)
          /\ start <= d.next /\ (shut => d.output.closed)
          /\ d.last = noted.last /\ d.hasLast = noted.hasLast
        BY <2>4
    <2>6. t = CloseIfComplete(d)
        BY <1>6 DEF Insert, p, noted
    <2>7. AllLater(d)
        <3> SUFFICES ASSUME NEW x \in d.segs PROVE x.begin > d.next
            BY DEF AllLater
        <3>1. d.segs # {}
            OBVIOUS
        <3>2. FirstSeg(d.segs).begin > d.next
            <4>1. ~(FirstSeg(d.segs).begin <= d.next)
                BY <2>4, <3>1 DEF Drains
            <4>2. FirstSeg(d.segs).begin \in Nat /\ d.next \in Nat
                BY <2>5, <3>1, FirstSegFields, TypedFields
            <4> QED
                BY <4>1, <4>2
        <3>3. FirstSeg(d.segs).begin <= x.begin /\ FirstSeg(d.segs).begin \in Nat
            BY <2>5, <3>1, FirstSegFields
        <3>4. x.begin \in Nat /\ d.next \in Nat
            BY <2>5, TypedFields DEF SegType
        <3> QED
            BY <3>2, <3>3, <3>4
    <2> HIDE DEF d
    <2>8. /\ t.segs = d.segs /\ t.next = d.next
          /\ t.output = IF d.hasLast /\ d.next = d.last THEN Close(d.output) ELSE d.output
        BY <2>5, <2>6, CloseTyped
    <2>9. Close(d.output).closed
        <3>1. InPlace(d.output)
            BY <2>5 DEF Streams
        <3> QED
            BY <3>1, MarksInPlace
    <2>10. AllLater(t)
        BY <2>7, <2>8 DEF AllLater
    <2>11. ASSUME isLast, Len(data) = 0, r.next = total PROVE t.output.closed
        <3>1. d.hasLast /\ d.last = total
            BY <1>1, <2>5, <2>11
        <3>2. d.next <= total /\ total <= d.next /\ d.next \in Nat
            BY <2>5, <2>11, TypedFields DEF Streams, start
        <3> QED
            BY <2>8, <2>9, <3>1, <3>2
    <2>12. shut => t.output.closed
        BY <2>5, <2>8, <2>9
    <2> QED
        BY <2>5, <2>8, <2>10, <2>11, <2>12 DEF start, shut
<1> QED
    BY <1>5, <1>6

-----------------------------------------------------------------------------
(***************************************************************************)
(* bytes_pending: the segments in their order, and one pass over them.     *)
(***************************************************************************)
\* Where nothing has the same keys, the order of the code's set is total.
LEMMA BeforeIsTotal ==
    ASSUME NEW segs \in SUBSET SegType, KeysDiffer(segs)
    PROVE  /\ \A s \in segs : ~Before(s, s)
           /\ \A s, t \in segs : s # t => Before(s, t) \/ Before(t, s)
           /\ \A s, t, u \in segs : Before(s, t) /\ Before(t, u) => Before(s, u)
<1>1. \A s \in segs : s.begin \in Nat /\ s.end \in Nat
    BY DEF SegType
<1>2. ASSUME NEW s \in segs PROVE ~Before(s, s)
    <2>1. s.begin \in Nat /\ s.end \in Nat
        BY <1>1
    <2> QED
        BY <2>1 DEF Before
<1>3. ASSUME NEW s \in segs, NEW t \in segs, s # t PROVE Before(s, t) \/ Before(t, s)
    <2>1. s.begin \in Nat /\ s.end \in Nat /\ t.begin \in Nat /\ t.end \in Nat
        BY <1>1
    <2>2. s.begin # t.begin \/ s.end # t.end
        BY <1>3 DEF KeysDiffer
    <2> QED
        BY <2>1, <2>2 DEF Before
<1>4. ASSUME NEW s \in segs, NEW t \in segs, NEW u \in segs, Before(s, t), Before(t, u)
      PROVE  Before(s, u)
    <2>1. /\ s.begin \in Nat /\ s.end \in Nat /\ t.begin \in Nat /\ t.end \in Nat
          /\ u.begin \in Nat /\ u.end \in Nat
        BY <1>1
    <2> QED
        BY <1>4, <2>1 DEF Before
<1> QED
    BY <1>2, <1>3, <1>4

\* InOrder lists every segment once, each after those before it: as many come
\* before a segment as its place says.
LEMMA InOrderSorts ==
    ASSUME NEW segs \in SUBSET SegType, IsFiniteSet(segs), KeysDiffer(segs),
           NEW n, n = Cardinality(segs), NEW order, order = InOrder(segs)
    PROVE  /\ n \in Nat
           /\ \A i \in 1 .. n : order[i] \in segs
           /\ \A s \in segs : \E i \in 1 .. n : order[i] = s
           /\ \A i, j \in 1 .. n : i < j => Before(order[i], order[j])
<1> DEFINE below(s) == {t \in segs : Before(t, s)}
           rank(s) == Cardinality(below(s))
<1>1. n \in Nat
    BY FS_CardinalityType
<1>2. /\ \A s \in segs : ~Before(s, s)
      /\ \A s, t \in segs : s # t => Before(s, t) \/ Before(t, s)
      /\ \A s, t, u \in segs : Before(s, t) /\ Before(t, u) => Before(s, u)
    BY BeforeIsTotal
<1>3. ASSUME NEW s \in segs PROVE IsFiniteSet(below(s)) /\ rank(s) \in 0 .. n - 1
    <2>1. below(s) \in SUBSET segs /\ below(s) # segs
        BY <1>2
    <2> DEFINE b == below(s)
    <2> HIDE DEF b
    <2>2. IsFiniteSet(b) /\ Cardinality(b) <= n /\ Cardinality(b) # n
        BY <2>1, FS_Subset DEF b
    <2>3. Cardinality(b) \in Nat
        BY <2>2, FS_CardinalityType
    <2>4. Cardinality(b) \in 0 .. n - 1
        BY <1>1, <2>2, <2>3
    <2> QED
        BY <2>2, <2>4 DEF b
<1>4. ASSUME NEW s \in segs, NEW t \in segs, Before(s, t) PROVE rank(s) < rank(t)
    <2> DEFINE b == below(s)
               c == below(t)
    <2>1. b \in SUBSET c /\ s \in c /\ s \notin b
        BY <1>2, <1>4
    <2>2. IsFiniteSet(c) /\ Cardinality(c) \in 0 .. n - 1 /\ Cardinality(b) \in 0 .. n - 1
        BY <1>3
    <2> HIDE DEF b, c
    <2>3. Cardinality(b) <= Cardinality(c) /\ Cardinality(b) # Cardinality(c)
        BY <2>1, <2>2, FS_Subset
    <2>4. Cardinality(b) < Cardinality(c)
        BY <1>1, <2>2, <2>3
    <2> QED
        BY <2>4 DEF b, c
<1> HIDE DEF rank
<1>10. \A s \in segs : rank(s) \in 0 .. n - 1 /\ rank(s) \in Int
    <2> SUFFICES ASSUME NEW s \in segs PROVE rank(s) \in 0 .. n - 1 /\ rank(s) \in Int
        OBVIOUS
    <2> DEFINE k == rank(s)
    <2>1. k \in 0 .. n - 1
        BY <1>3 DEF rank
    <2> HIDE DEF k
    <2>2. k \in Int
        BY <1>1, <2>1
    <2> QED
        BY <2>1, <2>2 DEF k
<1>11. \A s, t \in segs : Before(s, t) => rank(s) < rank(t)
    BY <1>4 DEF rank
<1>5. \A s, t \in segs : rank(s) = rank(t) => s = t
    <2> SUFFICES ASSUME NEW s \in segs, NEW t \in segs, rank(s) = rank(t), s # t
                 PROVE  FALSE
        OBVIOUS
    <2>1. rank(s) \in Int /\ rank(t) \in Int
        BY <1>10
    <2>2. rank(s) < rank(t) \/ rank(t) < rank(s)
        BY <1>2, <1>11
    <2> QED
        BY <2>1, <2>2
<1>6. \A i \in 1 .. n : \E s \in segs : rank(s) = i - 1
    <2> DEFINE f == [s \in segs |-> rank(s) + 1]
    <2>1. f \in Injection(segs, 1 .. n)
        <3>1. f \in [segs -> 1 .. n]
            BY <1>1, <1>10
        <3>2. ASSUME NEW s \in segs, NEW t \in segs, f[s] = f[t] PROVE s = t
            <4>1. rank(s) \in Int /\ rank(t) \in Int /\ rank(s) + 1 = rank(t) + 1
                BY <1>10, <3>2
            <4> QED
                BY <1>5, <4>1
        <3> HIDE DEF f
        <3> QED
            BY <3>1, <3>2, Zenon DEF Injection, IsInjective
    <2>2. IsFiniteSet(1 .. n) /\ Cardinality(1 .. n) = n
        BY <1>1, FS_Interval
    <2> HIDE DEF f
    <2>3. f \in Surjection(segs, 1 .. n)
        BY <2>1, <2>2, FS_Injection
    <2>4. ASSUME NEW i \in 1 .. n PROVE \E s \in segs : f[s] = i
        BY <2>3 DEF Surjection
    <2> SUFFICES ASSUME NEW i \in 1 .. n PROVE \E s \in segs : rank(s) = i - 1
        OBVIOUS
    <2>5. PICK s \in segs : f[s] = i
        BY <2>4
    <2>6. rank(s) + 1 = i /\ rank(s) \in Int
        BY <1>10, <2>5 DEF f
    <2>7. rank(s) = i - 1
        BY <2>6
    <2> QED
        BY <2>7
<1>7. ASSUME NEW i \in 1 .. n PROVE order[i] \in segs /\ rank(order[i]) = i - 1
    <2>1. order[i] = CHOOSE s \in segs : rank(s) = i - 1
        BY DEF InOrder, rank
    <2> QED
        BY <1>6, <2>1
<1>8. ASSUME NEW s \in segs PROVE \E i \in 1 .. n : order[i] = s
    <2> DEFINE k == rank(s)
    <2>1. k \in 0 .. n - 1
        BY <1>3 DEF rank
    <2> HIDE DEF k
    <2>2. k + 1 \in 1 .. n /\ (k + 1) - 1 = k
        BY <1>1, <2>1
    <2>3. order[k + 1] \in segs /\ rank(order[k + 1]) = rank(s)
        BY <1>7, <2>2 DEF k
    <2>4. order[k + 1] = s
        BY <1>5, <2>3
    <2> QED
        BY <2>2, <2>4
<1>9. ASSUME NEW i \in 1 .. n, NEW j \in 1 .. n, i < j PROVE Before(order[i], order[j])
    <2> DEFINE s == order[i]
               t == order[j]
    <2>1. s \in segs /\ t \in segs /\ rank(s) = i - 1 /\ rank(t) = j - 1
        BY <1>7
    <2> HIDE DEF s, t
    <2>2. i - 1 # j - 1 /\ ~(j - 1 < i - 1)
        BY <1>1, <1>9
    <2>3. s # t /\ ~(rank(t) < rank(s))
        BY <2>1, <2>2
    <2>4. ~Before(t, s)
        BY <1>11, <2>1, <2>3
    <2>5. Before(s, t)
        BY <1>2, <2>1, <2>3, <2>4
    <2> QED
        BY <2>5 DEF s, t
<1> QED
    BY <1>1, <1>7, <1>8, <1>9

\* A recursive function over the places of a list exists as one over the number
\* of turns does: it takes the place along.
Pass(f, S, x, g, n) ==
    /\ f \in [0 .. n -> S]
    /\ \A i \in 0 .. n : f[i] = IF i = 0 THEN x ELSE g[<< i, f[i - 1] >>]

LEMMA Accumulates ==
    ASSUME NEW S, NEW x \in S, NEW n \in Nat, NEW g \in [(1 .. n) \X S -> S]
    PROVE  \E f : Pass(f, S, x, g, n)
<1> DEFINE T == (0 .. n) \X S
           next(y) == IF y[1] < n THEN << y[1] + 1, g[<< y[1] + 1, y[2] >>] >> ELSE y
           h == [y \in T |-> next(y)]
<1>1. h \in [T -> T] /\ << 0, x >> \in T
    <2>1. ASSUME NEW y \in T PROVE next(y) \in T
        <3>1. y[1] \in 0 .. n /\ y[2] \in S /\ y = << y[1], y[2] >>
            OBVIOUS
        <3>2. CASE y[1] < n
            <4>1. y[1] + 1 \in 1 .. n /\ y[1] + 1 \in 0 .. n
                BY <3>1, <3>2
            <4>2. g[<< y[1] + 1, y[2] >>] \in S
                BY <3>1, <4>1
            <4> QED
                BY <3>2, <4>1, <4>2
        <3>3. CASE ~(y[1] < n)
            BY <3>3
        <3> QED
            BY <3>2, <3>3
    <2>2. 0 \in 0 .. n
        OBVIOUS
    <2> HIDE DEF next
    <2> QED
        BY <2>1, <2>2
<1> DEFINE start == << 0, x >>
<1>2. PICK e : Run(e, T, start, h, n)
    <2> HIDE DEF T, h, start
    <2> QED
        BY <1>1, Iterates DEF start
<1>3. /\ e \in [0 .. n -> T] /\ e[0] = << 0, x >>
      /\ \A i \in 0 .. n : i # 0 => e[i] = h[e[i - 1]]
    <2> HIDE DEF T, h
    <2> QED
        BY <1>2, 0 \in 0 .. n DEF Run, start
<1>4. \A i \in 0 .. n : e[i][1] = i
    <2> DEFINE bad == {i \in 0 .. n : e[i][1] # i}
    <2>1. ASSUME bad # {} PROVE FALSE
        <3>0. bad \in SUBSET Nat
            OBVIOUS
        <3>1. PICK k \in bad : \A j \in bad : k <= j
            BY <2>1, <3>0, SmallestOne
        <3>2. k # 0
            BY <1>3, <3>1
        <3>3. k - 1 \in 0 .. n /\ k - 1 < n /\ ~(k - 1 \in bad)
            BY <3>1, <3>2
        <3>4. e[k - 1][1] = k - 1 /\ e[k - 1] \in T
            BY <1>3, <3>3
        <3>5. e[k] = next(e[k - 1])
            BY <1>3, <3>1, <3>2, <3>4
        <3>6. e[k][1] = (k - 1) + 1
            BY <3>3, <3>4, <3>5
        <3> QED
            BY <3>1, <3>6
    <2> QED
        BY <2>1
<1> DEFINE f == [i \in 0 .. n |-> e[i][2]]
<1>5. f \in [0 .. n -> S]
    BY <1>3
<1>6. ASSUME NEW i \in 0 .. n PROVE f[i] = IF i = 0 THEN x ELSE g[<< i, f[i - 1] >>]
    <2>1. CASE i = 0
        BY <1>3, <2>1
    <2>2. CASE i # 0
        <3>1. i - 1 \in 0 .. n /\ i - 1 < n /\ (i - 1) + 1 = i
            BY <2>2
        <3>2. e[i - 1] \in T /\ e[i - 1][1] = i - 1
            BY <1>3, <1>4, <3>1
        <3>3. e[i] = next(e[i - 1])
            BY <1>3, <2>2, <3>2
        <3>4. e[i][2] = g[<< i, e[i - 1][2] >>]
            BY <3>1, <3>2, <3>3
        <3> QED
            BY <2>2, <3>1, <3>4
    <2> QED
        BY <2>1, <2>2
<1> HIDE DEF f
<1> QED
    BY <1>5, <1>6 DEF Pass

\* The pass over the segments.
Scan == [res : Int, end : Int]

LEMMA ScanGoes ==
    ASSUME NEW r, r.segs \in SUBSET SegType, IsFiniteSet(r.segs), KeysDiffer(r.segs),
           NEW n, n = Cardinality(r.segs), NEW order, order = InOrder(r.segs)
    PROVE  \E scan \in [0 .. n -> Scan] :
               /\ BytesPending(r) = scan[n].res
               /\ scan[0] = [res |-> 0, end |-> 0]
               /\ \A i \in 1 .. n : scan[i] = CountSeg(scan[i - 1], order[i])
<1> DEFINE none == [res |-> 0, end |-> 0]
           Is(f) == f = [i \in 0 .. n |->
                            IF i = 0 THEN none ELSE CountSeg(f[i - 1], order[i])]
           scan == CHOOSE f : Is(f)
           g == [y \in (1 .. n) \X Scan |-> CountSeg(y[2], order[y[1]])]
<1>1. n \in Nat /\ \A i \in 1 .. n : order[i] \in r.segs
    BY InOrderSorts
<1>2. none \in Scan
    BY DEF Scan
<1>3. \A c \in Scan : \A i \in 1 .. n : CountSeg(c, order[i]) \in Scan
    <2> SUFFICES ASSUME NEW c \in Scan, NEW i \in 1 .. n
                 PROVE  CountSeg(c, order[i]) \in Scan
        OBVIOUS
    <2> DEFINE s == order[i]
    <2>1. s.begin \in Nat /\ s.end \in Nat
        BY <1>1 DEF SegType
    <2> HIDE DEF s
    <2>2. c.res \in Int /\ c.end \in Int
        BY DEF Scan
    <2>3. CountSeg(c, s) \in Scan
        BY <2>1, <2>2 DEF Scan, CountSeg
    <2> QED
        BY <2>3 DEF s
<1>4. g \in [(1 .. n) \X Scan -> Scan]
    BY <1>3
<1>5. PICK f \in [0 .. n -> Scan] :
          \A i \in 0 .. n : f[i] = IF i = 0 THEN none ELSE g[<< i, f[i - 1] >>]
    <2>1. n \in Nat
        BY <1>1
    <2> HIDE DEF g, none
    <2>2. PICK f : Pass(f, Scan, none, g, n)
        BY <1>2, <1>4, <2>1, Accumulates
    <2> QED
        BY <2>2 DEF Pass
<1>6. \A i \in 0 .. n : f[i] = IF i = 0 THEN none ELSE CountSeg(f[i - 1], order[i])
    <2> SUFFICES ASSUME NEW i \in 0 .. n, i # 0 PROVE f[i] = CountSeg(f[i - 1], order[i])
        BY <1>5
    <2>1. i \in 1 .. n /\ i - 1 \in 0 .. n
        BY <1>1
    <2>2. f[i - 1] \in Scan
        BY <2>1
    <2> QED
        BY <1>5, <2>1, <2>2
<1> HIDE DEF g
<1>7. Is(f)
    BY <1>6
<1>8. Is(scan)
    BY <1>7
<1>9. BytesPending(r) = scan[n].res
    BY DEF BytesPending
<1> HIDE DEF scan
<1>10. scan[0] = none /\ \A i \in 1 .. n : scan[i] = CountSeg(scan[i - 1], order[i])
    <2>1. \A i \in 0 .. n : scan[i] = IF i = 0 THEN none ELSE CountSeg(scan[i - 1], order[i])
        BY <1>8
    <2>2. 0 \in 0 .. n /\ \A i \in 1 .. n : i \in 0 .. n /\ i # 0
        BY <1>1
    <2> QED
        BY <2>1, <2>2
<1>11. scan \in [0 .. n -> Scan]
    <2>1. scan[0] \in Scan /\ \A i \in 0 .. n : i # 0 /\ scan[i - 1] \in Scan => scan[i] \in Scan
        <3>1. \A i \in 0 .. n : i # 0 => i \in 1 .. n
            BY <1>1
        <3> QED
            BY <1>2, <1>3, <1>10, <3>1
    <2>2. \A i \in 0 .. n : scan[i] \in Scan
        BY <1>1, <2>1, 0 \in 0 .. n, StaysIn
    <2>3. scan = [i \in 0 .. n |-> scan[i]]
        BY <1>8
    <2> QED
        BY <2>2, <2>3
<1> QED
    BY <1>9, <1>10, <1>11

\* The places that a list of segments covers, up to its i-th.
Covered(order, i) == UNION {order[j].begin .. order[j].end - 1 : j \in 1 .. i}

\* How many a segment from b to e adds to those that end before a place.
Adding(end, b, e) == IF e <= end THEN 0 ELSE IF b <= end THEN e - end ELSE e - b

\* One more segment covers the places up to its end that those before did not.
CoversTo(C, end, b, e) ==
    /\ C \in SUBSET Int /\ IsFiniteSet(C) /\ end \in Int /\ b \in Int /\ e \in Int /\ b <= e
    /\ \A x \in C : x < end
    /\ \A x \in Int : b <= x /\ x < end => x \in C

LEMMA CoversMore ==
    ASSUME NEW C, NEW end, NEW b, NEW e, CoversTo(C, end, b, e),
           NEW D, D = C \cup (b .. e - 1)
    PROVE  /\ IsFiniteSet(D)
           /\ Cardinality(D) = Cardinality(C) + Adding(end, b, e)
<1> DEFINE a == IF b <= end THEN end ELSE b
           new == a .. e - 1
<1>0. /\ C \in SUBSET Int /\ IsFiniteSet(C) /\ end \in Int /\ b \in Int /\ e \in Int /\ b <= e
      /\ \A x \in C : x < end
      /\ \A x \in Int : b <= x /\ x < end => x \in C
    BY DEF CoversTo
<1>10. end \in Int /\ b \in Int /\ e \in Int /\ b <= e
    BY <1>0
<1>1. a \in Int /\ end <= a /\ b <= a /\ (a = b \/ a = end)
    BY <1>0
<1> HIDE DEF a
<1>2. IsFiniteSet(new) /\ Cardinality(new) = IF a > e - 1 THEN 0 ELSE e - 1 - a + 1
    <2>1. a \in Int /\ e - 1 \in Int
        BY <1>1, <1>10
    <2> QED
        BY <2>1, FS_Interval
<1>3. C \cap new = {}
    <2> SUFFICES ASSUME NEW x \in C, x \in new PROVE FALSE
        OBVIOUS
    <2> QED
        BY <1>0, <1>1
<1>4. D = C \cup new
    <2>1. ASSUME NEW x \in D PROVE x \in C \cup new
        <3>1. x \in Int /\ (x \in C \/ (b <= x /\ x <= e - 1))
            BY <1>0
        <3>2. CASE x < end
            BY <1>0, <3>1, <3>2
        <3>3. CASE ~(x < end) /\ x \notin C
            <4>1. a <= x
                BY <1>0, <1>1, <3>1, <3>3
            <4> QED
                BY <1>0, <1>1, <3>1, <3>3, <4>1
        <3> QED
            BY <3>2, <3>3
    <2>2. ASSUME NEW x \in new PROVE x \in D
        BY <1>0, <1>1, <2>2
    <2> HIDE DEF new
    <2> QED
        BY <2>1, <2>2
<1> HIDE DEF new
<1>5. /\ IsFiniteSet(D)
      /\ Cardinality(D) = Cardinality(C) + Cardinality(new) - Cardinality({})
    BY <1>0, <1>2, <1>3, <1>4, FS_Union
<1>6. Cardinality({}) = 0 /\ Cardinality(C) \in Nat
    BY <1>0, FS_EmptySet, FS_CardinalityType
<1> DEFINE k == Cardinality(new)
           m == Cardinality(C)
<1>7. k = IF e <= end THEN 0 ELSE IF b <= end THEN e - end ELSE e - b
    <2>1. k = IF a > e - 1 THEN 0 ELSE e - 1 - a + 1
        BY <1>2
    <2> HIDE DEF k
    <2>2. a = IF b <= end THEN end ELSE b
        BY DEF a
    <2> QED
        BY <1>1, <1>10, <2>1, <2>2
<1>8. Cardinality(D) = m + k - 0 /\ m \in Int /\ k \in Int
    <2>1. m \in Int
        BY <1>6
    <2>2. k \in Int
        <3> HIDE DEF k
        <3> QED
            BY <1>7, <1>10
    <2> QED
        BY <1>5, <1>6, <2>1, <2>2
<1> HIDE DEF k, m
<1>9. Cardinality(D) = m + k
    BY <1>8
<1> QED
    BY <1>5, <1>7, <1>9 DEF m, Adding

\* bytes_pending counts every place that some segment holds, and counts it once.
LEMMA CountsOnce ==
    ASSUME NEW cap \in Nat, NEW bound \in Nat, NEW r, Typed(r, cap, bound)
    PROVE  BytesPending(r) = Cardinality(UNION {s.begin .. s.end - 1 : s \in r.segs})
<1> DEFINE n == Cardinality(r.segs)
           order == InOrder(r.segs)
<1>1. r.segs \in SUBSET SegType /\ IsFiniteSet(r.segs) /\ KeysDiffer(r.segs)
    BY TypedFields DEF Typed
<1>2. PICK scan \in [0 .. n -> Scan] :
          /\ BytesPending(r) = scan[n].res
          /\ scan[0] = [res |-> 0, end |-> 0]
          /\ \A i \in 1 .. n : scan[i] = CountSeg(scan[i - 1], order[i])
    <2> HIDE DEF n, order
    <2> QED
        BY <1>1, ScanGoes DEF n, order
<1>3. /\ n \in Nat /\ \A i \in 1 .. n : order[i] \in r.segs
      /\ \A s \in r.segs : \E i \in 1 .. n : order[i] = s
      /\ \A i, j \in 1 .. n : i < j => Before(order[i], order[j])
    <2> HIDE DEF n, order
    <2> QED
        BY <1>1, InOrderSorts DEF n, order
<1> HIDE DEF n, order
<1>4. ASSUME NEW i \in 1 .. n
      PROVE  /\ order[i].begin \in Nat /\ order[i].end \in Nat
             /\ order[i].begin <= order[i].end
    BY <1>1, <1>3 DEF SegType, Typed, KeysRight
<1> DEFINE low(i) == IF i = 0 THEN 0 ELSE order[i].begin
           C(i) == Covered(order, i)
           Good(i) == /\ IsFiniteSet(C(i)) /\ C(i) \in SUBSET Int
                      /\ scan[i].res = Cardinality(C(i))
                      /\ \A x \in C(i) : x < scan[i].end
                      /\ \A x \in Int : low(i) <= x /\ x < scan[i].end => x \in C(i)
<1>5. Good(0)
    <2>1. C(0) = {}
        BY DEF Covered
    <2>2. scan[0].res = 0 /\ scan[0].end = 0
        BY <1>2
    <2>3. Cardinality({}) = 0 /\ IsFiniteSet({})
        BY FS_EmptySet
    <2>4. \A x \in Int : ~(0 <= x /\ x < 0)
        OBVIOUS
    <2> HIDE DEF C
    <2> QED
        BY <2>1, <2>2, <2>3, <2>4
<1>6. ASSUME NEW i \in 1 .. n, Good(i - 1) PROVE Good(i)
    <2> DEFINE k == i - 1
               s == order[i]
               b == s.begin
               e == s.end
               D == C(i)
               G == C(k)
               end == scan[k].end
    <2>1. b \in Nat /\ e \in Nat /\ b <= e
        BY <1>4
    <2>2. k \in 0 .. n /\ scan[k] \in Scan
        BY <1>3
    <2>3. end \in Int
        BY <2>2 DEF Scan
    <2>4. low(k) \in Int /\ low(k) <= b
        <3>1. CASE k = 0
            BY <2>1, <3>1
        <3>2. CASE k # 0
            <4>1. k \in 1 .. n /\ k < i
                BY <2>2, <3>2
            <4>2. Before(order[k], s)
                BY <1>3, <4>1
            <4>3. order[k].begin \in Nat
                BY <1>4, <4>1
            <4>4. order[k].begin <= b
                BY <2>1, <4>2, <4>3 DEF Before
            <4> QED
                BY <3>2, <4>3, <4>4
        <3> QED
            BY <3>1, <3>2
    <2>5. D = G \cup (b .. e - 1)
        <3>1. 1 .. i = (1 .. k) \cup {i}
            BY <1>3
        <3> HIDE DEF k
        <3>2. \A j \in 1 .. i : j \in 1 .. k \/ j = i
            BY <3>1
        <3>3. \A j \in 1 .. k : j \in 1 .. i
            BY <3>1
        <3>4. i \in 1 .. i
            BY <3>1
        <3> QED
            BY <3>2, <3>3, <3>4 DEF Covered
    <2>6. scan[i] = CountSeg(scan[k], s)
        BY <1>2
    <2>7. /\ IsFiniteSet(G) /\ G \in SUBSET Int /\ scan[k].res = Cardinality(G)
          /\ \A x \in G : x < end
          /\ \A x \in Int : low(k) <= x /\ x < end => x \in G
        BY <1>6
    <2> DEFINE l == low(k)
    <2> HIDE DEF C, k, s, b, e, D, G, end, Good, l
    <2>8. /\ IsFiniteSet(D)
          /\ Cardinality(D) = Cardinality(G) + Adding(end, b, e)
        <3>1. \A x \in Int : b <= x /\ x < end => x \in G
            BY <2>1, <2>4, <2>7 DEF l
        <3>2. /\ G \in SUBSET Int /\ IsFiniteSet(G) /\ end \in Int /\ b \in Int /\ e \in Int
              /\ b <= e /\ \A x \in G : x < end
            BY <2>1, <2>3, <2>7
        <3>3. CoversTo(G, end, b, e)
            BY <3>1, <3>2 DEF CoversTo
        <3> QED
            BY <2>5, <3>3, CoversMore
    <2>9. D \in SUBSET Int
        BY <2>1, <2>5, <2>7
    <2>10. /\ scan[i].res = scan[k].res + Adding(end, b, e)
           /\ scan[i].end = IF e <= end THEN end ELSE e
        <3>1. scan[k].res \in Int
            BY <2>2 DEF Scan
        <3>2. s.begin = b /\ s.end = e /\ scan[k].end = end
            BY DEF b, e, end
        <3>3. CASE e <= end
            BY <2>6, <3>1, <3>2, <3>3 DEF CountSeg, Adding
        <3>4. CASE ~(e <= end)
            BY <2>6, <3>1, <3>2, <3>4 DEF CountSeg, Adding
        <3> QED
            BY <3>3, <3>4
    <2> DEFINE top == scan[i].end
    <2>11. top = IF e <= end THEN end ELSE e
        BY <2>10
    <2> HIDE DEF top
    <2>12. ASSUME NEW x \in D PROVE x < top
        <3>1. x \in Int /\ (x < end \/ x < e)
            BY <2>1, <2>5, <2>7, <2>12
        <3> HIDE DEF D
        <3> QED
            BY <2>1, <2>3, <2>11, <3>1
    <2>13. ASSUME NEW x \in Int, b <= x, x < top PROVE x \in D
        <3>1. x < e \/ (x < end /\ l <= x)
            BY <2>1, <2>3, <2>4, <2>11, <2>13 DEF l
        <3>2. CASE x < e
            <4>1. x \in b .. e - 1
                BY <2>1, <2>13, <3>2
            <4> QED
                BY <2>5, <4>1
        <3>3. CASE x < end /\ l <= x
            BY <2>5, <2>7, <3>3 DEF l
        <3> QED
            BY <3>1, <3>2, <3>3
    <2>14. scan[i].res = Cardinality(D)
        BY <2>7, <2>8, <2>10
    <2>15. low(i) = b /\ i # 0
        BY DEF b, s
    <2> QED
        BY <2>8, <2>9, <2>12, <2>13, <2>14, <2>15 DEF Good, top, D
<1>7. \A i \in 0 .. n : Good(i)
    <2> DEFINE bad == {i \in 0 .. n : ~Good(i)}
    <2> HIDE DEF Good
    <2>1. ASSUME bad # {} PROVE FALSE
        <3>0. bad \in SUBSET Nat
            OBVIOUS
        <3>1. PICK k \in bad : \A j \in bad : k <= j
            BY <2>1, <3>0, SmallestOne
        <3>2. k # 0
            BY <1>5, <3>1
        <3>3. k \in 1 .. n /\ k - 1 \in 0 .. n /\ ~(k - 1 \in bad)
            <4>1. k \in 0 .. n
                BY <3>1
            <4>2. k \in 1 .. n /\ k - 1 \in 0 .. n /\ ~(k <= k - 1)
                BY <1>3, <3>2, <4>1
            <4> QED
                BY <3>1, <4>2
        <3>4. Good(k)
            BY <1>6, <3>3
        <3> QED
            BY <3>1, <3>4
    <2> QED
        BY <2>1
<1>8. C(n) = UNION {s.begin .. s.end - 1 : s \in r.segs}
    <2>1. {order[j].begin .. order[j].end - 1 : j \in 1 .. n}
              = {s.begin .. s.end - 1 : s \in r.segs}
        BY <1>3
    <2> QED
        BY <2>1 DEF Covered
<1>9. n \in 0 .. n
    BY <1>3
<1> QED
    BY <1>2, <1>7, <1>8, <1>9

\* With nothing but empty segments, no byte is pending.
LEMMA NonePending ==
    ASSUME NEW cap \in Nat, NEW bound \in Nat, NEW r, Typed(r, cap, bound),
           \A s \in r.segs : s.begin = s.end
    PROVE  BytesPending(r) = 0
<1>1. UNION {s.begin .. s.end - 1 : s \in r.segs} = {}
    <2> SUFFICES ASSUME NEW s \in r.segs, NEW x \in s.begin .. s.end - 1 PROVE FALSE
        OBVIOUS
    <2>1. s.begin = s.end /\ s.begin \in Nat
        BY TypedFields DEF SegType
    <2> QED
        BY <2>1
<1> QED
    BY <1>1, CountsOnce, FS_EmptySet
-----------------------------------------------------------------------------
(***************************************************************************)
(* The entries of a network interface: what tick erases and what it keeps. *)
(***************************************************************************)

\* A set of indices that holds, with each, all smaller ones is an interval
\* from 1 as long as the set is large.
LEMMA PrefixBySize ==
    ASSUME NEW len \in Nat, NEW S \in SUBSET (1 .. len),
           \A i \in S : 1 .. i \subseteq S
    PROVE  /\ Cardinality(S) \in 0 .. len
           /\ \A i \in 1 .. len : i \in S <=> i <= Cardinality(S)
<1>1. IsFiniteSet(1 .. len) /\ Cardinality(1 .. len) = len
    BY FS_Interval
<1>2. IsFiniteSet(S) /\ Cardinality(S) <= len
    BY ZenonT(30), <1>1, FS_Subset
<1>3. Cardinality(S) \in Nat
    BY <1>2, FS_CardinalityType
<1>4. ASSUME NEW i \in 1 .. len, i \in S
      PROVE  i <= Cardinality(S)
    <2>1. 1 .. i \in SUBSET S
        BY <1>4
    <2>2. Cardinality(1 .. i) = i
        BY FS_Interval
    <2>3. Cardinality(1 .. i) <= Cardinality(S)
        BY <1>2, <2>1, FS_Subset
    <2> QED
        BY <2>2, <2>3
<1>5. ASSUME NEW i \in 1 .. len, i \notin S
      PROVE  Cardinality(S) < i
    <2>1. \A j \in S : j < i
        <3> SUFFICES ASSUME NEW j \in S, i <= j
                     PROVE  FALSE
            OBVIOUS
        <3>1. i \in 1 .. j
            OBVIOUS
        <3> QED
            BY <3>1, <1>5
    <2>2. S \in SUBSET (1 .. i - 1)
        BY <2>1
    <2>3. IsFiniteSet(1 .. i - 1) /\ Cardinality(1 .. i - 1) = i - 1
        BY FS_Interval
    <2>4. Cardinality(S) <= i - 1
        BY <2>2, <2>3, FS_Subset
    <2> QED
        BY <1>3, <2>4
<1> QED
    BY <1>2, <1>3, <1>4, <1>5

\* What an entry is.
LEMMA EntryTypes ==
    ASSUME NEW entries \in Seq(Entries)
    PROVE  \A i \in 1 .. Len(entries) :
              /\ entries[i] \in Entries
              /\ entries[i].eth \in Eths
              /\ entries[i].age \in Nat
              /\ entries[i].age < EntryLife
<1> SUFFICES ASSUME NEW i \in 1 .. Len(entries)
             PROVE  /\ entries[i] \in Entries
                    /\ entries[i].eth \in Eths
                    /\ entries[i].age \in Nat
                    /\ entries[i].age < EntryLife
    OBVIOUS
<1>1. entries[i] \in Entries
    BY ElementOfSeq
<1>2. entries[i].eth \in Eths /\ entries[i].age \in 0 .. EntryLife - 1
    BY <1>1 DEF Entries
<1> QED
    BY <1>1, <1>2, LivesAssumption

\* The entries that expire are the first ones.
LEMMA ExpiredIsPrefix ==
    ASSUME NEW entries \in Seq(Entries), AgesFall(entries), NEW ms \in Nat
    PROVE  /\ Expired(entries, ms) \in 0 .. Len(entries)
           /\ \A i \in 1 .. Len(entries) :
                  entries[i].age + ms >= EntryLife <=> i <= Expired(entries, ms)
<1> DEFINE S == {i \in DOMAIN entries : entries[i].age + ms >= EntryLife}
<1>1. Len(entries) \in Nat /\ DOMAIN entries = 1 .. Len(entries)
    BY LenProperties
<1>2. \A i \in 1 .. Len(entries) : entries[i].age \in Nat
    BY EntryTypes
<1>3. ASSUME NEW i \in S, NEW j \in 1 .. i
      PROVE  j \in S
    <2>1. i \in 1 .. Len(entries) /\ j \in 1 .. Len(entries) /\ j <= i
        BY <1>1
    <2>2. entries[j].age >= entries[i].age
        BY <1>1, <2>1 DEF AgesFall
    <2>3. entries[i].age + ms >= EntryLife
        OBVIOUS
    <2>4. entries[j].age + ms >= EntryLife
        BY <1>2, <2>1, <2>2, <2>3, LivesAssumption
    <2> QED
        BY <1>1, <2>1, <2>4
<1>4. S \in SUBSET (1 .. Len(entries))
    BY <1>1
<1>5. /\ Cardinality(S) \in 0 .. Len(entries)
      /\ \A i \in 1 .. Len(entries) : i \in S <=> i <= Cardinality(S)
    <2>1. \A i \in S : 1 .. i \subseteq S
        BY <1>3
    <2> HIDE DEF S
    <2> QED
        BY <1>1, <1>4, <2>1, PrefixBySize
<1>6. Expired(entries, ms) = Cardinality(S)
    BY DEF Expired
<1> QED
    BY <1>1, <1>5, <1>6

\* The entries tick keeps: exactly those that have not expired, ms older, in
\* their order.
LEMMA AgedIsTheRest ==
    ASSUME NEW entries \in Seq(Entries), AgesFall(entries), NEW ms \in Nat
    PROVE  LET k == Expired(entries, ms)
               aged == Aged(entries, ms)
           IN  /\ aged \in Seq(Entries)
               /\ k \in 0 .. Len(entries)
               /\ Len(aged) = Len(entries) - k
               /\ AgesFall(aged)
               /\ \A i \in 1 .. Len(aged) :
                     /\ i + k \in 1 .. Len(entries)
                     /\ aged[i].eth = entries[i + k].eth
                     /\ aged[i].age = entries[i + k].age + ms
               /\ \A i \in 1 .. Len(entries) :
                     entries[i].age + ms < EntryLife =>
                        /\ i - k \in 1 .. Len(aged)
                        /\ aged[i - k].eth = entries[i].eth
                        /\ aged[i - k].age = entries[i].age + ms
<1> DEFINE k == Expired(entries, ms)
           aged == Aged(entries, ms)
           m == Len(entries) - k
<1>1. Len(entries) \in Nat /\ DOMAIN entries = 1 .. Len(entries)
    BY LenProperties
<1>2. \A i \in 1 .. Len(entries) :
          entries[i] \in Entries /\ entries[i].eth \in Eths /\ entries[i].age \in Nat
    BY EntryTypes
<1>3. /\ k \in 0 .. Len(entries)
      /\ \A i \in 1 .. Len(entries) :
            entries[i].age + ms >= EntryLife <=> i <= k
    BY ExpiredIsPrefix
<1>4. m \in Nat
    BY <1>1, <1>3
<1> HIDE DEF k
<1>5. aged = [i \in 1 .. m |-> [eth |-> entries[i + k].eth, age |-> entries[i + k].age + ms]]
    BY DEF Aged, k
<1>6. ASSUME NEW i \in 1 .. m
      PROVE  /\ i + k \in 1 .. Len(entries)
             /\ entries[i + k].age + ms < EntryLife
             /\ [eth |-> entries[i + k].eth, age |-> entries[i + k].age + ms] \in Entries
    <2>1. i + k \in 1 .. Len(entries) /\ ~(i + k <= k)
        BY <1>1, <1>3
    <2>2. ~(entries[i + k].age + ms >= EntryLife)
        BY <1>3, <2>1
    <2>3. entries[i + k].age + ms \in 0 .. EntryLife - 1
        BY <1>2, <2>1, <2>2, LivesAssumption
    <2> QED
        BY <1>2, <2>1, <2>2, <2>3, LivesAssumption DEF Entries
<1>7. aged \in [1 .. m -> Entries]
    BY <1>5, <1>6
<1>8. aged \in Seq(Entries) /\ Len(aged) = m /\ DOMAIN aged = 1 .. m
    BY <1>4, <1>7, SeqDef, LenProperties
<1> HIDE DEF m
<1>9. \A i \in 1 .. m :
          /\ i + k \in 1 .. Len(entries)
          /\ aged[i].eth = entries[i + k].eth
          /\ aged[i].age = entries[i + k].age + ms
    BY <1>5, <1>6
<1> HIDE DEF aged
<1>10. AgesFall(aged)
    <2> SUFFICES ASSUME NEW i \in 1 .. m, NEW j \in 1 .. m, i <= j
                 PROVE  aged[i].age >= aged[j].age
        BY <1>8 DEF AgesFall
    <2>1. /\ i + k \in 1 .. Len(entries) /\ j + k \in 1 .. Len(entries)
          /\ aged[i].age = entries[i + k].age + ms
          /\ aged[j].age = entries[j + k].age + ms
        BY <1>9
    <2>2. i + k <= j + k
        BY <1>3, <1>4
    <2>3. entries[i + k].age >= entries[j + k].age
        BY <1>1, <2>1, <2>2 DEF AgesFall
    <2>4. entries[i + k].age \in Nat /\ entries[j + k].age \in Nat
        BY <1>2, <2>1
    <2> QED
        BY <2>1, <2>3, <2>4
<1>11. ASSUME NEW i \in 1 .. Len(entries), entries[i].age + ms < EntryLife
       PROVE  /\ i - k \in 1 .. m
              /\ aged[i - k].eth = entries[i].eth
              /\ aged[i - k].age = entries[i].age + ms
    <2>1. ~(entries[i].age + ms >= EntryLife)
        BY <1>2, <1>11, LivesAssumption
    <2>2. ~(i <= k)
        BY <1>3, <2>1
    <2>3. i - k \in 1 .. m /\ (i - k) + k = i
        BY <1>1, <1>3, <2>2 DEF m
    <2> QED
        BY <1>9, <2>3
<1> QED
    BY <1>3, <1>8, <1>9, <1>10, <1>11 DEF k, aged, m

\* A new entry, of age 0, keeps the ages falling.
LEMMA AppendKeepsOrder ==
    ASSUME NEW entries \in Seq(Entries), AgesFall(entries), NEW eth \in Eths
    PROVE  AgesFall(Append(entries, [eth |-> eth, age |-> 0]))
<1> DEFINE new == [eth |-> eth, age |-> 0]
           all == Append(entries, new)
<1>1. new \in Entries
    BY LivesAssumption DEF Entries
<1>2. /\ Len(entries) \in Nat /\ DOMAIN entries = 1 .. Len(entries)
      /\ DOMAIN all = 1 .. Len(entries) + 1
      /\ \A i \in 1 .. Len(entries) : all[i] = entries[i]
      /\ all[Len(entries) + 1] = new
    BY <1>1, LenProperties, AppendProperties
<1>3. \A i \in 1 .. Len(entries) : entries[i].age \in Nat
    BY EntryTypes
<1>4. new.age = 0
    OBVIOUS
<1> HIDE DEF new, all
<1> SUFFICES ASSUME NEW i \in 1 .. Len(entries) + 1, NEW j \in 1 .. Len(entries) + 1,
                    i <= j
             PROVE  all[i].age >= all[j].age
    BY <1>2 DEF AgesFall, all, new
<1>5. CASE j = Len(entries) + 1
    BY <1>2, <1>3, <1>4, <1>5
<1>6. CASE j \in 1 .. Len(entries)
    BY <1>2, <1>6 DEF AgesFall
<1> QED
    BY <1>2, <1>5, <1>6

-----------------------------------------------------------------------------
(***************************************************************************)
(* A sender's oldest segment, and a receiver and what it says              *)
(* (TCPReceiverOps.tla).                                                   *)
(***************************************************************************)
LEMMA OldestIsOne ==
    ASSUME NEW s \in SenderType, s.ost # {}
    PROVE  Oldest(s.ost) \in s.ost
<1> DEFINE ats == {x.at : x \in s.ost}
<1>1. ats \in SUBSET Nat /\ ats # {}
    BY DEF SenderType, Segment
<1>2. PICK a \in ats : \A b \in ats : a <= b
    BY <1>1, SmallestOne
<1>3. PICK x \in s.ost : x.at = a
    BY <1>2
<1>4. \A y \in s.ost : x.at <= y.at
    BY <1>2, <1>3
<1> QED
    BY <1>3, <1>4 DEF Oldest

ReceiverType ==
    [reasm : ReassemblerType, isn : 0 .. Modulus - 1, maxAbs : Nat,
     init : BOOLEAN, fin : BOOLEAN, rst : BOOLEAN]

ReceiverFits(r, cap) ==
    /\ r \in ReceiverType
    /\ \E bound \in Nat : Typed(r.reasm, cap, bound)

\* A bound on the pending segments is no less one for being larger.
LEMMA TypedWidens ==
    ASSUME NEW cap \in Nat, NEW bound \in Nat, NEW wide \in Nat, bound <= wide,
           NEW r, Typed(r, cap, bound)
    PROVE  Typed(r, cap, wide)
<1>1. ASSUME NEW s \in r.segs PROVE KeysRight(s, wide)
    <2>1. s.end \in Nat /\ KeysRight(s, bound)
        BY DEF Typed, ReassemblerType, SegType
    <2> QED
        BY <2>1 DEF KeysRight
<1> QED
    BY <1>1 DEF Typed

\* The number of a segment and the place it stands for.
LEMMA StreamIndexType ==
    ASSUME NEW abs \in Nat
    PROVE  /\ StreamIndex(abs) \in Nat
           /\ abs # 0 /\ abs < Modulus => StreamIndex(abs) = abs - 1
<1> DEFINE M == Modulus * Modulus
<1>1. Modulus \in Nat \ {0}
    BY ModulusType
<1>2. M \in Nat /\ M >= Modulus
    BY <1>1
<1>3. StreamIndex(abs) = (abs - 1) % M
    BY DEF StreamIndex
<1> HIDE DEF M
<1>4. (abs - 1) % M \in Nat
    BY <1>1, <1>2
<1>5. ASSUME abs # 0, abs < Modulus PROVE (abs - 1) % M = abs - 1
    BY <1>1, <1>2, <1>5
<1> QED
    BY <1>3, <1>4, <1>5

\* insert takes any string a message carries.
LEMMA InsertFits ==
    ASSUME NEW cap \in Nat, NEW r, ReceiverFits(r, cap), NEW msg \in Message, NEW first \in Nat,
           NEW t, t = Insert(r.reasm, first, msg.payload, msg.FIN)
    PROVE  t \in ReassemblerType /\ \E bound \in Nat : Typed(t, cap, bound)
<1>1. PICK b \in Nat : Typed(r.reasm, cap, b)
    BY DEF ReceiverFits
<1>2. msg.payload \in Seq(Nat) /\ msg.FIN \in BOOLEAN
    BY DEF Message
<1>3. Len(msg.payload) \in Nat
    BY <1>2, LenProperties
<1> DEFINE wide == b + (first + Len(msg.payload))
<1>4. wide \in Nat /\ b <= wide /\ first + Len(msg.payload) <= wide
    BY <1>3
<1> HIDE DEF wide
<1>5. Typed(r.reasm, cap, wide)
    BY <1>1, <1>2, <1>4, TypedWidens
<1>6. Typed(t, cap, wide)
    BY <1>2, <1>4, <1>5, InsertTyped
<1> QED
    BY <1>4, <1>6 DEF Typed

LEMMA ReceiverReceiveFits ==
    ASSUME NEW cap \in Nat, NEW r, ReceiverFits(r, cap), NEW msg \in Message
    PROVE  ReceiverFits(ReceiverReceive(r, msg), cap)
<1>0. /\ r \in ReceiverType /\ msg.seqno \in 0 .. Modulus - 1
      /\ msg.SYN \in BOOLEAN /\ msg.FIN \in BOOLEAN
    BY DEF ReceiverFits, Message
<1>1. CASE msg.RST
    <2> DEFINE f == SetError(r.reasm.output)
               a == [r.reasm EXCEPT !.output = f]
               u == [r EXCEPT !.rst = TRUE, !.reasm = a]
    <2>1. ReceiverReceive(r, msg) = u
        BY <1>0, <1>1 DEF ReceiverReceive, ReceiverType
    <2>2. PICK b \in Nat : Typed(r.reasm, cap, b)
        BY DEF ReceiverFits
    <2>3. r.reasm \in ReassemblerType /\ r.reasm.output \in QueueType
        BY <1>0 DEF ReceiverType, ReassemblerType
    <2>4. f \in QueueType /\ f.cap = r.reasm.output.cap /\ f.buf = r.reasm.output.buf
        BY <2>3 DEF SetError, QueueType
    <2> HIDE DEF f
    <2>5. a \in ReassemblerType /\ a.segs = r.reasm.segs /\ a.output = f
        BY <2>3, <2>4 DEF ReassemblerType
    <2>6. Typed(a, cap, b)
        BY <2>2, <2>4, <2>5 DEF Typed
    <2> HIDE DEF a
    <2>7. u \in ReceiverType /\ u.reasm = a
        BY <1>0, <2>5 DEF ReceiverType
    <2> QED
        BY <2>1, <2>6, <2>7 DEF ReceiverFits
<1>2. CASE ~msg.RST /\ msg.SYN
    <2> DEFINE a == Insert(r.reasm, 0, msg.payload, msg.FIN)
    <2>1. ReceiverReceive(r, msg) =
            [r EXCEPT !.init = TRUE, !.fin = msg.FIN, !.rst = FALSE,
                      !.isn = msg.seqno, !.maxAbs = 0, !.reasm = a]
        BY <1>2 DEF ReceiverReceive, ReceiveSYN
    <2>2. a \in ReassemblerType /\ \E b \in Nat : Typed(a, cap, b)
        BY InsertFits
    <2> HIDE DEF a
    <2> DEFINE u == ReceiverReceive(r, msg)
    <2>5. /\ u = [r EXCEPT !.init = TRUE, !.fin = msg.FIN, !.rst = FALSE,
                           !.isn = msg.seqno, !.maxAbs = 0, !.reasm = a]
          /\ a \in ReassemblerType
        BY <2>1, <2>2
    <2> HIDE DEF u
    <2>3. u \in ReceiverType /\ u.reasm = a
        BY <1>0, <2>5 DEF ReceiverType
    <2>4. ReceiverFits(u, cap)
        BY <2>2, <2>3 DEF ReceiverFits
    <2> QED
        BY <2>4 DEF u
<1>3. CASE ~msg.RST /\ ~msg.SYN
    <2> DEFINE abs == Unwrap(msg.seqno, r.isn, r.maxAbs)
               a == Insert(r.reasm, StreamIndex(abs), msg.payload, msg.FIN)
    <2>1. ReceiverReceive(r, msg) =
            [r EXCEPT !.fin = r.fin \/ msg.FIN, !.maxAbs = abs, !.reasm = a]
        BY <1>3 DEF ReceiverReceive, ReceiveRest
    <2>2. abs \in Nat
        <3>1. r.isn \in Int /\ r.maxAbs \in Nat
            BY <1>0, ModulusType DEF ReceiverType
        <3> QED
            BY <1>0, <3>1, UnwrapWraps
    <2> HIDE DEF abs
    <2>3. a \in ReassemblerType /\ \E b \in Nat : Typed(a, cap, b)
        BY <2>2, StreamIndexType, InsertFits
    <2>4. (r.fin \/ msg.FIN) \in BOOLEAN
        OBVIOUS
    <2> HIDE DEF a
    <2> QED
        BY <1>0, <2>1, <2>2, <2>3, <2>4 DEF ReceiverFits, ReceiverType
<1> QED
    BY <1>0, <1>1, <1>2, <1>3

\* What a receiver says is a message with no more of a window than it has room.
LEMMA ReceiverSendFits ==
    ASSUME NEW cap \in Nat, NEW r, ReceiverFits(r, cap)
    PROVE  LET m == ReceiverSend(r) IN
           /\ m \in AckMessage /\ m.window <= Least(cap, MaxWindow)
           /\ m.hasAck = r.init
           /\ m.window <= Available(r.reasm.output)
<1> DEFINE m == ReceiverSend(r)
           room == Available(r.reasm.output)
           f == Flag(AckFIN(r))
           number == r.reasm.next + 1 + f
<1>1. PICK b \in Nat : Typed(r.reasm, cap, b)
    BY DEF ReceiverFits
<1>2. MaxWindow \in Nat
    BY WindowAssumption
<1>3. room \in 0 .. cap /\ r.reasm.next \in Nat
    BY <1>1, <1>2, TypedFields
<1>4. r.init \in BOOLEAN /\ r.isn \in 0 .. Modulus - 1 /\ r.rst \in BOOLEAN
      /\ r.reasm.output.error \in BOOLEAN
    BY DEF ReceiverFits, ReceiverType, ReassemblerType, QueueType
<1>5. f \in {0, 1}
    BY DEF Flag
<1> HIDE DEF f, room
<1>6. number \in Int /\ r.isn \in Int
    BY <1>3, <1>4, <1>5, ModulusType
<1>7. FreeWindow(r) = Least(room, MaxWindow)
    BY DEF FreeWindow, room
<1>8. /\ FreeWindow(r) \in Nat /\ FreeWindow(r) <= room
      /\ FreeWindow(r) <= Least(cap, MaxWindow)
    BY <1>2, <1>3, <1>7 DEF Least
<1>9. m = [hasAck |-> r.init, ackno |-> IF r.init THEN Wrap(number, r.isn) ELSE 0,
           window |-> FreeWindow(r), RST |-> r.rst \/ r.reasm.output.error]
    BY DEF ReceiverSend, f
<1> HIDE DEF number
<1>14. Wrap(number, r.isn) \in 0 .. Modulus - 1
    BY <1>6, WrapInRange
<1>10. (IF r.init THEN Wrap(number, r.isn) ELSE 0) \in 0 .. Modulus - 1
    BY <1>14, ModulusType
<1>11. (r.rst \/ r.reasm.output.error) \in BOOLEAN
    OBVIOUS
<1> HIDE DEF m
<1>12. m \in AckMessage
    BY <1>4, <1>8, <1>9, <1>10, <1>11 DEF AckMessage
<1>13. m.window = FreeWindow(r) /\ m.hasAck = r.init
    BY <1>9
<1> QED
    BY <1>8, <1>12, <1>13 DEF m, room
=============================================================================
