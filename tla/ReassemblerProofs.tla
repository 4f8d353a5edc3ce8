------------------------- MODULE ReassemblerProofs -------------------------
(***************************************************************************)
(* Proofs about Reassembler.tla, for every capacity, length of the stream  *)
(* and size of the substrings.                                             *)
(*                                                                         *)
(* The inductive invariant has four parts.  TypeInv says what the record   *)
(* is and that no two segments have the same keys, so that the set of the  *)
(* code has a first one.  StreamInv says that what is written, and what    *)
(* each segment holds, is in its place; KnownInv that the bytes learned    *)
(* are those written and those pending; CloseInv that the end is known     *)
(* when it is reached.  Only TypeInv holds without the assumptions below.  *)
(***************************************************************************)
EXTENDS Reassembler, OperatorLemmas

-----------------------------------------------------------------------------
(***************************************************************************)
(* Parts of strings.                                                       *)
(***************************************************************************)
\* The bytes of a stretch of the stream.
LEMMA BytesFromType ==
    ASSUME NEW a \in Nat, NEW n \in Nat
    PROVE  /\ BytesFrom(a, a + n) \in Seq(Nat)
           /\ Len(BytesFrom(a, a + n)) = n
           /\ \A i \in 1 .. n : BytesFrom(a, a + n)[i] = a + i - 1
<1>1. BytesFrom(a, a + n) = [i \in 1 .. n |-> a + i - 1]
    BY (a + n) - a = n DEF BytesFrom
<1>2. [i \in 1 .. n |-> a + i - 1] \in [1 .. n -> Nat]
    OBVIOUS
<1>3. BytesFrom(a, a + n) \in Seq(Nat)
    BY <1>1, <1>2, SeqDef
<1>4. DOMAIN BytesFrom(a, a + n) = 1 .. n
    BY <1>1
<1>5. Len(BytesFrom(a, a + n)) = n
    BY <1>3, <1>4, LenProperties
<1> QED
    BY <1>1, <1>3, <1>5

\* The constants, apart.
LEMMA Constants == Capacity \in Nat /\ Capacity > 0 /\ StreamLen \in Nat /\ MaxSize \in Nat
<1>1. Capacity \in Nat \ {0} /\ StreamLen \in Nat /\ MaxSize \in Nat
    BY ConstantsAssumption
<1> QED
    BY <1>1

-----------------------------------------------------------------------------
(***************************************************************************)
(* The types, for any overrun of the window.                               *)
(***************************************************************************)
TypeInv ==
    /\ Typed(reassembler, Capacity, StreamLen)
    /\ pc \in {"idle", "drain"}
    /\ finHabit \in FinHabits
    /\ known \subseteq 0 .. StreamLen - 1

LEMMA InitTypeInv == Init => TypeInv
<1> SUFFICES ASSUME Init PROVE TypeInv
    OBVIOUS
<1>1. NewFifo(Capacity) \in QueueType
    BY Constants, NewFifoInPlace DEF InPlace
<1>2. reassembler = NewReassembler(Capacity)
    BY DEF Init
<1>3. reassembler \in ReassemblerType
    BY <1>1, <1>2 DEF NewReassembler, ReassemblerType
<1>4. reassembler.segs = {} /\ reassembler.output = NewFifo(Capacity)
    BY <1>2 DEF NewReassembler
<1>5. NewFifo(Capacity).cap = Capacity /\ Len(NewFifo(Capacity).buf) = 0
    BY Constants, NewFifoInPlace DEF NewFifo
<1>6. Typed(reassembler, Capacity, StreamLen)
    BY <1>3, <1>4, <1>5, Constants, FS_EmptySet DEF Typed, KeysDiffer
<1> QED
    BY <1>6 DEF Init, TypeInv

\* The beginning of a call, as the lemmas about it need it: the substring, and
\* what each way to go on says of where it lies.
Given(first, size, isLast) ==
    /\ first \in 0 .. StreamLen /\ size \in 0 .. MaxSize
    /\ Substring(first, size)
    /\ isLast \in FlagsFor(first, size)
    /\ InsertBegins(first, BytesFrom(first, first + size), isLast)

\* What a call that begins does, in terms of the record after NoteLast.
LEMMA BeginCases ==
    ASSUME TypeInv,
           NEW first, NEW size, NEW isLast, Given(first, size, isLast)
    PROVE  LET data  == BytesFrom(first, first + size)
               noted == NoteLast(reassembler, first, data, isLast)
               edge  == WindowEdge(reassembler)
               next  == reassembler.next IN
           /\ first \in Nat /\ size \in Nat /\ isLast \in BOOLEAN
           /\ first + size <= StreamLen
           /\ data \in Seq(Nat) /\ Len(data) = size
           /\ pc = "idle" /\ finHabit' = finHabit
           /\ known' = known \cup {i \in first .. first + size - 1 : i < edge}
           /\ \/ /\ first < next /\ first + size <= next
                 /\ reassembler' = noted /\ pc' = "idle"
              \/ /\ first > next /\ first >= edge
                 /\ reassembler' = noted /\ pc' = "idle"
              \/ /\ first <= next /\ next <= first + size
                 /\ first < next => next < first + size
                 /\ reassembler' = WriteNow(noted, first, data) /\ pc' = "drain"
              \/ /\ first > next /\ first < edge
                 /\ reassembler' = Keep(noted, first, data) /\ pc' = "drain"
<1> DEFINE data  == BytesFrom(first, first + size)
           noted == NoteLast(reassembler, first, data, isLast)
           edge  == WindowEdge(reassembler)
           next  == reassembler.next
<1>1. first \in Nat /\ size \in Nat /\ isLast \in BOOLEAN /\ first + size <= StreamLen
    <2>1. first \in Nat /\ size \in Nat
        BY Constants DEF Given
    <2>2. first + size <= StreamLen
        BY DEF Given, Substring
    <2>3. isLast \in BOOLEAN
        <3>1. finHabit = "with data" \/ finHabit = "bare" \/ finHabit = "mixed"
            BY ConstantsAssumption DEF TypeInv
        <3>2. CASE finHabit = "with data"
            BY <3>2 DEF Given, FlagsFor
        <3>3. CASE finHabit = "bare"
            BY <3>3 DEF Given, FlagsFor
        <3>4. CASE finHabit = "mixed"
            BY <3>4 DEF Given, FlagsFor
        <3> QED
            BY <3>1, <3>2, <3>3, <3>4
    <2> QED
        BY <2>1, <2>2, <2>3
<1>2. data \in Seq(Nat) /\ Len(data) = size
    BY <1>1, BytesFromType
<1>0. Typed(reassembler, Capacity, StreamLen)
    BY DEF TypeInv
<1>3. /\ noted.next = next /\ WindowEdge(noted) = edge
    BY <1>0, <1>1, <1>2, NoteLastTyped, Constants
<1>4. next \in Nat /\ edge \in Nat /\ next <= edge
    BY <1>0, TypedFields, Constants
<1>5. /\ pc = "idle" /\ finHabit' = finHabit
      /\ known' = known \cup {i \in first .. first + size - 1 : i < edge}
      /\ IF ReturnsEarly(noted, first, data)
           THEN reassembler' = noted /\ pc' = "idle"
           ELSE reassembler' = Place(noted, first, data) /\ pc' = "drain"
    BY <1>2 DEF Given, InsertBegins
<1>6. ReturnsEarly(noted, first, data)
          <=> (first < next /\ first + size <= next) \/ (first > next /\ first >= edge)
    BY <1>2, <1>3 DEF ReturnsEarly
<1>7. Place(noted, first, data) = IF first <= next THEN WriteNow(noted, first, data)
                                                   ELSE Keep(noted, first, data)
    BY <1>3 DEF Place
<1> HIDE DEF data, noted, edge, next
<1>8. \/ /\ first < next /\ first + size <= next
         /\ reassembler' = noted /\ pc' = "idle"
      \/ /\ first > next /\ first >= edge
         /\ reassembler' = noted /\ pc' = "idle"
      \/ /\ first <= next /\ next <= first + size
         /\ first < next => next < first + size
         /\ reassembler' = WriteNow(noted, first, data) /\ pc' = "drain"
      \/ /\ first > next /\ first < edge
         /\ reassembler' = Keep(noted, first, data) /\ pc' = "drain"
    <2>1. CASE first < next /\ first + size <= next
        BY <1>5, <1>6, <2>1
    <2>2. CASE first > next /\ first >= edge
        BY <1>5, <1>6, <2>2
    <2>3. CASE first <= next /\ ~(first < next /\ first + size <= next)
        <3>1. next <= first + size /\ (first < next => next < first + size)
              /\ ~(first > next)
            BY <1>1, <1>4, <2>3
        <3> QED
            BY <1>5, <1>6, <1>7, <2>3, <3>1
    <2>4. CASE first > next /\ ~(first >= edge)
        <3>1. first < edge /\ ~(first <= next) /\ ~(first < next)
            BY <1>1, <1>4, <2>4
        <3> QED
            BY <1>5, <1>6, <1>7, <2>4, <3>1
    <2>5. first <= next \/ first > next
        BY <1>1, <1>4
    <2> QED
        BY <2>1, <2>2, <2>3, <2>4, <2>5
<1> QED
    BY <1>1, <1>2, <1>5, <1>8 DEF data, noted, edge, next

LEMMA NextTypeInv == TypeInv /\ [Next]_vars => TypeInv'
<1> SUFFICES ASSUME TypeInv, [Next]_vars PROVE TypeInv'
    OBVIOUS
<1>1. Typed(reassembler, Capacity, StreamLen) /\ known \subseteq 0 .. StreamLen - 1 /\ finHabit \in FinHabits
    BY DEF TypeInv
<1>2. ASSUME NEW first, NEW size, NEW isLast, Given(first, size, isLast)
      PROVE  TypeInv'
    <2> DEFINE data  == BytesFrom(first, first + size)
               noted == NoteLast(reassembler, first, data, isLast)
               edge  == WindowEdge(reassembler)
               next  == reassembler.next
    <2>1. /\ first \in Nat /\ size \in Nat /\ isLast \in BOOLEAN
          /\ first + size <= StreamLen
          /\ data \in Seq(Nat) /\ Len(data) = size
          /\ finHabit' = finHabit
          /\ known' = known \cup {i \in first .. first + size - 1 : i < edge}
        BY <1>2, BeginCases
    <2>2. \/ /\ first < next /\ first + size <= next
             /\ reassembler' = noted /\ pc' = "idle"
          \/ /\ first > next /\ first >= edge
             /\ reassembler' = noted /\ pc' = "idle"
          \/ /\ first <= next /\ next <= first + size
             /\ first < next => next < first + size
             /\ reassembler' = WriteNow(noted, first, data) /\ pc' = "drain"
          \/ /\ first > next /\ first < edge
             /\ reassembler' = Keep(noted, first, data) /\ pc' = "drain"
        BY <1>2, BeginCases
    <2>3. Typed(noted, Capacity, StreamLen) /\ noted.next = next /\ WindowEdge(noted) = edge
        BY <1>1, <2>1, NoteLastTyped, Constants
    <2>4. next \in Nat /\ edge \in Nat
        BY <1>1, TypedFields, Constants
    <2>5. known' \subseteq 0 .. StreamLen - 1
        <3>1. first .. first + size - 1 \subseteq 0 .. StreamLen - 1
            BY <2>1, Constants
        <3> QED
            BY <1>1, <2>1, <3>1
    <2> HIDE DEF data, noted, edge, next
    <2>6. Typed(reassembler', Capacity, StreamLen) /\ pc' \in {"idle", "drain"}
        <3>1. CASE reassembler' = noted /\ pc' = "idle"
            BY <2>3, <3>1
        <3>2. CASE /\ first <= next /\ next <= first + size
                   /\ reassembler' = WriteNow(noted, first, data) /\ pc' = "drain"
            <4>1. first <= noted.next /\ noted.next <= first + Len(data)
                BY <2>1, <2>3, <3>2
            <4> QED
                BY <2>1, <2>3, <3>2, <4>1, WriteNowTyped, Constants
        <3>3. CASE /\ first > next /\ first < edge
                   /\ reassembler' = Keep(noted, first, data) /\ pc' = "drain"
            <4>1. first <= WindowEdge(noted) /\ first + Len(data) <= StreamLen
                BY <2>1, <2>3, <2>4, <3>3
            <4> QED
                BY <2>1, <2>3, <3>3, <4>1, KeepTyped, Constants
        <3> QED
            BY <2>2, <3>1, <3>2, <3>3
    <2> QED
        BY <1>1, <2>1, <2>5, <2>6 DEF TypeInv
<1>3. CASE InsertDrains
    <2>1. reassembler.segs # {} /\ FirstSeg(reassembler.segs).begin <= reassembler.next
        BY <1>3 DEF InsertDrains, Drains
    <2>2. Typed(DrainOne(reassembler), Capacity, StreamLen)
        BY <1>1, <2>1, DrainOneTyped, Constants
    <2> QED
        BY <1>3, <2>2 DEF InsertDrains, TypeInv
<1>4. CASE InsertEnds
    <2>1. Typed(CloseIfComplete(reassembler), Capacity, StreamLen)
        BY <1>1, CloseTyped, Constants
    <2> QED
        BY <1>1, <1>4, <2>1 DEF InsertEnds, TypeInv
<1>5. ASSUME NEW len \in 1 .. Capacity, ReaderPops(len) PROVE TypeInv'
    <2>1. len \in Nat /\ len <= Buffered(reassembler.output)
        BY <1>5, Constants DEF ReaderPops
    <2>2. Typed([reassembler EXCEPT !.output = Pop(reassembler.output, len)], Capacity, StreamLen)
        BY <1>1, <2>1, PopTyped, Constants
    <2> QED
        BY <1>5, <2>2 DEF ReaderPops, TypeInv
<1>6. CASE UNCHANGED vars
    BY <1>6 DEF TypeInv, vars
<1> QED
    BY <1>2, <1>3, <1>4, <1>5, <1>6 DEF Next, Given

LEMMA SpecTypeInv == Spec => []TypeInv
BY InitTypeInv, NextTypeInv, PTL DEF Spec

\* The record, the queue and the segments have their types whatever the peer
\* sends: the output never holds more than its capacity, and no segment's keys
\* reach past its data, so that none is read past its end (reassembler.cc:82).
THEOREM TypeCorrect == Spec => []TypeOK
<1>1. TypeInv => TypeOK
    <2> SUFFICES ASSUME TypeInv PROVE TypeOK
        OBVIOUS
    <2>1. Typed(reassembler, Capacity, StreamLen)
        BY DEF TypeInv
    <2>2. /\ reassembler.segs \subseteq SegType
          /\ reassembler.next \in Nat /\ reassembler.last \in Nat
          /\ reassembler.hasLast \in BOOLEAN
          /\ reassembler.output.buf \in Seq(Nat)
          /\ Available(reassembler.output) \in 0 .. Capacity
        BY <2>1, TypedFields, Constants
    <2>3. \A s \in reassembler.segs : s.begin <= s.end /\ s.end <= s.begin + Len(s.data)
        BY <2>1 DEF Typed, KeysRight
    <2> QED
        BY <2>2, <2>3 DEF TypeInv, TypeOK
<1> QED
    BY <1>1, SpecTypeInv, PTL

\* bytes_pending counts what the segments hold, each place once: also when they
\* overlap, nest, leave gaps or were cut at the window.
THEOREM PendingCounted == Spec => []BytesPendingCountsOnce
<1>1. TypeInv => BytesPendingCountsOnce
    BY Constants, CountsOnce DEF TypeInv, BytesPendingCountsOnce, Pending
<1> QED
    BY <1>1, SpecTypeInv, PTL

-----------------------------------------------------------------------------
(***************************************************************************)
(* What is written and what is held, when no data beyond a gap passes the  *)
(* edge of the window (OverrunPending = 0).                                *)
(***************************************************************************)
StreamInv == Streams(reassembler, StreamLen)

LEMMA InitStreamInv == Init => StreamInv
<1> SUFFICES ASSUME Init PROVE StreamInv
    OBVIOUS
<1>1. /\ InPlace(NewFifo(Capacity))
      /\ NewFifo(Capacity).pushed = 0 /\ NewFifo(Capacity).closed = FALSE
    BY Constants, NewFifoInPlace DEF NewFifo
<1>2. /\ reassembler.segs = {} /\ reassembler.next = 0 /\ reassembler.hasLast = FALSE
      /\ reassembler.output = NewFifo(Capacity)
    BY DEF Init, NewReassembler
<1>3. 0 <= StreamLen
    BY Constants
<1> QED
    BY <1>1, <1>2, <1>3 DEF StreamInv, Streams

\* The peer flags no substring that does not reach the end of its stream.
LEMMA FlagsOnlyTheEnd ==
    ASSUME NEW first, NEW size, NEW isLast, Given(first, size, isLast), isLast
    PROVE  first + size = StreamLen
BY DEF Given, FlagsFor

\* A call that begins, under the assumption: the data lies where it says, and
\* what lies beyond a gap ends within the window.
LEMMA GivenWithin ==
    ASSUME OverrunPending = 0, TypeInv, StreamInv,
           NEW first, NEW size, NEW isLast, Given(first, size, isLast)
    PROVE  LET data  == BytesFrom(first, first + size)
               noted == NoteLast(reassembler, first, data, isLast) IN
           /\ LiesAt(data, first)
           /\ first > reassembler.next => first + size <= WindowEdge(reassembler)
           /\ Typed(noted, Capacity, StreamLen) /\ Streams(noted, StreamLen)
           /\ noted.segs = reassembler.segs /\ noted.next = reassembler.next
           /\ noted.output = reassembler.output
           /\ WindowEdge(noted) = WindowEdge(reassembler)
           /\ noted.hasLast <=> (reassembler.hasLast \/ isLast)
<1> DEFINE data  == BytesFrom(first, first + size)
           noted == NoteLast(reassembler, first, data, isLast)
<1>1. /\ first \in Nat /\ size \in Nat /\ isLast \in BOOLEAN
      /\ data \in Seq(Nat) /\ Len(data) = size
    BY BeginCases
<1>2. LiesAt(data, first)
    BY <1>1, BytesFromType DEF LiesAt
<1>3. Typed(reassembler, Capacity, StreamLen) /\ Streams(reassembler, StreamLen)
    BY DEF TypeInv, StreamInv
<1>8. isLast => first + size = StreamLen
    BY FlagsOnlyTheEnd
<1> HIDE DEF data
<1>4. isLast => first + Len(data) = StreamLen
    BY <1>1, <1>8
<1>5. Streams(noted, StreamLen)
    BY <1>1, <1>3, <1>4, NoteLastStreams, Constants
<1>6. /\ Typed(noted, Capacity, StreamLen)
      /\ noted.segs = reassembler.segs /\ noted.next = reassembler.next
      /\ noted.output = reassembler.output
      /\ WindowEdge(noted) = WindowEdge(reassembler)
      /\ noted.hasLast <=> (reassembler.hasLast \/ isLast)
    BY <1>1, <1>3, NoteLastTyped, Constants
<1> HIDE DEF noted
<1>7. ASSUME first > reassembler.next PROVE first + size <= WindowEdge(reassembler)
    <2>1. reassembler.next \in Nat /\ WindowEdge(reassembler) \in Nat
        BY <1>3, TypedFields, Constants
    <2>2. ~(first <= reassembler.next)
        BY <1>1, <1>7, <2>1
    <2>3. first + size <= WindowEdge(reassembler) + OverrunPending
        BY <2>2 DEF Given, Substring
    <2> QED
        BY <2>1, <2>3
<1> QED
    BY <1>2, <1>5, <1>6, <1>7 DEF data, noted

LEMMA NextStreamInv ==
    OverrunPending = 0 /\ TypeInv /\ StreamInv /\ [Next]_vars => StreamInv'
<1> SUFFICES ASSUME OverrunPending = 0, TypeInv, StreamInv, [Next]_vars
             PROVE  StreamInv'
    OBVIOUS
<1>1. Typed(reassembler, Capacity, StreamLen) /\ Streams(reassembler, StreamLen)
    BY DEF TypeInv, StreamInv
<1>2. ASSUME NEW first, NEW size, NEW isLast, Given(first, size, isLast)
      PROVE  StreamInv'
    <2> DEFINE data  == BytesFrom(first, first + size)
               noted == NoteLast(reassembler, first, data, isLast)
               edge  == WindowEdge(reassembler)
               next  == reassembler.next
    <2>1. /\ first \in Nat /\ size \in Nat /\ first + size <= StreamLen
          /\ data \in Seq(Nat) /\ Len(data) = size
        BY <1>2, BeginCases
    <2>2. \/ /\ first < next /\ first + size <= next
             /\ reassembler' = noted /\ pc' = "idle"
          \/ /\ first > next /\ first >= edge
             /\ reassembler' = noted /\ pc' = "idle"
          \/ /\ first <= next /\ next <= first + size
             /\ first < next => next < first + size
             /\ reassembler' = WriteNow(noted, first, data) /\ pc' = "drain"
          \/ /\ first > next /\ first < edge
             /\ reassembler' = Keep(noted, first, data) /\ pc' = "drain"
        BY <1>2, BeginCases
    <2>3. /\ LiesAt(data, first)
          /\ first > next => first + size <= edge
          /\ Typed(noted, Capacity, StreamLen) /\ Streams(noted, StreamLen)
          /\ noted.next = next /\ WindowEdge(noted) = edge
        BY <1>2, GivenWithin
    <2> HIDE DEF data, noted, edge, next
    <2>4. CASE reassembler' = noted
        BY <2>3, <2>4 DEF StreamInv
    <2>5. CASE /\ first <= next /\ next <= first + size
               /\ reassembler' = WriteNow(noted, first, data)
        <3>1. Streams(WriteNow(noted, first, data), StreamLen)
            BY <2>1, <2>3, <2>5, WriteNowStreams, Constants
        <3> QED
            BY <2>5, <3>1 DEF StreamInv
    <2>6. CASE first > next /\ reassembler' = Keep(noted, first, data)
        <3>1. reassembler' = Keep(noted, first, data)
            BY <2>6
        <3>2. Streams(reassembler', StreamLen)
            <4>1. /\ first + Len(data) <= WindowEdge(noted)
                  /\ first + Len(data) <= StreamLen
                BY <2>1, <2>3, <2>6
            <4>2. Typed(noted, Capacity, StreamLen) /\ Streams(noted, StreamLen)
                BY <2>3
            <4> QED
                BY <2>1, <2>3, <3>1, <4>1, <4>2, KeepStreams, Constants
        <3> QED
            BY <3>2 DEF StreamInv
    <2> QED
        BY <2>2, <2>4, <2>5, <2>6
<1>3. CASE InsertDrains
    <2>1. reassembler.segs # {} /\ FirstSeg(reassembler.segs).begin <= reassembler.next
        BY <1>3 DEF InsertDrains, Drains
    <2>2. Streams(DrainOne(reassembler), StreamLen)
        BY <1>1, <2>1, DrainOneStreams, Constants
    <2> QED
        BY <1>3, <2>2 DEF InsertDrains, StreamInv
<1>4. CASE InsertEnds
    <2>1. Streams(CloseIfComplete(reassembler), StreamLen)
        BY <1>1, CloseStreams, Constants
    <2> QED
        BY <1>4, <2>1 DEF InsertEnds, StreamInv
<1>5. ASSUME NEW len \in 1 .. Capacity, ReaderPops(len) PROVE StreamInv'
    <2>1. len \in Nat /\ len <= Buffered(reassembler.output)
        BY <1>5, Constants DEF ReaderPops
    <2>2. Streams([reassembler EXCEPT !.output = Pop(reassembler.output, len)], StreamLen)
        BY <1>1, <2>1, PopStreams, Constants
    <2> QED
        BY <1>5, <2>2 DEF ReaderPops, StreamInv
<1>6. CASE UNCHANGED vars
    BY <1>6 DEF StreamInv, vars
<1> QED
    BY <1>2, <1>3, <1>4, <1>5, <1>6 DEF Next, Given

LEMMA SpecStreamInv ==
    ASSUME OverrunPending = 0
    PROVE  Spec => [](TypeInv /\ StreamInv)
<1>1. Init => TypeInv /\ StreamInv
    BY InitTypeInv, InitStreamInv
<1>2. TypeInv /\ StreamInv /\ [Next]_vars => (TypeInv /\ StreamInv)'
    BY NextTypeInv, NextStreamInv
<1> QED
    BY <1>1, <1>2, PTL DEF Spec

\* What has been written is the peer's stream from its start, each byte once
\* and in its place, and next_ says how much that is, in whatever order the
\* substrings come, however they overlap and are repeated, as long as none
\* beyond a gap passes the window's edge (the run MCReassemblerOverrun shows
\* that it must not).
THEOREM OutputRight ==
    ASSUME OverrunPending = 0
    PROVE  Spec => []OutputIsStreamPrefix
<1>1. TypeInv /\ StreamInv => OutputIsStreamPrefix
    <2> SUFFICES ASSUME StreamInv PROVE OutputIsStreamPrefix
        OBVIOUS
    <2> DEFINE out == reassembler.output
    <2>1. InPlace(out) /\ out.pushed = reassembler.next
        BY DEF StreamInv, Streams
    <2>2. /\ out.buf \in Seq(Nat) /\ out.popped \in Nat /\ Len(out.buf) \in Nat
          /\ out.pushed = out.popped + Len(out.buf)
        BY <2>1, InPlaceNumbers
    <2> DEFINE b == BytesFrom(out.popped, out.popped + Len(out.buf))
    <2>3. /\ b \in Seq(Nat) /\ Len(b) = Len(out.buf)
          /\ \A i \in 1 .. Len(out.buf) : b[i] = out.popped + i - 1
        BY <2>2, BytesFromType
    <2> HIDE DEF b
    <2>4. \A i \in 1 .. Len(out.buf) : out.buf[i] = b[i]
        BY <2>1, <2>3 DEF InPlace
    <2>5. out.buf = b
        BY <2>2, <2>3, <2>4, SeqEqual
    <2> QED
        BY <2>1, <2>2, <2>5 DEF OutputIsStreamPrefix, b
<1> QED
    BY <1>1, SpecStreamInv, PTL

-----------------------------------------------------------------------------
(***************************************************************************)
(* What has been learned.                                                  *)
(***************************************************************************)
\* The pending bytes lie in the segments.
LEMMA PendingBytes ==
    ASSUME TypeInv, NEW i \in Int
    PROVE  i \in Pending <=> \E s \in reassembler.segs : s.begin <= i /\ i < s.end
<1>1. reassembler.segs \in SUBSET SegType
    BY TypedFields, Constants DEF TypeInv
<1>2. ASSUME NEW s \in reassembler.segs
      PROVE  i \in s.begin .. s.end - 1 <=> s.begin <= i /\ i < s.end
    <2>1. s.begin \in Nat /\ s.end \in Nat
        BY <1>1 DEF SegType
    <2> QED
        BY <2>1
<1> QED
    BY <1>2 DEF Pending

\* A byte lies in one of some segments.
In(i, segs) == \E s \in segs : s.begin <= i /\ i < s.end

\* The bytes learned are those written and, from next_ on, those pending;
\* between calls no segment begins at next_ or before it.
KnownInv ==
    /\ \A i \in Nat : i >= reassembler.next =>
           (i \in known <=> In(i, reassembler.segs))
    /\ \A i \in Nat : i < reassembler.next => i \in known
    /\ pc = "idle" => \A s \in reassembler.segs : s.begin > reassembler.next

LEMMA InitKnownInv == Init => KnownInv
BY DEF Init, NewReassembler, KnownInv, In

LEMMA NextKnownInv ==
    OverrunPending = 0 /\ TypeInv /\ StreamInv /\ KnownInv /\ [Next]_vars => KnownInv'
<1> SUFFICES ASSUME OverrunPending = 0, TypeInv, StreamInv, KnownInv, [Next]_vars
             PROVE  KnownInv'
    OBVIOUS
<1> DEFINE next == reassembler.next
           segs == reassembler.segs
           edge == WindowEdge(reassembler)
<1>1. Typed(reassembler, Capacity, StreamLen) /\ Streams(reassembler, StreamLen)
    BY DEF TypeInv, StreamInv
<1>2. next \in Nat /\ edge \in Nat /\ next <= edge /\ segs \in SUBSET SegType
    BY <1>1, TypedFields, Constants
<1>3. \A s \in segs : s.begin \in Nat /\ s.end \in Nat /\ s.end <= edge
    BY <1>1, <1>2 DEF SegType, SegRight, Streams
<1>4. /\ \A i \in Nat : i >= next => (i \in known <=> In(i, segs))
      /\ \A i \in Nat : i < next => i \in known
      /\ pc = "idle" => \A s \in segs : s.begin > next
    BY DEF KnownInv
<1>5. \A i \in Nat : i \in known => i < edge
    <2> SUFFICES ASSUME NEW i \in Nat, i \in known PROVE i < edge
        OBVIOUS
    <2>1. CASE i < next
        BY <1>2, <2>1
    <2>2. CASE i >= next
        <3>1. PICK s \in segs : s.begin <= i /\ i < s.end
            BY <1>4, <2>2 DEF In
        <3> QED
            BY <1>2, <1>3, <3>1
    <2> QED
        BY <1>2, <2>1, <2>2
<1>6. ASSUME NEW first, NEW size, NEW isLast, Given(first, size, isLast)
      PROVE  KnownInv'
    <2> DEFINE data  == BytesFrom(first, first + size)
               noted == NoteLast(reassembler, first, data, isLast)
               new   == {i \in first .. first + size - 1 : i < edge}
    <2>1. /\ first \in Nat /\ size \in Nat /\ first + size <= StreamLen
          /\ data \in Seq(Nat) /\ Len(data) = size
          /\ pc = "idle" /\ known' = known \cup new
        BY <1>6, BeginCases
    <2>2. \/ /\ first < next /\ first + size <= next
             /\ reassembler' = noted /\ pc' = "idle"
          \/ /\ first > next /\ first >= edge
             /\ reassembler' = noted /\ pc' = "idle"
          \/ /\ first <= next /\ next <= first + size
             /\ first < next => next < first + size
             /\ reassembler' = WriteNow(noted, first, data) /\ pc' = "drain"
          \/ /\ first > next /\ first < edge
             /\ reassembler' = Keep(noted, first, data) /\ pc' = "drain"
        BY <1>6, BeginCases
    <2>3. /\ LiesAt(data, first)
          /\ first > next => first + size <= edge
          /\ Typed(noted, Capacity, StreamLen) /\ Streams(noted, StreamLen)
          /\ noted.next = next /\ noted.segs = segs /\ WindowEdge(noted) = edge
        BY <1>6, GivenWithin
    <2>4. \A i \in Int : i \in new <=> first <= i /\ i < first + size /\ i < edge
        BY <2>1
    <2> HIDE DEF data, noted, new, next, segs, edge
    <2>5. CASE /\ first < next /\ first + size <= next
               /\ reassembler' = noted /\ pc' = "idle"
        <3>1. ASSUME NEW i \in Nat, i \in new PROVE i \in known
            <4>1. i < next
                BY <1>2, <2>1, <2>4, <2>5, <3>1
            <4> QED
                BY <1>4, <4>1
        <3>2. reassembler'.next = next /\ reassembler'.segs = segs
            BY <2>3, <2>5
        <3>3. /\ \A i \in Nat : i >= next => (i \in known' <=> In(i, segs))
              /\ \A i \in Nat : i < next => i \in known'
              /\ \A s \in segs : s.begin > next
            BY <1>4, <2>1, <3>1
        <3> QED
            BY <3>2, <3>3 DEF KnownInv
    <2>6. CASE /\ first > next /\ first >= edge
               /\ reassembler' = noted /\ pc' = "idle"
        <3>1. \A i \in Nat : ~(i \in new)
            BY <1>2, <2>1, <2>4, <2>6
        <3>2. reassembler'.next = next /\ reassembler'.segs = segs
            BY <2>3, <2>6
        <3>3. /\ \A i \in Nat : i >= next => (i \in known' <=> In(i, segs))
              /\ \A i \in Nat : i < next => i \in known'
              /\ \A s \in segs : s.begin > next
            BY <1>4, <2>1, <3>1
        <3> QED
            BY <3>2, <3>3 DEF KnownInv
    <2>7. CASE /\ first <= next /\ next <= first + size
               /\ reassembler' = WriteNow(noted, first, data) /\ pc' = "drain"
        <3> DEFINE w == WriteNow(noted, first, data)
                   fills == FillsWindow(noted, first, data)
        <3>1. /\ w.next = Least(first + size, edge)
              /\ w.segs = IF fills THEN {} ELSE segs
            <4>1. first <= noted.next /\ noted.next <= first + Len(data)
                BY <2>1, <2>3, <2>7
            <4>2. Typed(noted, Capacity, StreamLen)
                BY <2>3
            <4>3. first \in Nat /\ data \in Seq(Nat)
                BY <2>1
            <4>5. w = WriteNow(noted, first, data) /\ fills = FillsWindow(noted, first, data)
                OBVIOUS
            <4> HIDE DEF w, fills
            <4>4. /\ Typed(w, Capacity, StreamLen)
                  /\ w.next = Least(first + Len(data), WindowEdge(noted))
                  /\ w.segs = IF fills THEN {} ELSE noted.segs
                  /\ w.hasLast = noted.hasLast
                BY <4>1, <4>2, <4>3, <4>5, WriteNowTyped, Constants
            <4> QED
                BY <2>1, <2>3, <4>4
        <3>2. fills => edge <= first + size
            <4>1. fills => first + size >= edge \/ first + size > edge
                BY <2>1, <2>3 DEF FillsWindow
            <4> QED
                BY <1>2, <2>1, <4>1
        <3> HIDE DEF w, fills
        <3>3. /\ w.next \in Nat /\ next <= w.next
              /\ w.next <= first + size /\ w.next <= edge
              /\ w.next = edge \/ w.next = first + size
            BY <1>2, <2>1, <2>7, <3>1 DEF Least
        <3>4. \A i \in Nat : i >= w.next => ~(i \in new)
            BY <1>2, <2>1, <2>4, <3>3
        <3>5. \A i \in Nat : i >= next /\ i < w.next => i \in new
            BY <1>2, <2>1, <2>4, <2>7, <3>3
        <3>6. \A i \in Nat : i < w.next => i \in known'
            BY <1>2, <1>4, <2>1, <3>5
        <3>7. ASSUME NEW i \in Nat, i >= w.next PROVE i \in known' <=> In(i, w.segs)
            <4>1. i >= next
                BY <1>2, <3>3, <3>7
            <4>2. i \in known' <=> i \in known
                BY <2>1, <3>4, <3>7
            <4>3. i \in known <=> In(i, segs)
                BY <1>4, <4>1
            <4>4. CASE fills
                <5>1. w.next = edge
                    BY <1>2, <2>1, <3>1, <3>2, <4>4 DEF Least
                <5>2. ~(i \in known)
                    BY <1>2, <1>5, <3>7, <5>1
                <5>3. ~In(i, w.segs)
                    BY <3>1, <4>4 DEF In
                <5> QED
                    BY <4>2, <5>2, <5>3
            <4>5. CASE ~fills
                BY <3>1, <4>2, <4>3, <4>5
            <4> QED
                BY <4>4, <4>5
        <3>8. reassembler'.next = w.next /\ reassembler'.segs = w.segs /\ pc' # "idle"
            BY <2>7 DEF w
        <3> QED
            BY <3>6, <3>7, <3>8 DEF KnownInv
    <2>8. CASE /\ first > next /\ first < edge
               /\ reassembler' = Keep(noted, first, data) /\ pc' = "drain"
        <3> DEFINE k == Keep(noted, first, data)
        <3>1. /\ first <= WindowEdge(noted) /\ first + Len(data) <= WindowEdge(noted)
              /\ first + Len(data) <= StreamLen /\ first + size <= edge
            BY <1>2, <2>1, <2>3, <2>8
        <3>2. k.next = next
            BY <2>1, <2>3, <3>1, KeepTyped, Constants
        <3>3. \/ /\ k.segs = segs
                 /\ \E t \in segs : t.begin = first /\ t.end = first + Len(data)
              \/ \E s : /\ k.segs = segs \cup {s}
                        /\ s.begin = first /\ s.end = first + Len(data)
            <4>1. /\ Typed(noted, Capacity, StreamLen) /\ Streams(noted, StreamLen) /\ LiesAt(data, first)
                  /\ first \in Nat /\ data \in Seq(Nat)
                BY <2>1, <2>3
            <4>3. k = Keep(noted, first, data)
                OBVIOUS
            <4> HIDE DEF k
            <4>2. Adds(k.segs, noted.segs, first, first + Len(data))
                BY <3>1, <4>1, <4>3, KeepStreams, Constants
            <4> QED
                BY <2>3, <4>2 DEF Adds
        <3> HIDE DEF k
        <3>4. \A i \in Nat : i \in new <=> first <= i /\ i < first + size
            BY <1>2, <2>1, <2>4, <3>1
        <3>5. ASSUME NEW i \in Nat, i >= next PROVE i \in known' <=> In(i, k.segs)
            <4>1. i \in known' <=> In(i, segs) \/ (first <= i /\ i < first + size)
                BY <1>4, <2>1, <3>4, <3>5
            <4>2. CASE /\ k.segs = segs
                       /\ \E t \in segs : t.begin = first /\ t.end = first + Len(data)
                <5>1. first <= i /\ i < first + size => In(i, segs)
                    BY <2>1, <4>2 DEF In
                <5> QED
                    BY <4>1, <4>2, <5>1
            <4>3. CASE \E s : /\ k.segs = segs \cup {s}
                              /\ s.begin = first /\ s.end = first + Len(data)
                <5>1. PICK s : /\ k.segs = segs \cup {s}
                               /\ s.begin = first /\ s.end = first + size
                    BY <2>1, <4>3
                <5>2. In(i, k.segs) <=> In(i, segs) \/ (first <= i /\ i < first + size)
                    BY <5>1 DEF In
                <5> QED
                    BY <4>1, <5>2
            <4> QED
                BY <3>3, <4>2, <4>3
        <3>6. \A i \in Nat : i < next => i \in known'
            BY <1>4, <2>1
        <3>7. reassembler'.next = next /\ reassembler'.segs = k.segs /\ pc' # "idle"
            BY <2>8, <3>2 DEF k
        <3> QED
            BY <3>5, <3>6, <3>7 DEF KnownInv
    <2> QED
        BY <2>2, <2>5, <2>6, <2>7, <2>8
<1>7. CASE InsertDrains
    <2> DEFINE d == DrainOne(reassembler)
               s == FirstSeg(segs)
    <2>1. segs # {} /\ s.begin <= next
        BY <1>7 DEF InsertDrains, Drains
    <2>2. /\ d.segs = segs \ {s}
          /\ next >= s.end => d.next = next
          /\ next < s.end => d.next = s.end
        BY <1>1, <2>1, DrainOneTyped, Constants
    <2>3. /\ s \in segs /\ s.begin \in Nat /\ s.end \in Nat
        BY <1>1, <2>1, FirstSegFields, Constants
    <2>4. reassembler' = d /\ known' = known /\ pc' # "idle"
        BY <1>7 DEF InsertDrains
    <2> HIDE DEF d, s, next, segs, edge
    <2>5. d.next \in Nat /\ next <= d.next /\ s.end <= d.next
        BY <1>2, <2>2, <2>3
    <2>6. ASSUME NEW i \in Nat, i >= d.next PROVE i \in known <=> In(i, d.segs)
        <3>1. i >= next /\ ~(i < s.end)
            BY <1>2, <2>3, <2>5, <2>6
        <3>2. In(i, segs) <=> In(i, d.segs)
            BY <2>2, <3>1 DEF In
        <3> QED
            BY <1>4, <3>1, <3>2
    <2>7. ASSUME NEW i \in Nat, i < d.next PROVE i \in known
        <3>1. CASE i < next
            BY <1>4, <3>1
        <3>2. CASE ~(i < next)
            <4>1. i >= next /\ s.begin <= i /\ i < s.end
                BY <1>2, <2>1, <2>2, <2>3, <2>7, <3>2
            <4>2. In(i, segs)
                BY <2>3, <4>1 DEF In
            <4> QED
                BY <1>4, <4>1, <4>2
        <3> QED
            BY <3>1, <3>2
    <2> QED
        BY <2>4, <2>6, <2>7 DEF KnownInv
<1>8. CASE InsertEnds
    <2>1. /\ reassembler'.segs = segs /\ reassembler'.next = next /\ known' = known
        BY <1>1, <1>8, CloseTyped, Constants DEF InsertEnds
    <2>2. ASSUME NEW t \in segs PROVE t.begin > next
        <3>1. segs # {}
            BY <2>2
        <3>2. ~(FirstSeg(segs).begin <= next)
            BY <1>8, <3>1 DEF InsertEnds, Drains
        <3>3. FirstSeg(segs).begin \in Nat /\ FirstSeg(segs).begin <= t.begin
            BY <1>1, <2>2, <3>1, FirstSegFields, Constants
        <3>4. t.begin \in Nat
            BY <1>3
        <3> HIDE DEF next, segs
        <3> QED
            BY <1>2, <3>2, <3>3, <3>4
    <2> QED
        BY <1>4, <2>1, <2>2 DEF KnownInv
<1>9. ASSUME NEW len \in 1 .. Capacity, ReaderPops(len) PROVE KnownInv'
    <2>1. len \in Nat /\ len <= Buffered(reassembler.output)
        BY <1>9, Constants DEF ReaderPops
    <2>2. /\ reassembler'.segs = segs /\ reassembler'.next = next
          /\ known' = known /\ pc' = pc
        BY <1>1, <1>9, <2>1, PopTyped, Constants DEF ReaderPops
    <2> QED
        BY <1>4, <2>2 DEF KnownInv
<1>10. CASE UNCHANGED vars
    BY <1>10 DEF KnownInv, vars
<1> QED
    BY <1>6, <1>7, <1>8, <1>9, <1>10 DEF Next, Given

LEMMA SpecKnownInv ==
    ASSUME OverrunPending = 0
    PROVE  Spec => [](TypeInv /\ StreamInv /\ KnownInv)
<1>1. Init => KnownInv
    BY InitKnownInv
<1>2. TypeInv /\ StreamInv /\ KnownInv /\ [Next]_vars => KnownInv'
    BY NextKnownInv
<1>3. Spec => [](TypeInv /\ StreamInv)
    BY SpecStreamInv
<1> QED
    BY <1>1, <1>2, <1>3, PTL DEF Spec

\* Between calls, every byte learned that fitted the window when it came is
\* written or pending, and nothing else is: no byte is forgotten when segments
\* are merged, dropped or cleared (reassembler.hh:27-32), the next byte is
\* never left waiting once it is known (reassembler.hh:24-25), and with what is
\* buffered all of it fits the capacity.
THEOREM NothingForgotten ==
    ASSUME OverrunPending = 0
    PROVE  Spec => []PendingIsWhatIsKnown
<1>1. TypeInv /\ StreamInv /\ KnownInv => PendingIsWhatIsKnown
    <2> SUFFICES ASSUME TypeInv, StreamInv, KnownInv PROVE PendingIsWhatIsKnown
        OBVIOUS
    <2> DEFINE next == reassembler.next
               segs == reassembler.segs
               edge == WindowEdge(reassembler)
    <2>1. Typed(reassembler, Capacity, StreamLen) /\ Streams(reassembler, StreamLen)
        BY DEF TypeInv, StreamInv
    <2>2. /\ next \in Nat /\ edge \in Nat /\ segs \in SUBSET SegType
          /\ edge = next + Available(reassembler.output)
        BY <2>1, TypedFields, Constants
    <2>3. \A s \in segs : s.end <= edge
        BY <2>1 DEF SegRight, Streams
    <2>4. /\ \A i \in Nat : i >= next => (i \in known <=> In(i, segs))
          /\ \A i \in Nat : i < next => i \in known
          /\ pc = "idle" => \A s \in segs : s.begin > next
        BY DEF KnownInv
    <2>5. \A s \in segs : s.begin \in Nat /\ s.end \in Nat
        BY <2>2 DEF SegType
    <2>6. \A i \in Int : i \in Pending <=> In(i, segs)
        BY PendingBytes DEF In
    <2>7. known \subseteq Nat
        <3>1. 0 .. StreamLen - 1 \subseteq Nat
            BY Constants
        <3> QED
            BY <3>1 DEF TypeInv
    <2>8. Pending \subseteq Nat
        <3> SUFFICES ASSUME NEW s \in segs, NEW i \in s.begin .. s.end - 1
                     PROVE  i \in Nat
            BY DEF Pending
        <3> QED
            BY <2>5
    <2> HIDE DEF next, segs, edge
    <2>9. ASSUME pc = "idle"
          PROVE  /\ Pending = {i \in known : i >= next}
                 /\ 0 .. next - 1 \subseteq known
                 /\ next \notin known
                 /\ Cardinality(Pending) + Buffered(reassembler.output) <= Capacity
        <3>1. ASSUME NEW i \in Nat, In(i, segs) PROVE i > next /\ i < edge
            <4>1. PICK s \in segs : s.begin <= i /\ i < s.end
                BY <3>1 DEF In
            <4>2. s.begin > next /\ s.end <= edge /\ s.begin \in Nat /\ s.end \in Nat
                BY <2>3, <2>4, <2>5, <2>9
            <4> QED
                BY <2>2, <4>1, <4>2
        <3>2. \A i \in Nat : i \in Pending => i > next /\ i < edge
            BY <2>6, <3>1
        <3>3. Pending = {i \in known : i >= next}
            <4>1. ASSUME NEW i \in Nat PROVE i \in Pending <=> i \in known /\ i >= next
                <5>1. CASE i >= next
                    BY <2>4, <2>6, <5>1
                <5>2. CASE ~(i >= next)
                    <6>1. ~(i > next)
                        BY <2>2, <5>2
                    <6> QED
                        BY <3>2, <5>2, <6>1
                <5> QED
                    BY <5>1, <5>2
            <4> QED
                BY <2>7, <2>8, <4>1
        <3>4. 0 .. next - 1 \subseteq known
            BY <2>2, <2>4
        <3>5. next \notin known
            <4>1. next \in Pending <=> next \in known
                BY <2>2, <2>4, <2>6
            <4>2. ~(next > next)
                BY <2>2
            <4> QED
                BY <2>2, <3>2, <4>1, <4>2
        <3>6. Cardinality(Pending) + Buffered(reassembler.output) <= Capacity
            <4> DEFINE av == Available(reassembler.output)
                       b  == Buffered(reassembler.output)
                       here == next + 1 .. edge - 1
            <4>1. Pending \subseteq here
                BY <2>2, <2>8, <3>2
            <4>2. /\ b \in Nat /\ av \in Nat /\ av = Capacity - b /\ edge = next + av
                BY <2>1, <2>2, InPlaceNumbers DEF Streams, Typed
            <4>3. IsFiniteSet(here)
                  /\ Cardinality(here) = IF next + 1 > edge - 1 THEN 0
                                                ELSE (edge - 1) - (next + 1) + 1
                BY <2>2, next + 1 \in Int, edge - 1 \in Int, FS_Interval
            <4>4. Cardinality(Pending) <= Cardinality(here) /\ IsFiniteSet(Pending)
                BY <4>1, <4>3, FS_Subset
            <4>5. Cardinality(Pending) \in Nat /\ Cardinality(here) \in Nat
                BY <4>3, <4>4, FS_CardinalityType
            <4> DEFINE c == Cardinality(Pending)
                       h == Cardinality(here)
            <4> HIDE DEF av, b, here, c, h
            <4>6. h <= av
                BY <2>2, <4>2, <4>3 DEF h
            <4>7. c + b <= Capacity
                <5>1. c <= h /\ c \in Nat /\ h \in Nat
                    BY <4>4, <4>5 DEF c, h
                <5> QED
                    BY <4>2, <4>6, <5>1, Constants
            <4> QED
                BY <4>7 DEF c, b
        <3> QED
            BY <3>3, <3>4, <3>5, <3>6
    <2> QED
        BY <2>3, <2>9 DEF PendingIsWhatIsKnown, next, segs, edge
<1> QED
    BY <1>1, SpecKnownInv, PTL

-----------------------------------------------------------------------------
(***************************************************************************)
(* The end of the stream.                                                  *)
(***************************************************************************)
\* A peer that flags every substring that reaches the end has flagged one when
\* the end is written or held; between calls the stream is closed when its end
\* is known and reached.
CloseInv ==
    /\ finHabit = "with data" /\ StreamLen > 0 =>
         /\ reassembler.next = StreamLen => reassembler.hasLast
         /\ \A s \in reassembler.segs : s.end = StreamLen => reassembler.hasLast
    /\ pc = "idle" /\ reassembler.hasLast /\ reassembler.next = StreamLen
         => reassembler.output.closed

LEMMA InitCloseInv == Init => CloseInv
<1> SUFFICES ASSUME Init PROVE CloseInv
    OBVIOUS
<1>1. reassembler.segs = {} /\ reassembler.next = 0 /\ reassembler.hasLast = FALSE
    BY DEF Init, NewReassembler
<1>2. ~(StreamLen > 0 /\ 0 = StreamLen)
    BY Constants
<1> QED
    BY <1>1, <1>2 DEF CloseInv

LEMMA NextCloseInv ==
    ASSUME OverrunPending = 0, "mixed" \notin FinHabits
    PROVE  TypeInv /\ StreamInv /\ CloseInv /\ [Next]_vars => CloseInv'
<1> SUFFICES ASSUME TypeInv, StreamInv, CloseInv, [Next]_vars
             PROVE  CloseInv'
    OBVIOUS
<1> DEFINE next == reassembler.next
           segs == reassembler.segs
           edge == WindowEdge(reassembler)
           withData == finHabit = "with data" /\ StreamLen > 0
<1>1. Typed(reassembler, Capacity, StreamLen) /\ Streams(reassembler, StreamLen)
    BY DEF TypeInv, StreamInv
<1>2. next \in Nat /\ edge \in Nat /\ next <= edge /\ next <= StreamLen
    BY <1>1, TypedFields, Constants DEF Streams
<1>3. finHabit = "with data" \/ finHabit = "bare"
    BY ConstantsAssumption DEF TypeInv
<1>4. /\ withData /\ next = StreamLen => reassembler.hasLast
      /\ withData => \A s \in segs : s.end = StreamLen => reassembler.hasLast
      /\ pc = "idle" /\ reassembler.hasLast /\ next = StreamLen
            => reassembler.output.closed
    BY DEF CloseInv
<1>5. ASSUME NEW first, NEW size, NEW isLast, Given(first, size, isLast)
      PROVE  CloseInv'
    <2> DEFINE data  == BytesFrom(first, first + size)
               noted == NoteLast(reassembler, first, data, isLast)
    <2>1. /\ first \in Nat /\ size \in Nat /\ first + size <= StreamLen
          /\ data \in Seq(Nat) /\ Len(data) = size
          /\ pc = "idle" /\ finHabit' = finHabit
        BY <1>5, BeginCases
    <2>2. \/ /\ first < next /\ first + size <= next
             /\ reassembler' = noted /\ pc' = "idle"
          \/ /\ first > next /\ first >= edge
             /\ reassembler' = noted /\ pc' = "idle"
          \/ /\ first <= next /\ next <= first + size
             /\ first < next => next < first + size
             /\ reassembler' = WriteNow(noted, first, data) /\ pc' = "drain"
          \/ /\ first > next /\ first < edge
             /\ reassembler' = Keep(noted, first, data) /\ pc' = "drain"
        BY <1>5, BeginCases
    <2>3. /\ LiesAt(data, first)
          /\ first > next => first + size <= edge
          /\ Typed(noted, Capacity, StreamLen) /\ Streams(noted, StreamLen)
          /\ noted.next = next /\ noted.segs = segs /\ WindowEdge(noted) = edge
          /\ noted.output = reassembler.output
          /\ noted.hasLast <=> (reassembler.hasLast \/ isLast)
        BY <1>5, GivenWithin
    <2>4. /\ isLast => first + size = StreamLen
          /\ finHabit = "with data" /\ first + size = StreamLen => isLast
          /\ finHabit = "bare" /\ isLast => size = 0
        <3>1. isLast \in FlagsFor(first, size)
            BY <1>5 DEF Given
        <3> QED
            BY <3>1 DEF FlagsFor
    <2> HIDE DEF data, noted, next, segs, edge
    <2>5. withData /\ next = StreamLen => noted.hasLast
        BY <1>4, <2>3
    <2>6. withData => \A s \in segs : s.end = StreamLen => noted.hasLast
        BY <1>4, <2>3
    <2>7. ASSUME reassembler' = noted, pc' = "idle",
                 noted.hasLast /\ next = StreamLen => noted.output.closed
          PROVE  CloseInv'
        BY <2>1, <2>3, <2>5, <2>6, <2>7 DEF CloseInv
    <2>8. CASE /\ first < next /\ first + size <= next
               /\ reassembler' = noted /\ pc' = "idle"
        <3>1. ASSUME noted.hasLast, next = StreamLen PROVE reassembler.hasLast
            <4>1. CASE finHabit = "with data"
                <5>1. StreamLen > 0
                    BY <1>2, <2>1, <2>8, <3>1
                <5> QED
                    BY <1>4, <3>1, <4>1, <5>1
            <4>2. CASE finHabit = "bare"
                <5>1. isLast => first = StreamLen
                    BY <2>1, <2>4, <4>2
                <5>2. ~isLast
                    BY <1>2, <2>1, <2>8, <3>1, <5>1
                <5> QED
                    BY <2>3, <3>1, <5>2
            <4> QED
                BY <1>3, <4>1, <4>2
        <3>2. noted.hasLast /\ next = StreamLen => noted.output.closed
            BY <1>4, <2>1, <2>3, <3>1
        <3> QED
            BY <2>7, <2>8, <3>2
    <2>9. CASE /\ first > next /\ first >= edge
               /\ reassembler' = noted /\ pc' = "idle"
        <3>1. next # StreamLen
            BY <1>2, <2>1, <2>9
        <3> QED
            BY <2>7, <2>9, <3>1
    <2>10. CASE /\ first <= next /\ next <= first + size
                /\ reassembler' = WriteNow(noted, first, data) /\ pc' = "drain"
        <3> DEFINE w == WriteNow(noted, first, data)
                   fills == FillsWindow(noted, first, data)
        <3>1. /\ w.next = Least(first + size, edge)
              /\ w.segs = IF fills THEN {} ELSE segs
              /\ w.hasLast = noted.hasLast
            <4>1. first <= noted.next /\ noted.next <= first + Len(data)
                BY <2>1, <2>3, <2>10
            <4>2. Typed(noted, Capacity, StreamLen)
                BY <2>3
            <4>3. first \in Nat /\ data \in Seq(Nat)
                BY <2>1
            <4>5. w = WriteNow(noted, first, data) /\ fills = FillsWindow(noted, first, data)
                OBVIOUS
            <4> HIDE DEF w, fills
            <4>4. /\ Typed(w, Capacity, StreamLen)
                  /\ w.next = Least(first + Len(data), WindowEdge(noted))
                  /\ w.segs = IF fills THEN {} ELSE noted.segs
                  /\ w.hasLast = noted.hasLast
                BY <4>1, <4>2, <4>3, <4>5, WriteNowTyped, Constants
            <4> QED
                BY <2>1, <2>3, <4>4
        <3> HIDE DEF w, fills
        <3>2. w.next \in Nat /\ w.next <= first + size
            BY <1>2, <2>1, <3>1 DEF Least
        <3>3. w.next = StreamLen => first + size = StreamLen
            BY <2>1, <3>2
        <3>4. withData /\ w.next = StreamLen => w.hasLast
            BY <2>3, <2>4, <3>1, <3>3
        <3>5. withData => \A s \in w.segs : s.end = StreamLen => w.hasLast
            BY <2>6, <3>1
        <3>6. reassembler' = w /\ pc' # "idle"
            BY <2>10 DEF w
        <3> QED
            BY <2>1, <3>4, <3>5, <3>6 DEF CloseInv
    <2>11. CASE /\ first > next /\ first < edge
                /\ reassembler' = Keep(noted, first, data) /\ pc' = "drain"
        <3> DEFINE k == Keep(noted, first, data)
        <3>1. /\ first <= WindowEdge(noted) /\ first + Len(data) <= WindowEdge(noted)
              /\ first + Len(data) <= StreamLen /\ Len(data) = size
            BY <1>2, <2>1, <2>3, <2>11
        <3>2. k.next = next /\ k.hasLast = noted.hasLast
            BY <2>1, <2>3, <3>1, KeepTyped, Constants
        <3>6. k = Keep(noted, first, data)
            OBVIOUS
        <3> HIDE DEF k
        <3>3. \/ k.segs = noted.segs
              \/ \E s : k.segs = noted.segs \cup {s} /\ s.end = first + Len(data)
            <4>1. /\ Typed(noted, Capacity, StreamLen) /\ Streams(noted, StreamLen) /\ LiesAt(data, first)
                  /\ first \in Nat /\ data \in Seq(Nat)
                BY <2>1, <2>3
            <4>2. /\ first + Len(data) <= WindowEdge(noted)
                  /\ first + Len(data) <= StreamLen
                BY <3>1
            <4>3. Adds(k.segs, noted.segs, first, first + Len(data))
                BY <3>6, <4>1, <4>2, KeepStreams, Constants
            <4> QED
                BY <4>3 DEF Adds
        <3>4. withData => \A s \in k.segs : s.end = StreamLen => k.hasLast
            <4> SUFFICES ASSUME withData, NEW s \in k.segs, s.end = StreamLen
                         PROVE  noted.hasLast
                BY <3>2
            <4>1. CASE s \in segs
                BY <2>6, <4>1
            <4>2. CASE s \notin segs
                <5>1. s.end = first + size
                    BY <2>3, <3>1, <3>3, <4>2
                <5> QED
                    BY <2>3, <2>4, <5>1
            <4> QED
                BY <4>1, <4>2
        <3>5. reassembler' = k /\ pc' # "idle"
            BY <2>11 DEF k
        <3> QED
            BY <2>1, <2>5, <3>2, <3>4, <3>5 DEF CloseInv
    <2> QED
        BY <2>2, <2>8, <2>9, <2>10, <2>11
<1>6. CASE InsertDrains
    <2> DEFINE d == DrainOne(reassembler)
               s == FirstSeg(segs)
    <2>1. segs # {} /\ s.begin <= next
        BY <1>6 DEF InsertDrains, Drains
    <2>2. /\ d.segs = segs \ {s} /\ d.hasLast = reassembler.hasLast
          /\ next >= s.end => d.next = next
          /\ next < s.end => d.next = s.end
        BY <1>1, <2>1, DrainOneTyped, Constants
    <2>3. s \in segs /\ s.end \in Nat
        BY <1>1, <2>1, FirstSegFields, Constants
    <2>4. reassembler' = d /\ finHabit' = finHabit /\ pc' # "idle"
        BY <1>6 DEF InsertDrains
    <2> HIDE DEF d, s, next, segs, edge
    <2>5. d.next = next \/ d.next = s.end
        BY <1>2, <2>2, <2>3
    <2>6. withData /\ d.next = StreamLen => d.hasLast
        BY <1>4, <2>2, <2>3, <2>5
    <2>7. withData => \A t \in d.segs : t.end = StreamLen => d.hasLast
        BY <1>4, <2>2
    <2> QED
        BY <2>4, <2>6, <2>7 DEF CloseInv
<1>7. CASE InsertEnds
    <2> DEFINE c == CloseIfComplete(reassembler)
    <2>1. /\ c.segs = segs /\ c.next = next /\ c.hasLast = reassembler.hasLast
          /\ c.output = IF reassembler.hasLast /\ next = reassembler.last
                        THEN Close(reassembler.output) ELSE reassembler.output
        BY <1>1, CloseTyped, Constants
    <2>2. reassembler' = c /\ finHabit' = finHabit
        BY <1>7 DEF InsertEnds
    <2>3. reassembler.hasLast => reassembler.last = StreamLen
        BY <1>1 DEF Streams
    <2>4. InPlace(reassembler.output)
        BY <1>1 DEF Streams
    <2>5. Close(reassembler.output).closed
        BY <2>4, MarksInPlace
    <2> HIDE DEF c, next, segs, edge
    <2>6. c.hasLast /\ c.next = StreamLen => c.output.closed
        BY <2>1, <2>3, <2>5
    <2> QED
        BY <1>4, <2>1, <2>2, <2>6 DEF CloseInv
<1>8. ASSUME NEW len \in 1 .. Capacity, ReaderPops(len) PROVE CloseInv'
    <2> DEFINE p == [reassembler EXCEPT !.output = Pop(reassembler.output, len)]
    <2>1. len \in Nat /\ len <= Buffered(reassembler.output)
        BY <1>8, Constants DEF ReaderPops
    <2>2. /\ p.segs = segs /\ p.next = next /\ p.hasLast = reassembler.hasLast
        BY <1>1, <2>1, PopTyped, Constants
    <2>3. Streams(p, StreamLen) /\ p.output.closed = reassembler.output.closed
        BY <1>1, <2>1, PopStreams, Constants
    <2>4. reassembler' = p /\ finHabit' = finHabit /\ pc' = pc
        BY <1>8 DEF ReaderPops
    <2> HIDE DEF p, next, segs, edge
    <2> QED
        BY <1>4, <2>2, <2>3, <2>4 DEF CloseInv
<1>9. CASE UNCHANGED vars
    BY <1>9 DEF CloseInv, vars
<1> QED
    BY <1>5, <1>6, <1>7, <1>8, <1>9 DEF Next, Given

\* Between calls the stream is closed exactly when its end is known and all of
\* it has been written (reassembler.hh:34), for a peer that flags the end of
\* its stream in one of the two honest ways.  The second half needs the habit:
\* after a flag on old data, the early return of line 21 would leave a stream
\* that is complete unclosed.
THEOREM ClosedRight ==
    ASSUME OverrunPending = 0, "mixed" \notin FinHabits
    PROVE  Spec => []ClosedWhenComplete
<1>1. TypeInv /\ StreamInv /\ CloseInv => ClosedWhenComplete
    <2> SUFFICES ASSUME StreamInv, CloseInv, pc = "idle"
                 PROVE  reassembler.output.closed <=>
                            reassembler.hasLast /\ reassembler.next = reassembler.last
        BY DEF ClosedWhenComplete
    <2>1. /\ reassembler.hasLast => reassembler.last = StreamLen
          /\ reassembler.output.closed => reassembler.hasLast /\ reassembler.next = StreamLen
        BY DEF StreamInv, Streams
    <2>2. reassembler.hasLast /\ reassembler.next = StreamLen => reassembler.output.closed
        BY DEF CloseInv
    <2> QED
        BY <2>1, <2>2
<1>2. Init => CloseInv
    BY InitCloseInv
<1>3. TypeInv /\ StreamInv /\ CloseInv /\ [Next]_vars => CloseInv'
    BY NextCloseInv
<1>4. Spec => [](TypeInv /\ StreamInv)
    BY SpecStreamInv
<1>5. Spec => [](TypeInv /\ StreamInv /\ CloseInv)
    BY <1>2, <1>3, <1>4, PTL DEF Spec
<1> QED
    BY <1>1, <1>5, PTL
=============================================================================
