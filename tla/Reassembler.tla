---------------------------- MODULE Reassembler ----------------------------
(***************************************************************************)
(* The Reassembler of src/src/reassembler.cc at work: a peer's stream of   *)
(* StreamLen bytes arrives as substrings in any order, overlapping and     *)
(* repeated, while a reader pops what is reassembled.  A call of insert    *)
(* takes as many steps as its loop takes turns (pc), so that the loop can  *)
(* be reasoned about turn by turn; callers see only the states in between  *)
(* (pc = "idle").  A byte is the number of its place in the stream, so     *)
(* that one written out of place shows.                                    *)
(***************************************************************************)
EXTENDS ReassemblerOps

CONSTANTS
    Capacity,      \* capacity of the output stream
    StreamLen,     \* bytes in the peer's stream
    MaxSize,       \* bound: bytes in one substring
    FinHabits,     \* how the peer flags the end of the stream, see FlagsFor
    OverrunNow,    \* how far data that can be written may pass the window edge
    OverrunPending \* how far data beyond a gap may pass the window edge

ASSUME ConstantsAssumption ==
    /\ Capacity \in Nat \ {0} /\ StreamLen \in Nat /\ MaxSize \in Nat
    /\ FinHabits \subseteq {"with data", "bare", "mixed"}
    /\ OverrunNow \in Nat /\ OverrunPending \in Nat

VARIABLES
    reassembler,   \* the record of ReassemblerOps
    pc,            \* "drain" inside the loop of insert, else "idle"
    finHabit,      \* the peer's habit, chosen at the start
    known          \* history: bytes inserted that fitted the window then

vars == << reassembler, pc, finHabit, known >>

Init ==
    /\ reassembler = NewReassembler(Capacity)
    /\ pc = "idle"
    /\ finHabit \in FinHabits
    /\ known = {}

(***************************************************************************)
(* The peer flags every substring that reaches the end of its stream       *)
(* ("with data"), or only an empty one there ("bare", as a TCPSender does  *)
(* whose stream was closed after its last byte was sent), or any of them   *)
(* or none ("mixed").                                                      *)
(***************************************************************************)
FlagsFor(first, size) ==
    IF first + size # StreamLen THEN {FALSE}
    ELSE CASE finHabit = "with data" -> {TRUE}
           [] finHabit = "bare"      -> {size = 0}
           [] finHabit = "mixed"     -> BOOLEAN

\* The substrings the peer may send: parts of the stream that pass the window
\* edge by no more than the two constants allow.
Substring(first, size) ==
    /\ first + size <= StreamLen
    /\ first + size <= WindowEdge(reassembler) +
           (IF first <= reassembler.next THEN OverrunNow ELSE OverrunPending)

\* The bytes at the places a, a+1, ..., b-1 of the stream.
BytesFrom(a, b) == [i \in 1 .. b - a |-> a + i - 1]

\* Lines 10-59: the call up to its loop.
InsertBegins(first, data, isLast) ==
    LET noted == NoteLast(reassembler, first, data, isLast) IN
    /\ pc = "idle"
    /\ IF ReturnsEarly(noted, first, data)
         THEN /\ reassembler' = noted
              /\ pc' = "idle"
         ELSE /\ reassembler' = Place(noted, first, data)
              /\ pc' = "drain"
    /\ known' = known \cup
           {i \in first .. first + Len(data) - 1 : i < WindowEdge(reassembler)}
    /\ UNCHANGED finHabit

\* Lines 61-87: one turn of the loop that does not end it.
InsertDrains ==
    /\ pc = "drain"
    /\ Drains(reassembler)
    /\ reassembler' = DrainOne(reassembler)
    /\ UNCHANGED << pc, finHabit, known >>

\* Lines 64-66 and 89-92: the loop ends and the call returns.
InsertEnds ==
    /\ pc = "drain"
    /\ ~Drains(reassembler)
    /\ reassembler' = CloseIfComplete(reassembler)
    /\ pc' = "idle"
    /\ UNCHANGED << finHabit, known >>

\* The reader of the output stream pops up to len bytes.
ReaderPops(len) ==
    /\ pc = "idle"
    /\ len <= Buffered(reassembler.output)
    /\ reassembler' = [reassembler EXCEPT !.output = Pop(reassembler.output, len)]
    /\ UNCHANGED << pc, finHabit, known >>

Next ==
    \/ \E first \in 0 .. StreamLen, size \in 0 .. MaxSize :
          /\ Substring(first, size)
          /\ \E isLast \in FlagsFor(first, size) :
                InsertBegins(first, BytesFrom(first, first + size), isLast)
    \/ InsertDrains
    \/ InsertEnds
    \/ \E len \in 1 .. Capacity : ReaderPops(len)

Spec == Init /\ [][Next]_vars

-----------------------------------------------------------------------------
TypeOK ==
    /\ reassembler.segs \subseteq SegType
    /\ \A s \in reassembler.segs : s.begin <= s.end /\ s.end <= s.begin + Len(s.data)
    /\ reassembler.next \in Nat /\ reassembler.last \in Nat
    /\ reassembler.hasLast \in BOOLEAN
    /\ reassembler.output.buf \in Seq(Nat)
    /\ Available(reassembler.output) \in 0 .. Capacity
    /\ pc \in {"idle", "drain"}
    /\ finHabit \in FinHabits
    /\ known \subseteq 0 .. StreamLen - 1

\* What has been written is the peer's stream from its start, each byte once
\* and in its place, and next_ says how much that is (reassembler.hh:23-25):
\* no overlap, repetition or order of arrival writes a byte twice or skips one.
OutputIsStreamPrefix ==
    LET out == reassembler.output IN
    /\ out.pushed = reassembler.next
    /\ out.buf = BytesFrom(out.popped, out.pushed)

Pending == UNION {s.begin .. s.end - 1 : s \in reassembler.segs}

\* Between calls, every byte learned that fitted the window when it came has
\* either been written or is pending, and nothing else is
\* (reassembler.hh:27-32): no byte is forgotten when segments are merged,
\* dropped or cleared, and the next byte of the stream is never left waiting
\* once it is known (reassembler.hh:24-25).  All of it has its place within
\* the window and, with what is buffered, within the capacity, also after the
\* reader has moved the window.
PendingIsWhatIsKnown ==
    /\ \A s \in reassembler.segs : s.end <= WindowEdge(reassembler)
    /\ pc = "idle" =>
         /\ Pending = {i \in known : i >= reassembler.next}
         /\ 0 .. reassembler.next - 1 \subseteq known
         /\ reassembler.next \notin known
         /\ Cardinality(Pending) + Buffered(reassembler.output) <= Capacity

\* bytes_pending() (reassembler.cc:94-125), which walks overlapping and nested
\* segments once, is the number of distinct bytes held.
BytesPendingCountsOnce == BytesPending(reassembler) = Cardinality(Pending)

\* Between calls the stream is closed exactly when its end is known and all of
\* it has been written (reassembler.hh:34).
ClosedWhenComplete ==
    pc = "idle" =>
        (reassembler.output.closed <=>
            reassembler.hasLast /\ reassembler.next = reassembler.last)

=============================================================================
