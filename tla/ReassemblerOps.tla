--------------------------- MODULE ReassemblerOps ---------------------------
(***************************************************************************)
(* src/src/reassembler.cc as operators over one record                     *)
(*                                                                         *)
(*     [segs, next, last, hasLast, output]                                 *)
(*                                                                         *)
(* where output is the ByteStream (Fifo.tla) the Reassembler writes to and *)
(* segs its set of pending segments.  A pending segment has the keys       *)
(* begin and end and the string data, which the code does not cut when it  *)
(* cuts end at the window.  index_ is 0 in every segment the code makes.   *)
(***************************************************************************)
EXTENDS Integers, Sequences, FiniteSets, Fifo

SegType == [begin : Nat, end : Nat, data : Seq(Nat)]

NewReassembler(capacity) ==
    [segs |-> {}, next |-> 0, last |-> 0, hasLast |-> FALSE,
     output |-> NewFifo(capacity)]

\* The part of a string from its byte at offset i on, and up to offset j.
From(data, i)      == SubSeq(data, i + 1, Len(data))
Within(data, i, j) == SubSeq(data, i + 1, j)

\* The first place the output has no room for: next_ + avail_cap_.
WindowEdge(r) == r.next + Available(r.output)

(***************************************************************************)
(* insert( first_index, data, is_last_substring ), in the order of the     *)
(* code: note the end of the stream; return at once when the data is all   *)
(* old or all beyond the window; else write or keep it; then drain the     *)
(* pending segments and close the output when the end is reached.          *)
(***************************************************************************)
NoteLast(r, first, data, isLast) ==
    IF isLast THEN [r EXCEPT !.last = first + Len(data), !.hasLast = TRUE] ELSE r

ReturnsEarly(r, first, data) ==
    \/ first < r.next /\ first + Len(data) <= r.next
    \/ first > r.next /\ first >= WindowEdge(r)

\* Data that covers next_ is written at once, as much as there is room for.
\* If it fills the window, whatever is pending is now old.
FillsWindow(r, first, data) ==
    IF first < r.next THEN first + Len(data) >= WindowEdge(r)
                      ELSE first + Len(data) > WindowEdge(r)

WriteNow(r, first, data) ==
    [r EXCEPT !.output = Push(r.output, From(data, r.next - first)),
              !.next = Least(first + Len(data), WindowEdge(r)),
              !.segs = IF FillsWindow(r, first, data) THEN {} ELSE r.segs]

\* Data beyond a gap is kept.  A segment with the same keys stays as it is.
KeepLast(r, first, data) ==       \* mutant: one pending segment only
    [r EXCEPT !.segs = {[begin |-> first, data |-> data,
                         end |-> Least(first + Len(data), WindowEdge(r))]}]
KeepInclusive(r, first, data) ==  \* mutant: end counts one byte too many
    [r EXCEPT !.segs = r.segs \cup {[begin |-> first, data |-> data,
                                     end |-> first + Len(data) + 1]}]
Keep(r, first, data) ==
    LET s == [begin |-> first, data |-> data,
              end |-> Least(first + Len(data), WindowEdge(r))]
    IN  IF \E t \in r.segs : t.begin = s.begin /\ t.end = s.end
          THEN r
          ELSE [r EXCEPT !.segs = r.segs \cup {s}]

Place(r, first, data) ==
    IF first <= r.next THEN WriteNow(r, first, data) ELSE Keep(r, first, data)

(***************************************************************************)
(* The loop over the pending segments.  Each turn erases the segment it    *)
(* looks at or ends the loop, so it always looks at the first one left.    *)
(***************************************************************************)
Before(s, t) ==     \* seg::operator<: begin_ upwards, then end_ downwards
    s.begin < t.begin \/ (s.begin = t.begin /\ s.end > t.end)

FirstSeg(segs) ==
    CHOOSE s \in segs : \A t \in segs \ {s} : Before(s, t)

Drains(r) == r.segs # {} /\ FirstSeg(r.segs).begin <= r.next

DrainWhole(r) ==                  \* mutant: an overlapped head is written again
    LET s == FirstSeg(r.segs) IN
    IF r.next >= s.end
      THEN [r EXCEPT !.segs = r.segs \ {s}]
      ELSE [r EXCEPT !.segs = r.segs \ {s}, !.next = s.end,
                     !.output = Push(r.output, s.data)]
DrainOne(r) ==
    LET s == FirstSeg(r.segs)
        data == IF r.next = s.begin
                  THEN s.data
                  ELSE Within(s.data, r.next - s.begin, s.end - s.begin)
    IN  IF r.next >= s.end
          THEN [r EXCEPT !.segs = r.segs \ {s}]
          ELSE [r EXCEPT !.segs = r.segs \ {s}, !.next = s.end,
                         !.output = Push(r.output, data)]

CloseAnyway(r) == IF r.hasLast THEN [r EXCEPT !.output = Close(r.output)] ELSE r
                                  \* mutant: closes before the last byte
CloseIfComplete(r) ==
    IF r.hasLast /\ r.next = r.last THEN [r EXCEPT !.output = Close(r.output)]
                                    ELSE r

\* The whole loop: as many turns as there are segments, those after the break
\* being idle.
DrainTurn(r) == IF Drains(r) THEN DrainOne(r) ELSE r

DrainAll(r) ==
    LET after[turns \in 0 .. Cardinality(r.segs)] ==
            IF turns = 0 THEN r ELSE DrainTurn(after[turns - 1])
    IN  after[Cardinality(r.segs)]

Insert(r, first, data, isLast) ==
    LET noted == NoteLast(r, first, data, isLast) IN
    IF ReturnsEarly(noted, first, data)
      THEN noted
      ELSE CloseIfComplete(DrainAll(Place(noted, first, data)))

(***************************************************************************)
(* bytes_pending(): one pass over the segments in their order.  scan is    *)
(* what the loop carries: the bytes counted, and the end of the last       *)
(* segment that was not covered by those before it.                        *)
(***************************************************************************)
CountApart(scan, s) ==            \* mutant: overlaps counted twice
    [res |-> scan.res + (s.end - s.begin), end |-> s.end]
CountSeg(scan, s) ==
    IF s.end <= scan.end THEN scan
    ELSE IF s.begin <= scan.end
      THEN [res |-> scan.res + (s.end - scan.end), end |-> s.end]
      ELSE [res |-> scan.res + (s.end - s.begin), end |-> s.end]

InOrder(segs) ==
    [i \in 1 .. Cardinality(segs) |->
        CHOOSE s \in segs : Cardinality({t \in segs : Before(t, s)}) = i - 1]

BytesPending(r) ==
    LET order == InOrder(r.segs)
        scan[i \in 0 .. Cardinality(r.segs)] ==
            IF i = 0 THEN [res |-> 0, end |-> 0]
                     ELSE CountSeg(scan[i - 1], order[i])
    IN  scan[Cardinality(r.segs)].res
=============================================================================
