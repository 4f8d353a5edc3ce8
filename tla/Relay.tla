------------------------------- MODULE Relay -------------------------------
(***************************************************************************)
(* What a program that copies a stream through a connection promises: two  *)
(* directions, each of which hands on every byte once and in order and     *)
(* ends, after the last of them, only when its source has ended.  Once     *)
(* something has failed a direction may end too early.                     *)
(***************************************************************************)
EXTENDS Naturals, Sequences

VARIABLES
    up, down,   \* each [transit, left, closed, ended]: the bytes under way,
                \* those handed on, and whether source and sink have ended
    failed

vars == << up, down, failed >>

Empty == [transit |-> << >>, left |-> << >>, closed |-> FALSE, ended |-> FALSE]

Init == up = Empty /\ down = Empty /\ failed = FALSE

\* One step of a direction d, which becomes e.
Enters(d, e) ==
    /\ ~d.closed
    /\ e = [d EXCEPT !.transit = Append(@, Len(d.left) + Len(@) + 1)]

Closes(d, e) == e = [d EXCEPT !.closed = TRUE]

\* Some bytes leave, and with the last of them perhaps the end.
Leaves(d, e) ==
    \E n \in 0 .. Len(d.transit) : \E last \in BOOLEAN :
        /\ last => failed \/ (d.closed /\ n = Len(d.transit))
        /\ e = [d EXCEPT !.transit = SubSeq(@, n + 1, Len(@)),
                         !.left = @ \o SubSeq(d.transit, 1, n),
                         !.ended = @ \/ last]

Step(d, e) == Enters(d, e) \/ Closes(d, e) \/ Leaves(d, e)

Next ==
    \/ Step(up, up') /\ UNCHANGED << down, failed >>
    \/ Step(down, down') /\ UNCHANGED << up, failed >>
    \/ failed' = TRUE /\ UNCHANGED << up, down >>

Spec == Init /\ [][Next]_vars
=============================================================================
