------------------------------ MODULE ByteFifo ------------------------------
(***************************************************************************)
(* The abstract specification of a ByteStream: one writer and one reader   *)
(* share a bounded queue.  ByteStream.tla implements it.                   *)
(***************************************************************************)
EXTENDS Naturals, Sequences, Fifo

CONSTANTS
    Capacity,   \* the stream's capacity
    Writes      \* the strings a writer may push

VARIABLE fifo

Init == fifo = NewFifo(Capacity)

Next ==
    \/ \E data \in Writes : fifo' = Push(fifo, data)
    \/ fifo' = Close(fifo)
    \/ fifo' = SetError(fifo)
    \/ \E len \in 0 .. Capacity : fifo' = Pop(fifo, len)

Spec == Init /\ [][Next]_fifo
=============================================================================
