-------------------------------- MODULE Fifo --------------------------------
(***************************************************************************)
(* What src/src/byte_stream.hh promises of a ByteStream, as operators over *)
(* one record: a bounded first-in first-out queue of bytes with a close    *)
(* mark, an error mark and two running counts.                             *)
(*                                                                         *)
(* ByteStream.tla models the code itself (one string, two offsets) and is  *)
(* shown to implement these operators; every module that owns a byte       *)
(* stream (reassembler, sender, peer) uses them in its place.              *)
(***************************************************************************)
EXTENDS Integers, Sequences

Least(a, b) == IF a < b THEN a ELSE b
Flag(b)     == IF b THEN 1 ELSE 0             \* a bool used as a number

NewFifo(capacity) ==
    [cap |-> capacity, buf |-> <<>>, closed |-> FALSE, error |-> FALSE,
     pushed |-> 0, popped |-> 0]

Buffered(f)  == Len(f.buf)                    \* Reader::bytes_buffered
Available(f) == f.cap - Len(f.buf)            \* Writer::available_capacity
Finished(f)  == f.closed /\ f.buf = <<>>      \* Reader::is_finished

(***************************************************************************)
(* Writer::push takes as much of data as there is room for, and nothing    *)
(* once the stream is closed.  It looks at no mark of error.               *)
(***************************************************************************)
Room(f, data) == IF f.closed THEN 0 ELSE Least(Len(data), Available(f))

Push(f, data) ==
    [f EXCEPT !.buf = f.buf \o SubSeq(data, 1, Room(f, data)),
              !.pushed = f.pushed + Room(f, data)]

Close(f)    == [f EXCEPT !.closed = TRUE]
SetError(f) == [f EXCEPT !.error = TRUE]

(***************************************************************************)
(* Reader::pop removes len bytes, or all there are when len is larger.     *)
(***************************************************************************)
Gone(f, len) == Least(len, Buffered(f))

Pop(f, len) ==
    [f EXCEPT !.buf = SubSeq(f.buf, Gone(f, len) + 1, Len(f.buf)),
              !.popped = f.popped + Gone(f, len)]
=============================================================================
