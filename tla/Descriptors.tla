---------------------------- MODULE Descriptors ----------------------------
(***************************************************************************)
(* What src/util/file_descriptor.cc and src/util/socket.cc do to one       *)
(* direction of a pipe or a local stream socket, a record:                 *)
(*                                                                         *)
(*   buf, cap  the bytes on their way, and how many the kernel takes       *)
(*   shut      the writing end is closed or shut down                      *)
(*   gone      the reading end is closed                                   *)
(*   broken    a write has failed: SIGPIPE after either of those, or an    *)
(*             exception because not a byte was taken                      *)
(*                                                                         *)
(* All descriptors are non-blocking.                                       *)
(***************************************************************************)
EXTENDS Integers, Sequences, Fifo

NewChannel(capacity) ==
    [buf |-> << >>, cap |-> capacity, shut |-> FALSE, gone |-> FALSE,
     broken |-> FALSE]

Space(c)    == c.cap - Len(c.buf)
Readable(c) == c.buf # << >>

\* read( buffer ): at most n bytes; none at all is the end of the file, unless
\* the call would have blocked.
ReadBytes(c, n) == SubSeq(c.buf, 1, Least(n, Len(c.buf)))
AfterRead(c, n) == [c EXCEPT !.buf = SubSeq(c.buf, Least(n, Len(c.buf)) + 1,
                                            Len(c.buf))]
ReadsEof(c)     == ~Readable(c) /\ c.shut

\* write( buffer ) of at least a byte: how many were taken.  None are by a
\* channel that is shut or that nobody reads.
Deaf(c)           == c.shut \/ c.gone
Written(c, data)  == IF Deaf(c) THEN 0 ELSE Least(Space(c), Len(data))
AfterWrite(c, data) ==
    [c EXCEPT !.buf = c.buf \o SubSeq(data, 1, Written(c, data)),
              !.broken = @ \/ Written(c, data) = 0]

Shutdown(c) == [c EXCEPT !.shut = TRUE]

(***************************************************************************)
(* The two halves of every callback that moves bytes: read what a stream   *)
(* has room for and close it at the end of the file; write what a stream   *)
(* has and pop what was taken.                                             *)
(***************************************************************************)
Fill(stream, c) ==
    LET pushed == Push(stream, ReadBytes(c, Available(stream)))
    IN  [stream |-> IF ReadsEof(c) THEN Close(pushed) ELSE pushed,
         channel |-> AfterRead(c, Available(stream))]

DrainPopsAll(stream, c) ==       \* mutant: a partial write counts as whole
    IF stream.buf = << >> THEN [stream |-> stream, channel |-> c]
    ELSE [stream |-> Pop(stream, Buffered(stream)),
          channel |-> AfterWrite(c, stream.buf)]
Drain(stream, c) ==
    IF stream.buf = << >> THEN [stream |-> stream, channel |-> c]
    ELSE [stream |-> Pop(stream, Written(c, stream.buf)),
          channel |-> AfterWrite(c, stream.buf)]
=============================================================================
