----------------------------- MODULE StreamCopy -----------------------------
(***************************************************************************)
(* src/apps/bidirectional_stream_copy.cc: standard input to a socket and   *)
(* the socket to standard output, as the rules of an EventLoop over        *)
(*                                                                         *)
(*   st.k   the kernel: channels stdin, stdout, up (to the socket) and     *)
(*          down (from it)                                                 *)
(*   st.m   the function's variables: _outbound, _inbound,                 *)
(*          _outbound_shutdown, _inbound_shutdown, and the eof marks of    *)
(*          _input and socket                                              *)
(***************************************************************************)
EXTENDS Descriptors

NewCopy(capacity) ==
    [out |-> NewFifo(capacity), in |-> NewFifo(capacity),
     outShut |-> FALSE, inShut |-> FALSE, inputEof |-> FALSE, sockEof |-> FALSE]

CopyRules == << "input", "to socket", "from socket", "output" >>

CopyReads(r) == r \in {"input", "from socket"}

CopyAtEof(st, r) == IF r = "input" THEN st.m.inputEof ELSE st.m.sockEof

\* _output.close() is the only close.
CopyIsClosed(st, r) == r = "output" /\ st.m.inShut

NoErrors(m)   == ~m.out.error /\ ~m.in.error
HasRoom(f)    == Available(f) > 0 /\ ~f.closed
ToWrite(f, shut) == f.buf # << >> \/ (Finished(f) /\ ~shut)

CopyInterest(st, r) ==
    \/ r = "input"       /\ NoErrors(st.m) /\ HasRoom(st.m.out)
    \/ r = "to socket"   /\ ToWrite(st.m.out, st.m.outShut)
    \/ r = "from socket" /\ NoErrors(st.m) /\ HasRoom(st.m.in)
    \/ r = "output"      /\ ToWrite(st.m.in, st.m.inShut)

FromInput(st) ==
    LET f == Fill(st.m.out, st.k.stdin) IN
    [k |-> [st.k EXCEPT !.stdin = f.channel],
     m |-> [st.m EXCEPT !.out = f.stream, !.inputEof = @ \/ ReadsEof(st.k.stdin)]]

ToSocketHangsUp(st) ==              \* mutant: shutdown( SHUT_RDWR )
    LET d == Drain(st.m.out, st.k.up)
        over == Finished(d.stream)
    IN  [k |-> [st.k EXCEPT !.up = IF over THEN Shutdown(d.channel) ELSE d.channel,
                            !.down.shut = @ \/ over],
         m |-> [st.m EXCEPT !.out = d.stream, !.outShut = @ \/ over]]
ToSocket(st) ==
    LET d == Drain(st.m.out, st.k.up) IN
    [k |-> [st.k EXCEPT !.up = IF Finished(d.stream) THEN Shutdown(d.channel)
                                                   ELSE d.channel],
     m |-> [st.m EXCEPT !.out = d.stream, !.outShut = @ \/ Finished(d.stream)]]

FromSocket(st) ==
    LET f == Fill(st.m.in, st.k.down) IN
    [k |-> [st.k EXCEPT !.down = f.channel],
     m |-> [st.m EXCEPT !.in = f.stream, !.sockEof = @ \/ ReadsEof(st.k.down)]]

ToOutput(st) ==
    LET d == Drain(st.m.in, st.k.stdout) IN
    [k |-> [st.k EXCEPT !.stdout = IF Finished(d.stream) THEN Shutdown(d.channel)
                                                       ELSE d.channel],
     m |-> [st.m EXCEPT !.in = d.stream, !.inShut = @ \/ Finished(d.stream)]]

CopyCallback(st, r) ==
    CASE r = "input"       -> FromInput(st)
      [] r = "to socket"   -> ToSocket(st)
      [] r = "from socket" -> FromSocket(st)
      [] r = "output"      -> ToOutput(st)

\* read, write and shutdown count, close does not (but then it is closed).
CopyTouches(st, r) ==
    \/ r = "input" /\ (Readable(st.k.stdin) \/ ReadsEof(st.k.stdin))
    \/ r = "from socket" /\ (Readable(st.k.down) \/ ReadsEof(st.k.down))
    \/ r = "to socket" /\ ToWrite(st.m.out, FALSE)
    \/ r = "output" /\ st.m.in.buf # << >>

CopyCancel(st, r) ==
    IF r \in {"input", "to socket"}
      THEN [st EXCEPT !.m.out = Close(@)]
      ELSE [st EXCEPT !.m.in = Close(@)]

CopyFail(st, r) == [st EXCEPT !.m.out = SetError(@), !.m.in = SetError(@)]

Copy == INSTANCE EventLoop WITH
    Order <- CopyRules, Reads <- CopyReads, AtEof <- CopyAtEof,
    IsClosed <- CopyIsClosed, Interest <- CopyInterest,
    Callback <- CopyCallback, Touches <- CopyTouches, Cancel <- CopyCancel,
    Fail <- CopyFail
=============================================================================
