---------------------------- MODULE SocketThread ----------------------------
(***************************************************************************)
(* The thread of a TCPMinnowSocket (src/util/tcp_minnow_socket_impl.hh):   *)
(* the three rules of its EventLoop over                                   *)
(*                                                                         *)
(*   st.k   the kernel: channels up and down, the two directions of the    *)
(*          socket pair, and partner, the other end of the connection      *)
(*   st.m   _tcp with its two streams (out, in), and the thread's flags    *)
(*                                                                         *)
(* The connection itself is what TCPConnection.tla shows of it: bytes and  *)
(* the FIN reach the partner in order, at most FlightLimit of them before  *)
(* the next ack.  partner is [got, ended, coming]: what it has, whether it *)
(* has the FIN, and what it has sent that rule 1 has not seen.             *)
(***************************************************************************)
EXTENDS Descriptors

CONSTANT FlightLimit    \* the window: sequence numbers in flight

NewThread(capacity) ==
    [out |-> NewFifo(capacity), in |-> NewFifo(capacity),
     outShut |-> FALSE, inShut |-> FALSE, eof |-> FALSE,
     flight |-> 0, finSent |-> FALSE, linger |-> TRUE]

NewPartner == [got |-> << >>, ended |-> FALSE, coming |-> << >>]

\* TCPPeer::active
ThreadActive(m) ==
    /\ ~m.in.error /\ ~m.out.error
    /\ m.flight > 0 \/ ~Finished(m.out) \/ ~m.in.closed \/ m.linger

IgnoresWindow(st) == Buffered(st.m.out)     \* mutant: of InWindow
InWindow(st) == Least(Buffered(st.m.out), FlightLimit - st.m.flight)

\* TCPPeer::push.  After an error all that leaves is marked RST and brings the
\* partner nothing.
SendsNow(st) ==
    LET n   == InWindow(st)
        fin == /\ st.m.out.closed /\ n = Buffered(st.m.out)
               /\ ~st.m.finSent /\ st.m.flight + n < FlightLimit
    IN  IF st.m.out.error THEN st ELSE
        [k |-> [st.k EXCEPT
                   !.partner.got = @ \o SubSeq(st.m.out.buf, 1, n),
                   !.partner.ended = @ \/ fin],
         m |-> [st.m EXCEPT !.out = Pop(@, n), !.finSent = @ \/ fin,
                            !.flight = @ + n + Flag(fin)]]

\* TCPPeer::receive of a message: a byte, the FIN, an ack of all there is, or
\* a RST.
TakesMessage(m, msg) ==
    LET stays == [m EXCEPT !.linger = @ /\ ~(m.in.closed /\ ~Finished(m.out))]
    IN  CASE msg.kind = "byte" -> [stays EXCEPT !.in = Push(@, << msg.byte >>)]
          [] msg.kind = "fin"  -> [stays EXCEPT !.in = Close(@)]
          [] msg.kind = "ack"  -> [stays EXCEPT !.flight = 0]
          [] msg.kind = "rst"  -> [stays EXCEPT !.in = SetError(@),
                                                !.out = SetError(@)]

ThreadRules == << "segment", "push bytes", "inbound" >>

ThreadReads(r) == r # "inbound"

ThreadAtEof(st, r) == r # "segment" /\ st.m.eof

ThreadIsClosed(st, r) == FALSE

ThreadInterest(st, r) ==
    LET m == st.m IN
    \/ r = "segment" /\ ThreadActive(m)
    \/ r = "push bytes" /\ ThreadActive(m) /\ ~m.outShut /\ Available(m.out) > 0
    \/ r = "inbound" /\ \/ m.in.buf # << >>
                        \/ (Finished(m.in) \/ m.in.error) /\ ~m.inShut

ReceivesSegment(st) ==
    SendsNow([k |-> [st.k EXCEPT !.partner.coming = Tail(@)],
              m |-> TakesMessage(st.m, Head(st.k.partner.coming))])

EndsUnpushed(st) ==          \* mutant: without a push at the end of the file
    LET f   == Fill(st.m.out, st.k.up)
        eof == ReadsEof(st.k.up)
        now == [k |-> [st.k EXCEPT !.up = f.channel],
                m |-> [st.m EXCEPT !.out = f.stream, !.eof = @ \/ eof,
                                   !.outShut = @ \/ eof]]
    IN  IF eof THEN now ELSE SendsNow(now)
PushesBytes(st) ==
    LET f   == Fill(st.m.out, st.k.up)
        eof == ReadsEof(st.k.up)
    IN  SendsNow([k |-> [st.k EXCEPT !.up = f.channel],
                  m |-> [st.m EXCEPT !.out = f.stream, !.eof = @ \/ eof,
                                     !.outShut = @ \/ eof]])

\* The write side is shut down on an error whatever is still buffered.
WritesInbound(st) ==
    LET d    == Drain(st.m.in, st.k.down)
        over == Finished(d.stream) \/ d.stream.error
    IN  [k |-> [st.k EXCEPT !.down = IF over THEN Shutdown(d.channel)
                                             ELSE d.channel],
         m |-> [st.m EXCEPT !.in = d.stream, !.inShut = @ \/ over]]

ThreadCallback(st, r) ==
    CASE r = "segment"    -> ReceivesSegment(st)
      [] r = "push bytes" -> PushesBytes(st)
      [] r = "inbound"    -> WritesInbound(st)

ThreadTouches(st, r) ==
    \/ r = "segment"
    \/ r = "push bytes" /\ (Readable(st.k.up) \/ ReadsEof(st.k.up))
    \/ r = "inbound" /\ (st.m.in.buf # << >> \/ Finished(st.m.in) \/ st.m.in.error)

ThreadCancel(st, r) ==
    IF r = "push bytes"
      THEN [st EXCEPT !.m.out = Close(@), !.m.outShut = TRUE]
      ELSE st

ThreadFail(st, r) ==
    CASE r = "push bytes" -> [st EXCEPT !.m.out = SetError(@)]
      [] r = "inbound"    -> [st EXCEPT !.m.in = SetError(@)]
      [] OTHER            -> st

Thread == INSTANCE EventLoop WITH
    Order <- ThreadRules, Reads <- ThreadReads, AtEof <- ThreadAtEof,
    IsClosed <- ThreadIsClosed, Interest <- ThreadInterest,
    Callback <- ThreadCallback, Touches <- ThreadTouches,
    Cancel <- ThreadCancel, Fail <- ThreadFail
=============================================================================
