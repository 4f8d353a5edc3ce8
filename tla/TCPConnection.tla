--------------------------- MODULE TCPConnection ---------------------------
(***************************************************************************)
(* Two TCPPeers of src/util/tcp_peer.hh, each driven by the rules of       *)
(* src/util/tcp_minnow_socket_impl.hh, and the datagrams between them.     *)
(* The client connects and the server listens; from then on they are       *)
(* alike.  Some datagrams are lost and some overtaken by those behind      *)
(* them.  A timer may expire whenever it runs, so every loss and every     *)
(* delay meets every retransmission.  A byte is the number of its place    *)
(* in its stream.                                                          *)
(***************************************************************************)
EXTENDS TCPPeerOps

CONSTANTS
    Peers,          \* the two of them
    Client,         \* the one that connects
    ISN,            \* function: cfg_.isn of each
    SendCapacity,   \* cfg_.send_capacity
    RecvCapacity,   \* cfg_.recv_capacity
    Supply,         \* function: how many bytes the application of each writes
    CloseOnlyIdle,  \* whether applications close only what is acknowledged
    Budgets         \* bounds, a set of records [loss, delay, early]: how many
                    \* datagrams are lost and overtaken in all, and how many
                    \* timers expire with datagrams under way

ASSUME ConnectionConstants ==
    /\ Client \in Peers
    /\ \E server \in Peers : server # Client /\ Peers = {Client, server}
    /\ ISN \in [Peers -> 0 .. Modulus - 1]
    /\ SendCapacity \in Nat /\ RecvCapacity \in Nat
    /\ Supply \in [Peers -> Nat]
    /\ CloseOnlyIdle \in BOOLEAN
    /\ Budgets \subseteq [loss : Nat, delay : Nat, early : Nat]

VARIABLES
    peer,        \* peer[p]: the record of TCPPeerOps
    connected,   \* those whose connect or listen_and_accept has returned
    net,         \* net[p]: the datagrams under way to p
    silence,     \* silence[p]: how long p has received nothing, as far as its
                 \* partner's timer has run out since
    budget       \* what is left of the behaviour's member of Budgets

vars == << peer, connected, net, silence, budget >>

Other(p) == CHOOSE q \in Peers : q # p

\* Peer p takes a step that ends in a state and transmits what it says.
Does(p, step) ==
    /\ peer' = [peer EXCEPT ![p] = step.peer]
    /\ net' = [net EXCEPT ![Other(p)] = @ \o step.out]

\* connect() has called push: the client's SYN is under way.
Init ==
    LET fresh == [p \in Peers |-> NewPeer(SendCapacity, RecvCapacity, ISN[p])]
        syn   == PeerPush(fresh[Client])
    IN  /\ peer = [fresh EXCEPT ![Client] = syn.peer]
        /\ net = [p \in Peers |-> IF p = Client THEN << >> ELSE syn.out]
        /\ connected = {}
        /\ silence = [p \in Peers |-> 0]
        /\ budget \in Budgets

\* The loop of connect ends when the number of sequence numbers in flight is
\* not 1 any more, that of listen_and_accept when there is an ackno and nothing
\* in flight.
MayConnect(p) ==
    /\ p \notin connected
    /\ IF p = Client THEN InFlight(peer[p].sender) # 1
                     ELSE HasAckno(peer[p]) /\ InFlight(peer[p].sender) = 0

Connects(p) ==
    /\ MayConnect(p)
    /\ connected' = connected \cup {p}
    /\ UNCHANGED << peer, net, silence, budget >>

\* Rule 1 of the socket's event loop.
MayDeliver(p) == net[p] # << >>

Deliver(p) ==
    /\ MayDeliver(p)
    /\ LET step == PeerReceive(peer[p], Head(net[p])) IN
          /\ peer' = [peer EXCEPT ![p] = step.peer]
          /\ net' = [net EXCEPT ![p] = Tail(@), ![Other(p)] = @ \o step.out]
    /\ silence' = [silence EXCEPT ![p] = 0]
    /\ UNCHANGED << connected, budget >>

\* Rule 2: as many bytes as there is room for, or the end of the stream; then
\* push.
MayWrite(p) ==
    /\ p \in connected
    /\ Active(peer[p])
    /\ ~peer[p].sender.input.closed
    /\ Available(peer[p].sender.input) > 0

WithInput(p, input) == [peer[p] EXCEPT !.sender.input = input]

Write(p, n) ==
    LET input == peer[p].sender.input IN
    /\ MayWrite(p)
    /\ n <= Available(input) /\ input.pushed + n <= Supply[p]
    /\ Does(p, PeerPush(WithInput(p, Push(input,
                  [i \in 1 .. n |-> input.pushed + i - 1]))))
    /\ UNCHANGED << connected, silence, budget >>

MayClose(p) ==
    /\ MayWrite(p)
    /\ CloseOnlyIdle => /\ InFlight(peer[p].sender) = 0
                        /\ Buffered(peer[p].sender.input) = 0

CloseOutbound(p) ==
    /\ MayClose(p)
    /\ Does(p, PeerPush(WithInput(p, Close(peer[p].sender.input))))
    /\ UNCHANGED << connected, silence, budget >>

\* Rule 3: the application takes what it wants of what has arrived.
MayRead(p) == p \in connected /\ Buffered(Inbound(peer[p])) > 0

Read(p) ==
    /\ MayRead(p)
    /\ \E n \in 1 .. Buffered(Inbound(peer[p])) :
          peer' = [peer EXCEPT ![p].receiver.reasm.output = Pop(@, n)]
    /\ UNCHANGED << connected, net, silence, budget >>

\* _tcp_loop calls tick after every event while the peer is active.  A timer
\* that expires while datagrams are under way is early: it sends again what
\* may well have arrived.
NothingUnderWay == \A p \in Peers : net[p] = << >>

Waits(p)   == Active(peer[p]) /\ peer[p].sender.running
MayTick(p) == NothingUnderWay /\ Waits(p)

\* The time that p's timer takes to run out is added to its partner's
\* cumulative_time_ - time_of_last_receipt_.  That difference matters up to the
\* linger time, and once the partner's inbound stream is closed.
LingerOnce == InitialRTO             \* mutant: one timeout
LingerTime == 10 * InitialRTO

TimerRunsOut(p) ==
    LET q == Other(p) IN
    /\ Does(p, PeerTick(peer[p]))
    /\ silence' = IF ReceiverActive(peer[q]) THEN silence
                  ELSE [silence EXCEPT ![q] =
                           Least(LingerTime, @ + peer[p].sender.rto)]

Tick(p) ==
    /\ MayTick(p)
    /\ TimerRunsOut(p)
    /\ UNCHANGED << connected, budget >>

EarlyTick(p) ==
    /\ ~NothingUnderWay /\ Waits(p)
    /\ budget.early > 0
    /\ TimerRunsOut(p)
    /\ budget' = [budget EXCEPT !.early = @ - 1]
    /\ UNCHANGED connected

\* Ten timeouts without a message.  No datagram is on its way that long, and a
\* partner whose timer runs sends again before, unless its retransmissions so
\* far and the one it waits for fill that time.
MayLeave(p) ==
    /\ ~SenderActive(peer[p]) /\ ~ReceiverActive(peer[p])
    /\ Lingering(peer[p])
    /\ net[p] = << >>
    /\ Waits(Other(p)) =>
          silence[p] + peer[Other(p)].sender.rto >= LingerTime

LingerExpires(p) ==
    /\ MayLeave(p)
    /\ peer' = [peer EXCEPT ![p].quiet = TRUE]
    /\ UNCHANGED << connected, net, silence, budget >>

Lose(p) ==
    /\ net[p] # << >>
    /\ budget.loss > 0
    /\ net' = [net EXCEPT ![p] = Tail(@)]
    /\ budget' = [budget EXCEPT !.loss = @ - 1]
    /\ UNCHANGED << peer, connected, silence >>

\* All that is under way to p overtakes the first of it.
Delay(p) ==
    /\ Len(net[p]) > 1
    /\ budget.delay > 0
    /\ net' = [net EXCEPT ![p] = Append(Tail(@), Head(@))]
    /\ budget' = [budget EXCEPT !.delay = @ - 1]
    /\ UNCHANGED << peer, connected, silence >>

\* Nothing happens any more once both peers are done.
Done ==
    /\ \A p \in Peers : ~Active(peer[p]) /\ Buffered(Inbound(peer[p])) = 0
    /\ UNCHANGED vars

Next ==
    \/ \E p \in Peers :
          \/ Connects(p)
          \/ Deliver(p)
          \/ \E n \in 1 .. SendCapacity : Write(p, n)
          \/ CloseOutbound(p)
          \/ Read(p)
          \/ Tick(p)
          \/ EarlyTick(p)
          \/ LingerExpires(p)
          \/ Lose(p)
          \/ Delay(p)
    \/ Done

\* Deliver or, as often as the budget lets it, Lose takes the first datagram.
HeadTaken(p) == net[p] # << >> /\ net'[p] = Tail(net[p])

\* The event loop serves every rule that stays ready, time passes, and the
\* applications read and, some time, close: weak fairness of these actions,
\* written out with the guards they are enabled by (evaluating ENABLED of a
\* whole receive is beyond TLC).  A guard is false again and again, or the
\* action is taken again and again.  Only Deliver may be without making its
\* guard false: a peer connects, closes and leaves once, reads as many bytes as
\* there are, and its timer puts a segment under way.
Fairness ==
    \A p \in Peers :
        /\ []<>(~MayDeliver(p)) \/ []<><<HeadTaken(p)>>_vars
        /\ []<>(~MayConnect(p)) /\ []<>(~MayRead(p)) /\ []<>(~MayTick(p))
        /\ []<>(~MayClose(p)) /\ []<>(~MayLeave(p))

Spec == Init /\ [][Next]_vars /\ Fairness

-----------------------------------------------------------------------------
\* What p has really received of its partner's sequence numbers: the SYN, the
\* bytes in order and, when the stream is closed, the FIN.
Received(p) ==
    LET r == peer[p].receiver IN
    IF r.init THEN 1 + r.reasm.next + Flag(r.reasm.output.closed) ELSE 0

TypeOK ==
    \A p \in Peers :
        /\ peer[p].needSend \in BOOLEAN /\ peer[p].quiet \in BOOLEAN
        /\ silence[p] \in 0 .. LingerTime
        /\ peer[p].sender.last \in Nat /\ peer[p].sender.exp \in Nat
        /\ peer[p].receiver.maxAbs \in Nat
        /\ Available(Inbound(peer[p])) \in 0 .. RecvCapacity
        /\ \A i \in DOMAIN net[p] :
              net[p][i].receiver.window \in 0 .. Least(RecvCapacity, MaxWindow)

\* What a reader gets is the partner's stream, byte for byte, and it is closed
\* only at its end.
ReaderGetsTheStream ==
    \A p \in Peers :
        LET in  == Inbound(peer[p])
            out == peer[Other(p)].sender.input
        IN  /\ in.pushed <= out.popped
            /\ in.buf = [i \in 1 .. in.pushed - in.popped |-> in.popped + i - 1]
            /\ in.closed => out.closed /\ in.pushed = out.pushed

\* The number a receiver acknowledges is the next it needs
\* (tcp_receiver_message.hh:12), also while it waits for a byte before the FIN.
AcknoIsNextNeeded ==
    \A p \in Peers :
        LET m == ReceiverSend(peer[p].receiver)
        IN  m.hasAck => m.ackno = Wrap(Received(p), ISN[Other(p)])

\* A sender never lets go of anything the other side does not have: what it
\* takes as acknowledged has arrived, and so has the FIN when it believes so.
AcknowledgedHasArrived ==
    \A p \in Peers :
        LET s == peer[p].sender IN
        /\ s.last <= Received(Other(p))
        /\ s.finAcked => Inbound(peer[Other(p)]).closed

\* Nothing that waits in a reassembler has been cut at the window's edge, so
\* none is written beyond it later: two peers never meet the overrun that
\* Reassembler::insert allows other callers (MCReassemblerOverrun.cfg).
NothingWaitsCut ==
    \A p \in Peers : \A x \in peer[p].receiver.reasm.segs :
        x.end - x.begin = Len(x.data)

\* A peer that leaves does not leave the other one behind: the other has all
\* it was sent, and nothing of its own that nobody will ever acknowledge.
NobodyIsLeftBehind ==
    \A p \in Peers :
        ~Active(peer[p]) =>
            LET q == Other(p) IN
            /\ Inbound(peer[q]).closed
            /\ InFlight(peer[q].sender) = 0 \/ \E i \in DOMAIN net[q] :
                  LET m == net[q][i].receiver IN
                  m.hasAck /\ m.ackno = Wrap(peer[q].sender.exp, ISN[q])

\* Every byte written is read in the end and both readers see the end of their
\* stream, whatever is lost.
EverythingIsRead ==
    \A p \in Peers :
        <>(/\ Finished(Inbound(peer[p]))
           /\ Inbound(peer[p]).popped = peer[Other(p)].sender.input.pushed)

\* Both peers are done in the end and stop (TCPPeer::active).
BothLeave == <>[](\A p \in Peers : ~Active(peer[p]))

=============================================================================
