----------------------------- MODULE TCPPeerOps -----------------------------
(***************************************************************************)
(* src/util/tcp_peer.hh as operators over one record                       *)
(*                                                                         *)
(*   sender    sender_    (TCPSenderOps.tla)                               *)
(*   receiver  receiver_  (TCPReceiverOps.tla)                             *)
(*   needSend  need_send_                                                  *)
(*   linger    linger_after_streams_finish_                                *)
(*   quiet     whether ten timeouts have passed since anything was         *)
(*             received (cumulative_time_, time_of_last_receipt_)          *)
(*                                                                         *)
(* A step that transmits returns [peer, out], out being the messages       *)
(* [sender, receiver] in the order they leave.                             *)
(***************************************************************************)
EXTENDS TCPSenderOps, TCPReceiverOps

NewPeer(sendCapacity, recvCapacity, isn) ==
    [sender |-> NewSender(sendCapacity, isn),
     receiver |-> NewReceiver(recvCapacity),
     needSend |-> FALSE, linger |-> TRUE, quiet |-> FALSE]

Inbound(p) == p.receiver.reasm.output       \* inbound_reader()
HasAckno(p) == ReceiverSend(p.receiver).hasAck

(***************************************************************************)
(* active()                                                                *)
(***************************************************************************)
AnyErrors(p)      == Inbound(p).error \/ p.sender.input.error
SenderActive(p)   == InFlight(p.sender) > 0 \/ ~Finished(p.sender.input)
ReceiverActive(p) == ~Inbound(p).closed
Lingering(p)      == p.linger /\ ~p.quiet

Active(p) ==
    ~AnyErrors(p) /\ (SenderActive(p) \/ ReceiverActive(p) \/ Lingering(p))

\* send(): every message of the sender leaves with what the receiver has to say
\* at that moment, and answers whatever asked for an answer.
Sends(p, msgs) ==
    [peer |-> [p EXCEPT !.needSend = p.needSend /\ msgs = << >>],
     out  |-> [i \in DOMAIN msgs |->
                  [sender |-> msgs[i], receiver |-> ReceiverSend(p.receiver)]]]

PeerPush(p) ==
    LET pushed == PushAll(p.sender)
    IN  Sends([p EXCEPT !.sender = pushed.sender], pushed.out)

PeerTick(p) ==
    Sends([p EXCEPT !.sender = TickExpires(p.sender)], TickTransmits(p.sender))

(***************************************************************************)
(* receive( msg )                                                          *)
(***************************************************************************)
KeepAlive(p, msg) ==
    LET ours == ReceiverSend(p.receiver)
    IN  ours.hasAck /\ (msg.sender.seqno + 1) % Modulus = ours.ackno

\* What receive changes before it sends anything.
NeverAnswers(p, msg) ==         \* mutant: a segment alone asks for no answer
    [p EXCEPT !.quiet = FALSE,
              !.linger = p.linger
                  /\ ~(Inbound(p).closed /\ ~Finished(p.sender.input)),
              !.receiver = ReceiverReceive(p.receiver, msg.sender),
              !.sender = SenderReceive(p.sender, msg.receiver)]
TakesIn(p, msg) ==
    [p EXCEPT !.quiet = FALSE,
              !.needSend = p.needSend \/ SequenceLength(msg.sender) > 0
                             \/ KeepAlive(p, msg),
              !.linger = p.linger
                  /\ ~(Inbound(p).closed /\ ~Finished(p.sender.input)),
              !.receiver = ReceiverReceive(p.receiver, msg.sender),
              !.sender = SenderReceive(p.sender, msg.receiver)]

PeerReceive(p, msg) ==
    LET pushed == PeerPush(TakesIn(p, msg))
        reply  == Sends(pushed.peer, << EmptyMessage(pushed.peer.sender) >>)
    IN  IF ~Active(p) THEN [peer |-> p, out |-> << >>]
        ELSE IF pushed.peer.needSend
          THEN [peer |-> reply.peer, out |-> pushed.out \o reply.out]
          ELSE pushed
=============================================================================
