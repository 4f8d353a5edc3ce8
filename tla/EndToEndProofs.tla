--------------------------- MODULE EndToEndProofs ---------------------------
(***************************************************************************)
(* Proofs about EndToEnd.tla, for all addresses, route tables, start-ups,  *)
(* capacities and times, and any number of datagrams lost.                 *)
(***************************************************************************)
EXTENDS EndToEnd, OperatorLemmas

-----------------------------------------------------------------------------
(***************************************************************************)
(* A peer whose bytes may be any numbers: its types, which its steps keep, *)
(* and the messages they transmit.                                         *)
(***************************************************************************)
SenderFits(s) == s \in SenderType /\ Len(s.input.buf) <= s.input.cap

PeerType ==
    [sender : SenderType, receiver : ReceiverType,
     needSend : BOOLEAN, linger : BOOLEAN, quiet : BOOLEAN]

PeerFits(x) ==
    x \in PeerType /\ SenderFits(x.sender) /\ ReceiverFits(x.receiver, Capacity)

WireMessage == [sender : Message, receiver : AckMessage]

StepFits(step) == PeerFits(step.peer) /\ step.out \in Seq(WireMessage)

\* What the loop of push carries.
LoopFits ==
    {x \in [sender : SenderType, loop : [wnd : Nat, data : Int, out : Seq(Message)]] :
        Len(x.sender.input.buf) <= x.sender.input.cap}

\* What a turn of push's loop sends is a message, within the window and taken
\* from the head of the stream.
LEMMA TurnMessageFits ==
    ASSUME NEW s, SenderFits(s), NEW l, l.wnd \in Nat, l.wnd > 0
    PROVE  LET msg == TurnMessage(s, l) IN
           /\ msg \in Message
           /\ Len(msg.payload) \in Nat /\ Len(msg.payload) <= Buffered(s.input)
           /\ SequenceLength(msg) \in Nat /\ SequenceLength(msg) <= l.wnd
<1> DEFINE msg == TurnMessage(s, l)
           n   == TurnBytes(s, l)
           f   == s.input
           syn == s.exp = 0
           fin == TurnFIN(s, l)
<1>1. s.exp \in Int /\ s.isn \in Int /\ f \in QueueType /\ MaxPayload \in Nat \ {0}
    BY ModulusType, SenderConstants DEF SenderFits, SenderType
<1>2. f.buf \in Seq(Nat) /\ f.closed \in BOOLEAN /\ f.error \in BOOLEAN
    BY <1>1 DEF QueueType
<1>3. Buffered(f) \in Nat /\ Buffered(f) = Len(f.buf)
    BY <1>2, LenProperties DEF Buffered
<1>4. Flag(syn) = IF syn THEN 1 ELSE 0
    BY DEF Flag
<1>5. n = Least(Buffered(f), Least(l.wnd - Flag(syn), MaxPayload))
    BY DEF TurnBytes, TurnSYN
<1>6. fin => l.wnd - Flag(syn) - n > 0
    BY DEF TurnFIN, TurnSYN
<1>7. msg = [seqno |-> Wrap(s.exp, s.isn), SYN |-> syn,
             payload |-> SubSeq(f.buf, 1, n), FIN |-> fin, RST |-> f.error]
    BY DEF TurnMessage, TurnSYN
<1>8. fin \in BOOLEAN /\ syn \in BOOLEAN
    BY DEF TurnFIN
<1> HIDE DEF msg, n, fin
<1>9. n \in Nat /\ n <= Buffered(f) /\ n <= l.wnd - Flag(syn)
    BY <1>1, <1>3, <1>4, <1>5 DEF Least
<1>10. SubSeq(f.buf, 1, n) \in Seq(Nat) /\ Len(SubSeq(f.buf, 1, n)) = n
    <2>1. \A i \in 1 .. n : f.buf[i] \in Nat
        BY SMTT(30), <1>2, <1>3, <1>9, ElementOfSeq
    <2>2. /\ SubSeq(f.buf, 1, n) \in Seq(Nat)
          /\ Len(SubSeq(f.buf, 1, n)) = IF 1 <= n THEN n - 1 + 1 ELSE 0
        BY <1>9, <2>1, SubSeqProperties
    <2> QED
        BY <1>9, <2>2
<1>11. Wrap(s.exp, s.isn) \in 0 .. Modulus - 1
    BY <1>1, WrapInRange
<1>12. msg \in Message
    BY <1>2, <1>7, <1>8, <1>10, <1>11 DEF Message
<1>13. msg.SYN = syn /\ msg.FIN = fin /\ Len(msg.payload) = n
    BY <1>7, <1>10
<1>14. SequenceLength(msg) = Flag(syn) + n + Flag(fin)
    BY <1>13 DEF SequenceLength
<1>15. Flag(fin) = IF fin THEN 1 ELSE 0
    BY DEF Flag
<1>16. SequenceLength(msg) \in Nat /\ SequenceLength(msg) <= l.wnd
    <2>1. CASE fin
        BY <1>4, <1>6, <1>9, <1>14, <1>15, <2>1
    <2>2. CASE ~fin
        BY <1>4, <1>9, <1>14, <1>15, <2>2
    <2> QED
        BY <2>1, <2>2
<1> QED
    BY <1>9, <1>12, <1>13, <1>16 DEF msg, f

\* Each turn leaves what it should.
LEMMA TurnFits ==
    ASSUME NEW x \in LoopFits
    PROVE  PushTurn(x) \in LoopFits
<1> DEFINE s == x.sender
           l == x.loop
           msg == TurnMessage(s, l)
           g == Pop(s.input, Len(msg.payload))
           ost == s.ost \cup {[at |-> s.exp, msg |-> msg]}
           fin == s.finSent \/ msg.FIN
           exp == s.exp + SequenceLength(msg)
           time == IF s.running THEN s.expTime ELSE s.rto
           t == TurnSender(s, msg)
           k == TurnLoop(s, l, msg)
<1>1. /\ SenderFits(s) /\ s \in SenderType
      /\ l.wnd \in Nat /\ l.data \in Int /\ l.out \in Seq(Message)
    BY DEF LoopFits, SenderFits
<1>2. CASE ~Turns(l)
    BY <1>2 DEF PushTurn
<1>3. CASE Turns(l)
    <2>1. l.wnd > 0
        BY <1>3 DEF Turns
    <2>2. /\ msg \in Message
          /\ Len(msg.payload) \in Nat /\ Len(msg.payload) <= Buffered(s.input)
          /\ SequenceLength(msg) \in Nat /\ SequenceLength(msg) <= l.wnd
        BY <1>1, <2>1, TurnMessageFits
    <2>3. s.input \in QueueType /\ Len(s.input.buf) <= s.input.cap
        BY <1>1 DEF SenderFits, SenderType
    <2>4. PushTurn(x) = [sender |-> t, loop |-> k]
        BY <1>3 DEF PushTurn
    <2>5. t = [s EXCEPT !.input = g, !.finSent = fin, !.ost = ost,
                        !.exp = exp, !.running = TRUE, !.expTime = time]
        BY DEF TurnSender
    <2>6. k = [wnd |-> l.wnd - SequenceLength(msg),
               data |-> IF msg.FIN THEN 0 ELSE l.data - Flag(msg.SYN) - Len(msg.payload),
               out |-> Append(l.out, msg)]
        BY DEF TurnLoop
    <2> HIDE DEF s, l, msg
    <2>7. /\ g \in QueueType /\ g.cap = s.input.cap
          /\ Len(g.buf) = Len(s.input.buf) - Len(msg.payload)
        BY <2>2, <2>3, PopBounded
    <2>8. Len(s.input.buf) \in Nat /\ s.input.cap \in Nat
        BY <2>3, LenProperties DEF QueueType
    <2> HIDE DEF g
    <2>18. /\ Len(s.input.buf) - Len(msg.payload) \in Nat
          /\ Len(s.input.buf) - Len(msg.payload) <= s.input.cap
        <3>1. Len(msg.payload) \in Nat /\ Len(msg.payload) <= Len(s.input.buf)
            BY <2>2 DEF Buffered
        <3>2. \A a, b, c \in Nat : a <= b /\ b <= c => b - a \in Nat /\ b - a <= c
            OBVIOUS
        <3> QED
            BY <2>3, <2>8, <3>1, <3>2
    <2>9. Len(g.buf) <= g.cap
        BY <2>7, <2>18
    <2>10. ost \in SUBSET Segment
        BY <1>1, <2>2 DEF SenderType, Segment
    <2>11. fin \in BOOLEAN /\ exp \in Nat /\ time \in Nat
        BY <1>1, <2>2 DEF SenderType
    <2>12. Flag(msg.SYN) \in {0, 1}
        BY DEF Flag
    <2> HIDE DEF ost, fin, exp, time, t, k
    <2>13. t \in SenderType /\ t.input = g
        BY ZenonT(30), <1>1, <2>5, <2>7, <2>10, <2>11 DEF SenderType
    <2>14. (IF msg.FIN THEN 0 ELSE l.data - Flag(msg.SYN) - Len(msg.payload)) \in Int
        BY <1>1, <2>2, <2>12
    <2>15. l.wnd - SequenceLength(msg) \in Nat
        BY <1>1, <2>2
    <2>16. Append(l.out, msg) \in Seq(Message)
        BY <1>1, <2>2, AppendProperties
    <2>17. k \in [wnd : Nat, data : Int, out : Seq(Message)]
        BY <2>6, <2>14, <2>15, <2>16
    <2> QED
        BY <2>4, <2>9, <2>13, <2>17 DEF LoopFits
<1> QED
    BY <1>2, <1>3

\* push leaves a sender of its type and transmits messages.
LEMMA PushAllFits ==
    ASSUME NEW s, SenderFits(s)
    PROVE  SenderFits(PushAll(s).sender) /\ PushAll(s).out \in Seq(Message)
<1>1. CASE PushReturns(s)
    BY <1>1 DEF PushAll
<1>2. CASE ~PushReturns(s)
    <2> DEFINE l == PushLoop(s)
               x == [sender |-> s, loop |-> l]
    <2>1. s \in SenderType /\ s.input \in QueueType /\ s.last \in Nat /\ s.exp \in Nat
          /\ Window(s) \in Nat
        BY WindowIs DEF SenderFits, SenderType
    <2>2. Buffered(s.input) \in Nat
        BY <2>1, LenProperties DEF QueueType, Buffered
    <2>3. s.last + Window(s) - s.exp \in Nat
        BY <1>2, <2>1 DEF PushReturns
    <2>4. (Flag(s.exp = 0) + Buffered(s.input)
             + Flag(s.input.closed /\ ~s.finSent)) \in Int
        BY <2>2 DEF Flag
    <2>5. l \in [wnd : Nat, data : Int, out : Seq(Message)]
        BY <2>3, <2>4, EmptySeq DEF PushLoop
    <2> HIDE DEF l
    <2>6. x \in LoopFits
        BY <2>1, <2>5 DEF LoopFits, SenderFits
    <2>7. PushTurn(x) \in LoopFits
        BY <2>6, TurnFits
    <2>8. PushLoops(s) \in LoopFits
        BY <2>2, <2>7, TurnFits, PushLoopsStays DEF l
    <2>9. PushAll(s) = [sender |-> PushLoops(s).sender, out |-> PushLoops(s).loop.out]
        BY <1>2 DEF PushAll
    <2> QED
        BY <2>8, <2>9 DEF LoopFits, SenderFits
<1> QED
    BY <1>1, <1>2

\* So do receive and tick, and what tick sends again was in flight.
LEMMA SenderReceiveFits ==
    ASSUME NEW s, SenderFits(s), NEW m \in AckMessage
    PROVE  SenderFits(SenderReceive(s, m))
<1> DEFINE t == SenderReceive(s, m)
<1>0. s \in SenderType /\ s.input \in QueueType
    BY DEF SenderFits, SenderType
<1>1. CASE TakesReset(s, t)
    <2> DEFINE f == SetError(s.input)
    <2>1. t = [s EXCEPT !.input = f]
        BY <1>1 DEF TakesReset
    <2>2. f \in QueueType /\ f.cap = s.input.cap /\ f.buf = s.input.buf
        BY <1>0 DEF SetError, QueueType
    <2> HIDE DEF f, t
    <2>3. t \in SenderType /\ t.input = f
        BY <1>0, <2>1, <2>2 DEF SenderType
    <2> QED
        BY <2>2, <2>3 DEF SenderFits, t
<1>2. CASE TakesAck(s, t)
    <2>1. PICK a \in Nat, w \in Nat : t = TakeAck(s, a, w)
        BY <1>2 DEF TakesAck
    <2> HIDE DEF t
    <2>2. t \in SenderType /\ t.input = s.input
        BY <1>0, <2>1, TakeAckChanges
    <2> QED
        BY <2>2 DEF SenderFits, t
<1>3. CASE TakesNoAck(s, t)
    <2>1. PICK w \in Nat : t = TakeAck(StartOver(s, w), 0, w)
        BY <1>3 DEF TakesNoAck
    <2> DEFINE o == StartOver(s, w)
    <2>2. o \in SenderType /\ o.input = s.input
        BY <1>0, StartOverChanges
    <2>3. t = TakeAck(o, 0, w)
        BY <2>1
    <2> HIDE DEF t, o
    <2>4. t \in SenderType /\ t.input = o.input
        BY <2>2, <2>3, TakeAckChanges
    <2> QED
        BY <2>2, <2>4 DEF SenderFits, t
<1> QED
    BY <1>0, <1>1, <1>2, <1>3, AckCases

\* An expired timer leaves a sender and sends messages (tcp_sender.cc, tick).
LEMMA TickFits ==
    ASSUME NEW s, SenderFits(s)
    PROVE  SenderFits(TickExpires(s)) /\ TickTransmits(s) \in Seq(Message)
<1>1. s \in SenderType
    BY DEF SenderFits
<1>2. TickExpires(s) \in SenderType /\ TickExpires(s).input = s.input
    BY <1>1, TickChanges
<1>3. CASE s.ost = {}
    BY <1>2, <1>3 DEF SenderFits, TickTransmits
<1>4. CASE s.ost # {}
    <2>1. Oldest(s.ost) \in s.ost /\ s.ost \in SUBSET Segment
        BY <1>1, <1>4, OldestIsOne DEF SenderType
    <2>2. Oldest(s.ost).msg \in Message
        BY <2>1 DEF Segment
    <2> QED
        BY <1>2, <1>4, <2>2 DEF SenderFits, TickTransmits
<1> QED
    BY <1>3, <1>4

\* The message that carries no byte is a message.
LEMMA EmptyMessageFits ==
    ASSUME NEW s, SenderFits(s)
    PROVE  EmptyMessage(s) \in Message
<1>1. s.exp \in Int /\ s.isn \in Int /\ s.input.error \in BOOLEAN
    BY ModulusType DEF SenderFits, SenderType, QueueType
<1>2. Wrap(s.exp, s.isn) \in 0 .. Modulus - 1
    BY <1>1, WrapInRange
<1>3. << >> \in Seq(Nat)
    OBVIOUS
<1> QED
    BY <1>1, <1>2, <1>3 DEF EmptyMessage, Message

\* A new peer.
LEMMA NewPeerFits ==
    ASSUME NEW isn \in 0 .. Modulus - 1
    PROVE  PeerFits(NewPeer(Capacity, Capacity, isn))
<1> DEFINE s == NewSender(Capacity, isn)
           a == NewReassembler(Capacity)
           r == NewReceiver(Capacity)
           f == NewFifo(Capacity)
<1>1. Capacity \in Nat
    BY EndToEndConstants
<1>2. f \in QueueType /\ Len(f.buf) = 0 /\ f.cap = Capacity
    BY <1>1, NewFifoInPlace DEF InPlace, NewFifo
<1>3. s \in SenderType /\ s.input = f
    BY <1>1, NewSenderType DEF NewSender
<1>4. a = [segs |-> {}, next |-> 0, last |-> 0, hasLast |-> FALSE, output |-> f]
    BY DEF NewReassembler
<1>5. r = [reasm |-> a, isn |-> 0, maxAbs |-> 0,
           init |-> FALSE, fin |-> FALSE, rst |-> FALSE]
    BY DEF NewReceiver
<1>6. NewPeer(Capacity, Capacity, isn) =
        [sender |-> s, receiver |-> r, needSend |-> FALSE, linger |-> TRUE,
         quiet |-> FALSE]
    BY DEF NewPeer
<1> HIDE DEF s, a, r, f
<1>7. a \in ReassemblerType /\ a.segs = {} /\ a.output = f
    BY <1>2, <1>4 DEF ReassemblerType
<1>8. Typed(a, Capacity, 0)
    BY <1>1, <1>2, <1>7, FS_EmptySet DEF Typed, KeysDiffer
<1>9. 0 \in 0 .. Modulus - 1
    BY ModulusType
<1>10. r \in ReceiverType /\ r.reasm = a
    BY <1>5, <1>7, <1>9 DEF ReceiverType
<1>11. ReceiverFits(r, Capacity)
    BY <1>8, <1>10 DEF ReceiverFits
<1>12. SenderFits(s)
    BY <1>1, <1>2, <1>3 DEF SenderFits
<1> QED
    BY <1>3, <1>6, <1>10, <1>11, <1>12 DEF PeerFits, PeerType

\* What a peer sends are messages of both halves.
LEMMA SendsFits ==
    ASSUME NEW x, PeerFits(x), NEW msgs \in Seq(Message)
    PROVE  StepFits(Sends(x, msgs))
<1> DEFINE m == ReceiverSend(x.receiver)
           asks == x.needSend /\ msgs = << >>
           y == [x EXCEPT !.needSend = asks]
           out == [i \in 1 .. Len(msgs) |-> [sender |-> msgs[i], receiver |-> m]]
<1>1. x \in PeerType /\ SenderFits(x.sender) /\ ReceiverFits(x.receiver, Capacity)
    BY DEF PeerFits
<1>2. m \in AckMessage
    BY <1>1, EndToEndConstants, ReceiverSendFits
<1>3. Len(msgs) \in Nat /\ DOMAIN msgs = 1 .. Len(msgs)
      /\ \A i \in 1 .. Len(msgs) : msgs[i] \in Message
    BY LenProperties, ElementOfSeq
<1>4. asks \in BOOLEAN
    OBVIOUS
<1>5. Sends(x, msgs) = [peer |-> y, out |-> out]
    BY <1>3 DEF Sends
<1> HIDE DEF m, asks
<1>6. \A i \in 1 .. Len(msgs) : [sender |-> msgs[i], receiver |-> m] \in WireMessage
    BY <1>2, <1>3 DEF WireMessage
<1>7. out \in [1 .. Len(msgs) -> WireMessage]
    BY <1>6
<1> HIDE DEF out
<1>8. out \in Seq(WireMessage)
    BY <1>3, <1>7, SeqDef
<1>9. y \in PeerType /\ y.sender = x.sender /\ y.receiver = x.receiver
    BY <1>1, <1>4 DEF PeerType
<1> HIDE DEF y
<1>10. PeerFits(y)
    BY <1>1, <1>9 DEF PeerFits
<1> QED
    BY <1>5, <1>8, <1>10 DEF StepFits

\* A peer with another sender.
LEMMA PeerWithSender ==
    ASSUME NEW x, PeerFits(x), NEW s, SenderFits(s)
    PROVE  PeerFits([x EXCEPT !.sender = s])
<1> DEFINE y == [x EXCEPT !.sender = s]
<1>1. x \in PeerType /\ s \in SenderType
    BY DEF PeerFits, SenderFits
<1>2. y \in PeerType /\ y.sender = s /\ y.receiver = x.receiver
    BY <1>1 DEF PeerType
<1> HIDE DEF y
<1>3. PeerFits(y)
    BY <1>2 DEF PeerFits
<1> QED
    BY <1>3 DEF y

\* TCPPeer::push leaves a peer and sends messages with an answer each.
LEMMA PeerPushFits ==
    ASSUME NEW x, PeerFits(x)
    PROVE  StepFits(PeerPush(x))
<1> DEFINE s == PushAll(x.sender).sender
           msgs == PushAll(x.sender).out
           y == [x EXCEPT !.sender = s]
<1>1. SenderFits(s) /\ msgs \in Seq(Message)
    BY PushAllFits DEF PeerFits
<1>2. PeerPush(x) = Sends(y, msgs)
    BY DEF PeerPush
<1> HIDE DEF s, msgs
<1>3. PeerFits(y)
    BY <1>1, PeerWithSender
<1> HIDE DEF y
<1> QED
    BY <1>1, <1>2, <1>3, SendsFits

\* TCPPeer::tick does, when the timer expires.
LEMMA PeerTickFits ==
    ASSUME NEW x, PeerFits(x)
    PROVE  StepFits(PeerTick(x))
<1> DEFINE s == TickExpires(x.sender)
           msgs == TickTransmits(x.sender)
           y == [x EXCEPT !.sender = s]
<1>1. SenderFits(s) /\ msgs \in Seq(Message)
    BY TickFits DEF PeerFits
<1>2. PeerTick(x) = Sends(y, msgs)
    BY DEF PeerTick
<1> HIDE DEF s, msgs
<1>3. PeerFits(y)
    BY <1>1, PeerWithSender
<1> HIDE DEF y
<1> QED
    BY <1>1, <1>2, <1>3, SendsFits

\* What TCPPeer::receive hands to its two halves leaves a peer.
LEMMA TakesInFits ==
    ASSUME NEW x, PeerFits(x), NEW d \in WireMessage
    PROVE  PeerFits(TakesIn(x, d))
<1> DEFINE s == SenderReceive(x.sender, d.receiver)
           r == ReceiverReceive(x.receiver, d.sender)
           asks == x.needSend \/ SequenceLength(d.sender) > 0 \/ KeepAlive(x, d)
           stays == x.linger /\ ~(Inbound(x).closed /\ ~Finished(x.sender.input))
           y == TakesIn(x, d)
<1>1. x \in PeerType /\ SenderFits(x.sender) /\ ReceiverFits(x.receiver, Capacity)
    BY DEF PeerFits
<1>2. d.sender \in Message /\ d.receiver \in AckMessage
    BY DEF WireMessage
<1>3. SenderFits(s) /\ ReceiverFits(r, Capacity)
    BY <1>1, <1>2, EndToEndConstants, SenderReceiveFits, ReceiverReceiveFits
<1>4. asks \in BOOLEAN /\ stays \in BOOLEAN
    OBVIOUS
<1>5. y = [x EXCEPT !.quiet = FALSE, !.needSend = asks, !.linger = stays,
                    !.receiver = r, !.sender = s]
    BY DEF TakesIn
<1> HIDE DEF s, r, asks, stays, y
<1>6. s \in SenderType /\ r \in ReceiverType
    BY <1>3 DEF SenderFits, ReceiverFits
<1>7. y \in PeerType /\ y.sender = s /\ y.receiver = r
    BY <1>1, <1>4, <1>5, <1>6 DEF PeerType
<1>8. PeerFits(y)
    BY <1>3, <1>7 DEF PeerFits
<1> QED
    BY <1>8 DEF y

\* TCPPeer::receive as a whole leaves a peer and sends messages.
LEMMA PeerReceiveFits ==
    ASSUME NEW x, PeerFits(x), NEW d \in WireMessage
    PROVE  StepFits(PeerReceive(x, d))
<1> DEFINE y == TakesIn(x, d)
           pushed == PeerPush(y)
           e == EmptyMessage(pushed.peer.sender)
           reply == Sends(pushed.peer, << e >>)
<1>1. CASE ~Active(x)
    <2>1. PeerReceive(x, d) = [peer |-> x, out |-> << >>]
        BY <1>1 DEF PeerReceive
    <2> QED
        BY <2>1, EmptySeq DEF StepFits
<1>2. CASE Active(x)
    <2>1. PeerReceive(x, d) =
             IF pushed.peer.needSend
               THEN [peer |-> reply.peer, out |-> pushed.out \o reply.out]
               ELSE pushed
        BY <1>2 DEF PeerReceive
    <2>2. StepFits(pushed)
        BY TakesInFits, PeerPushFits
    <2> HIDE DEF pushed
    <2>3. PeerFits(pushed.peer) /\ SenderFits(pushed.peer.sender)
        BY <2>2 DEF StepFits, PeerFits
    <2>4. e \in Message
        BY <2>3, EmptyMessageFits
    <2> HIDE DEF e
    <2>8. << e >> \in Seq(Message)
        BY <2>4
    <2>5. StepFits(reply)
        BY <2>3, <2>8, SendsFits
    <2> HIDE DEF reply
    <2> DEFINE out == pushed.out \o reply.out
    <2>6. out \in Seq(WireMessage)
        BY <2>2, <2>5, ConcatProperties DEF StepFits
    <2> HIDE DEF out
    <2>7. StepFits([peer |-> reply.peer, out |-> out])
        BY <2>5, <2>6 DEF StepFits
    <2> QED
        BY <2>1, <2>2, <2>7 DEF out
<1> QED
    BY <1>1, <1>2

-----------------------------------------------------------------------------
(***************************************************************************)
(* An interface that keeps datagrams of Q for its hops and has received    *)
(* some of R, and the frames with datagrams of a set.                      *)
(***************************************************************************)
InterfaceType(Q, R) ==
    [eth : Eths, ip : IPs, rtable : [IPs -> Seq(Entries)],
     pending : SUBSET Requests, queued : [IPs -> Seq(Q)], received : Seq(R)]

Interfaces(Q, R) ==
    {n \in InterfaceType(Q, R) : \A ip \in IPs : AgesFall(n.rtable[ip])}

Frames(Q) == [dst : Eths \cup {Broadcast}, type : {"IPv4"}, dgram : Q]
                \cup [dst : Eths \cup {Broadcast}, type : {"ARP"}, arp : Arps]

\* What an operation of an interface leaves and transmits.
Transmitted(step, Q, R) ==
    /\ step.n \in Interfaces(Q, R)
    /\ step.datagrams \in Seq(Frames(Q)) /\ step.arp \in Seq(Frames(Q))

\* A new interface keeps nothing.
LEMMA NewInterfaceFits ==
    ASSUME NEW eth \in Eths, NEW ip \in IPs, NEW Q, NEW R
    PROVE  NewInterface(eth, ip) \in Interfaces(Q, R)
<1> DEFINE table == [a \in IPs |-> << >>]
<1>1. NewInterface(eth, ip) = [eth |-> eth, ip |-> ip, rtable |-> table, pending |-> {},
                               queued |-> table, received |-> << >>]
    BY DEF NewInterface
<1>2. table \in [IPs -> Seq(Entries)] /\ table \in [IPs -> Seq(Q)] /\ << >> \in Seq(R)
    OBVIOUS
<1>3. \A a \in IPs : table[a] = << >>
    OBVIOUS
<1>4. AgesFall(<< >>)
    BY DEF AgesFall
<1> HIDE DEF table
<1>5. NewInterface(eth, ip) \in InterfaceType(Q, R)
    BY <1>1, <1>2 DEF InterfaceType
<1>6. NewInterface(eth, ip).rtable = table
    BY <1>1
<1> QED
    BY <1>3, <1>4, <1>5, <1>6 DEF Interfaces

\* The parts of an interface.
LEMMA FieldsOfInterface ==
    ASSUME NEW Q, NEW R, NEW n \in Interfaces(Q, R)
    PROVE  /\ n \in InterfaceType(Q, R)
           /\ n.eth \in Eths /\ n.ip \in IPs
           /\ n.rtable \in [IPs -> Seq(Entries)]
           /\ n.pending \in SUBSET Requests
           /\ n.queued \in [IPs -> Seq(Q)]
           /\ n.received \in Seq(R)
           /\ \A ip \in IPs : n.rtable[ip] \in Seq(Entries) /\ AgesFall(n.rtable[ip])
BY DEF Interfaces, InterfaceType

\* An interface with other datagrams received.
LEMMA OtherReceived ==
    ASSUME NEW Q, NEW R, NEW S, NEW n \in Interfaces(Q, R), NEW received \in Seq(S)
    PROVE  LET m == [n EXCEPT !.received = received] IN
           m \in Interfaces(Q, S) /\ m.received = received
<1> DEFINE m == [n EXCEPT !.received = received]
<1>0. n \in InterfaceType(Q, R) /\ \A ip \in IPs : AgesFall(n.rtable[ip])
    BY DEF Interfaces
<1>1. m \in InterfaceType(Q, S) /\ m.rtable = n.rtable /\ m.received = received
    BY <1>0 DEF InterfaceType
<1> HIDE DEF m
<1>2. m \in Interfaces(Q, S)
    BY <1>0, <1>1 DEF Interfaces
<1> QED
    BY <1>1, <1>2 DEF m

\* send_datagram: to a known hop, to one that was asked for, and to another.
LEMMA SendDatagramFits ==
    ASSUME NEW Q, NEW R, NEW n \in Interfaces(Q, R), NEW dgram \in Q, NEW hop \in IPs
    PROVE  /\ Transmitted(SendDatagram(n, dgram, hop), Q, R)
           /\ SendDatagram(n, dgram, hop).n.received = n.received
<1> DEFINE step == SendDatagram(n, dgram, hop)
           queue == [n.queued EXCEPT ![hop] = Append(@, dgram)]
           asked == n.pending \cup {[ip |-> hop, age |-> 0]}
           queues == [n EXCEPT !.queued = queue]
           asks == [queues EXCEPT !.pending = asked]
<1>0. /\ << >> \in Seq(Frames(Q))
      /\ n \in InterfaceType(Q, R) /\ \A ip \in IPs : AgesFall(n.rtable[ip])
    BY DEF Interfaces
<1>1. CASE Knows(n, hop)
    <2> DEFINE eth == n.rtable[hop][1].eth
               frame == DatagramFrame(dgram, eth)
    <2>1. step = [n |-> n, datagrams |-> << frame >>, arp |-> << >>]
        BY <1>1 DEF SendDatagram
    <2>2. n.rtable[hop] \in Seq(Entries) /\ n.rtable[hop] # << >>
        BY <1>1, FieldsOfInterface DEF Knows
    <2>3. 1 \in 1 .. Len(n.rtable[hop])
        BY <2>2, EmptySeq, LenProperties
    <2>4. eth \in Eths
        BY <2>2, <2>3, EntryTypes
    <2> HIDE DEF eth
    <2>5. frame \in Frames(Q)
        BY <2>4 DEF DatagramFrame, Frames
    <2> HIDE DEF frame, step
    <2>6. << frame >> \in Seq(Frames(Q))
        BY <2>5
    <2>7. /\ step.n = n /\ step.datagrams = << frame >> /\ step.arp = << >>
        BY <2>1
    <2> QED
        BY <1>0, <2>6, <2>7 DEF Transmitted, step
<1>2. n.queued[hop] \in Seq(Q) /\ n.queued \in [IPs -> Seq(Q)]
    BY FieldsOfInterface
<1>3. queue \in [IPs -> Seq(Q)]
    <2>1. Append(n.queued[hop], dgram) \in Seq(Q)
        BY <1>2, AppendProperties
    <2> QED
        BY <1>2, <2>1
<1>4. asked \in SUBSET Requests
    <2>1. [ip |-> hop, age |-> 0] \in Requests
        BY LivesAssumption DEF Requests
    <2> QED
        BY <2>1, FieldsOfInterface
<1> HIDE DEF queue, asked
<1>5. /\ queues \in InterfaceType(Q, R) /\ queues.rtable = n.rtable
      /\ queues.received = n.received
    BY <1>0, <1>3 DEF InterfaceType
<1>6. queues \in Interfaces(Q, R)
    BY <1>0, <1>5 DEF Interfaces
<1>7. CASE ~Knows(n, hop) /\ AskedRecently(n, hop)
    <2>1. step = [n |-> queues, datagrams |-> << >>, arp |-> << >>]
        BY <1>7 DEF SendDatagram, queue
    <2> HIDE DEF queues, step
    <2>2. step.n = queues /\ step.datagrams = << >> /\ step.arp = << >>
        BY <2>1
    <2> QED
        BY <1>0, <1>5, <1>6, <2>2 DEF Transmitted, step
<1>8. CASE ~Knows(n, hop) /\ ~AskedRecently(n, hop)
    <2> DEFINE frame == ArpRequest(n, hop)
    <2>1. step = [n |-> asks, datagrams |-> << >>, arp |-> << frame >>]
        BY <1>5, <1>8, queues.pending = n.pending DEF SendDatagram, queue, asked
    <2>2. frame \in Frames(Q)
        <3>1. n.eth \in Eths /\ n.ip \in IPs
            BY FieldsOfInterface
        <3> QED
            BY <3>1 DEF ArpRequest, PackArp, ArpFrame, Frames, Arps
    <2> HIDE DEF queues
    <2>3. /\ asks \in InterfaceType(Q, R) /\ asks.rtable = queues.rtable
          /\ asks.received = queues.received
        BY <1>4, <1>5 DEF InterfaceType
    <2> HIDE DEF asks, frame, step
    <2>4. asks \in Interfaces(Q, R)
        BY <1>5, <2>3, FieldsOfInterface DEF Interfaces
    <2>5. << frame >> \in Seq(Frames(Q))
        BY <2>2
    <2>6. step.n = asks /\ step.datagrams = << >> /\ step.arp = << frame >>
        BY <2>1
    <2> QED
        BY <1>0, <1>5, <2>3, <2>4, <2>5, <2>6 DEF Transmitted, step
<1> QED
    BY <1>1, <1>7, <1>8

\* recv_frame with a datagram or an ARP message.
LEMMA RecvFrameFits ==
    ASSUME NEW Q, NEW R, NEW n \in Interfaces(Q, {}), NEW frame \in Frames(R)
    PROVE  LET step == RecvFrame(n, frame) IN
           /\ Transmitted(step, Q, R)
           /\ \/ step.n.received = << >>
              \/ /\ frame.type = "IPv4" /\ frame.dgram \in R
                 /\ step.n.received = << frame.dgram >>
<1> DEFINE step == RecvFrame(n, frame)
<1>0. << >> \in Seq(Frames(Q)) /\ n.received = << >>
    BY FieldsOfInterface
<1>1. n \in Interfaces(Q, R)
    <2>1. [n EXCEPT !.received = << >>] \in Interfaces(Q, R)
        BY OtherReceived, EmptySeq
    <2>2. [n EXCEPT !.received = << >>] = n
        BY <1>0, FieldsOfInterface DEF InterfaceType
    <2> QED
        BY <2>1, <2>2
<1>2. CASE ~ForUs(n, frame)
    <2>1. step = [n |-> n, datagrams |-> << >>, arp |-> << >>]
        BY <1>2 DEF RecvFrame
    <2> QED
        BY <1>0, <1>1, <2>1 DEF Transmitted
<1>3. CASE ForUs(n, frame) /\ frame.type = "IPv4"
    <2> DEFINE m == [n EXCEPT !.received = << frame.dgram >>]
    <2>1. frame.dgram \in R
        BY <1>3 DEF Frames
    <2>2. << frame.dgram >> \in Seq(R) /\ Append(n.received, frame.dgram) = << frame.dgram >>
        BY <1>0, <2>1
    <2>3. step = [n |-> m, datagrams |-> << >>, arp |-> << >>]
        BY <1>3, <2>2 DEF RecvFrame
    <2>4. m \in Interfaces(Q, R) /\ m.received = << frame.dgram >>
        <3> DEFINE one == << frame.dgram >>
        <3>1. one \in Seq(R) /\ m = [n EXCEPT !.received = one]
            BY <2>2
        <3> HIDE DEF one, m
        <3>2. m \in Interfaces(Q, R) /\ m.received = one
            BY <3>1, OtherReceived
        <3> QED
            BY <3>2 DEF one
    <2> HIDE DEF m, step
    <2>5. step.n = m /\ step.datagrams = << >> /\ step.arp = << >>
        BY <2>3
    <2> QED
        BY <1>0, <1>3, <2>1, <2>4, <2>5 DEF Transmitted, step
<1>4. CASE ForUs(n, frame) /\ frame.type # "IPv4"
    <2> DEFINE ip == frame.arp.senderIP
               eth == frame.arp.senderEth
               table == [n.rtable EXCEPT ![ip] = Append(@, [eth |-> eth, age |-> 0])]
               left == {r \in n.pending : r.ip # ip}
               queue == [n.queued EXCEPT ![ip] = << >>]
               learned == [n EXCEPT !.rtable = table]
               m == [learned EXCEPT !.pending = left, !.queued = queue]
               waited == n.queued[ip]
               frames == [i \in 1 .. Len(waited) |-> DatagramFrame(waited[i], eth)]
               reply == ReplyTo(n, frame.arp)
    <2>1. frame.arp \in Arps
        BY <1>4 DEF Frames
    <2>2. ip \in IPs /\ eth \in Eths
        BY <2>1 DEF Arps
    <2>3. waited \in Seq(Q) /\ Len(waited) \in Nat /\ DOMAIN waited = 1 .. Len(waited)
        BY <2>2, FieldsOfInterface, LenProperties
    <2>4. Learns(n, ip, eth) = learned
        BY DEF Learns
    <2>5. learned.pending = n.pending /\ learned.queued = n.queued
        BY FieldsOfInterface DEF InterfaceType
    <2>6. Flushed(learned, ip) = m
        BY <2>5 DEF Flushed
    <2>7. FlushedFrames(n, ip, eth) = frames
        BY <2>3 DEF FlushedFrames
    <2>8. step = [n |-> m, datagrams |-> frames, arp |-> reply]
        BY <1>4, <2>4, <2>6, <2>7 DEF RecvFrame
    <2>9. n.eth \in Eths /\ n.ip \in IPs /\ n \in InterfaceType(Q, R)
        BY <1>1, FieldsOfInterface
    <2>10. reply \in Seq(Frames(Q))
        <3>1. ArpReply(n, frame.arp) \in Frames(Q)
            BY <2>1, <2>9 DEF ArpReply, PackArp, ArpFrame, Frames, Arps
        <3> HIDE DEF ip, eth
        <3>2. << ArpReply(n, frame.arp) >> \in Seq(Frames(Q))
            BY <3>1
        <3> QED
            BY <1>0, <3>2 DEF ReplyTo
    <2> HIDE DEF ip, eth, reply
    <2>11. [eth |-> eth, age |-> 0] \in Entries
        BY <2>2, LivesAssumption DEF Entries
    <2>12. n.rtable[ip] \in Seq(Entries) /\ n.rtable \in [IPs -> Seq(Entries)]
           /\ n.queued \in [IPs -> Seq(Q)] /\ \A a \in IPs : AgesFall(n.rtable[a])
        BY <2>2, FieldsOfInterface
    <2>13. /\ Append(n.rtable[ip], [eth |-> eth, age |-> 0]) \in Seq(Entries)
           /\ AgesFall(Append(n.rtable[ip], [eth |-> eth, age |-> 0]))
        BY <2>2, <2>11, <2>12, AppendProperties, AppendKeepsOrder
    <2>14. table \in [IPs -> Seq(Entries)] /\ \A a \in IPs : AgesFall(table[a])
        BY <2>2, <2>12, <2>13
    <2>15. queue \in [IPs -> Seq(Q)]
        BY <2>12, EmptySeq
    <2>16. left \in SUBSET Requests
        BY FieldsOfInterface
    <2> HIDE DEF table, queue, left
    <2>17. /\ learned \in InterfaceType(Q, R) /\ learned.rtable = table
           /\ learned.received = n.received
        BY <2>9, <2>14 DEF InterfaceType
    <2> HIDE DEF learned
    <2>18. m \in InterfaceType(Q, R) /\ m.rtable = table /\ m.received = n.received
        BY <2>15, <2>16, <2>17 DEF InterfaceType
    <2> HIDE DEF m, waited
    <2>19. m \in Interfaces(Q, R)
        BY <2>14, <2>18 DEF Interfaces
    <2>20. \A i \in 1 .. Len(waited) : DatagramFrame(waited[i], eth) \in Frames(Q)
        <3> SUFFICES ASSUME NEW i \in 1 .. Len(waited)
                     PROVE  DatagramFrame(waited[i], eth) \in Frames(Q)
            OBVIOUS
        <3>1. waited[i] \in Q
            BY <2>3, ElementOfSeq
        <3> QED
            BY <2>2, <3>1 DEF DatagramFrame, Frames
    <2>21. frames \in [1 .. Len(waited) -> Frames(Q)]
        BY <2>20
    <2> HIDE DEF frames, step
    <2>22. frames \in Seq(Frames(Q))
        BY <2>3, <2>21, SeqDef
    <2>23. step.n = m /\ step.datagrams = frames /\ step.arp = reply
        BY <2>8
    <2> QED
        BY <1>0, <2>10, <2>18, <2>19, <2>22, <2>23 DEF Transmitted, step
<1> QED
    BY <1>2, <1>3, <1>4

\* tick.
LEMMA InterfaceTickFits ==
    ASSUME NEW Q, NEW R, NEW n \in Interfaces(Q, R), NEW ms \in Nat
    PROVE  /\ InterfaceTick(n, ms) \in Interfaces(Q, R)
           /\ InterfaceTick(n, ms).received = n.received
<1> DEFINE table == [ip \in IPs |-> Aged(n.rtable[ip], ms)]
           left == PendingAged(n.pending, ms)
           m == InterfaceTick(n, ms)
<1>0. n \in InterfaceType(Q, R)
    BY DEF Interfaces
<1>1. \A ip \in IPs : Aged(n.rtable[ip], ms) \in Seq(Entries)
                      /\ AgesFall(Aged(n.rtable[ip], ms))
    BY FieldsOfInterface, AgedIsTheRest
<1>2. table \in [IPs -> Seq(Entries)] /\ \A ip \in IPs : AgesFall(table[ip])
    BY <1>1
<1>3. left \in SUBSET Requests
    <2> SUFFICES ASSUME NEW r \in n.pending, r.age + ms <= RequestLife
                 PROVE  [ip |-> r.ip, age |-> r.age + ms] \in Requests
        BY DEF PendingAged
    <2>1. r.ip \in IPs /\ r.age \in 0 .. RequestLife
        BY FieldsOfInterface DEF Requests
    <2>2. r.age + ms \in 0 .. RequestLife
        BY <2>1, LivesAssumption
    <2> QED
        BY <2>1, <2>2 DEF Requests
<1>4. m = [n EXCEPT !.rtable = table, !.pending = left]
    BY DEF InterfaceTick
<1> HIDE DEF table, left, m
<1>5. m \in InterfaceType(Q, R) /\ m.rtable = table /\ m.received = n.received
    BY <1>0, <1>2, <1>3, <1>4 DEF InterfaceType
<1> QED
    BY <1>2, <1>5 DEF Interfaces, m

-----------------------------------------------------------------------------
(***************************************************************************)
(* The routing table.                                                      *)
(***************************************************************************)
Kind(route) == << route.prefix, route.length >>

\* The table after the routes up to the k-th: one entry for each kind of route
\* among them, the last one added of that kind.
Stands(table, added, k) ==
    /\ table \in Seq(Routes)
    /\ \A p, q \in DOMAIN table : Kind(table[p]) = Kind(table[q]) => p = q
    /\ \A p \in DOMAIN table : \E i \in 1 .. k :
          /\ table[p] = added[i]
          /\ \A j \in 1 .. k : Kind(added[j]) = Kind(added[i]) => j <= i
    /\ \A j \in 1 .. k : \E p \in DOMAIN table : Kind(table[p]) = Kind(added[j])

\* A route that replaces the first entry of its kind, or comes last.
LEMMA AddRouteIs ==
    ASSUME NEW table \in Seq(Routes), NEW route \in Routes
    PROVE  \/ /\ \A p \in DOMAIN table : Kind(table[p]) # Kind(route)
              /\ AddRoute(table, route) = Append(table, route)
           \/ \E p \in DOMAIN table :
                 /\ Kind(table[p]) = Kind(route)
                 /\ AddRoute(table, route) = [table EXCEPT ![p] = route]
<1> DEFINE same == SamePrefix(table, route)
           first == CHOOSE i \in same : \A j \in same : i <= j
<1>1. \A p : p \in same <=> p \in DOMAIN table /\ Kind(table[p]) = Kind(route)
    BY DEF SamePrefix, Kind
<1>2. same \in SUBSET Nat
    <2>1. DOMAIN table = 1 .. Len(table) /\ Len(table) \in Nat
        BY LenProperties
    <2> QED
        BY <1>1, <2>1
<1>3. AddRoute(table, route) = IF same = {} THEN Append(table, route)
                               ELSE [table EXCEPT ![first] = route]
    BY DEF AddRoute
<1> HIDE DEF same
<1>4. CASE same = {}
    BY <1>1, <1>3, <1>4
<1>5. CASE same # {}
    <2>1. \E i \in same : \A j \in same : i <= j
        BY <1>2, <1>5, SmallestOne
    <2>2. first \in same
        BY <2>1
    <2> HIDE DEF first
    <2> QED
        BY <1>1, <1>3, <1>5, <2>2
<1> QED
    BY <1>4, <1>5

\* Adding the next route keeps one entry for each kind, the last added.
LEMMA AddRouteStands ==
    ASSUME NEW added \in Seq(Routes), NEW k \in 1 .. Len(added),
           NEW table, Stands(table, added, k - 1)
    PROVE  Stands(AddRoute(table, added[k]), added, k)
<1> DEFINE route == added[k]
           next == AddRoute(table, route)
<1>1. route \in Routes /\ k - 1 \in Nat /\ k \in Nat
    BY LenProperties, ElementOfSeq
<1>2. /\ table \in Seq(Routes)
      /\ \A p, q \in DOMAIN table : Kind(table[p]) = Kind(table[q]) => p = q
      /\ \A p \in DOMAIN table : \E i \in 1 .. k - 1 :
            /\ table[p] = added[i]
            /\ \A j \in 1 .. k - 1 : Kind(added[j]) = Kind(added[i]) => j <= i
      /\ \A j \in 1 .. k - 1 : \E p \in DOMAIN table : Kind(table[p]) = Kind(added[j])
    BY DEF Stands
<1>3. Len(table) \in Nat /\ DOMAIN table = 1 .. Len(table)
    BY <1>2, LenProperties
<1>4. \A j \in 1 .. k : j # k => j \in 1 .. k - 1
    BY <1>1
\* Where the new route stands, and that all else stays where it was.
<1>5. \E p \in DOMAIN next :
         /\ next \in Seq(Routes) /\ next[p] = route
         /\ \A q \in DOMAIN next : q # p =>
               q \in DOMAIN table /\ next[q] = table[q] /\ Kind(table[q]) # Kind(route)
         /\ \A q \in DOMAIN table : Kind(table[q]) # Kind(route) =>
               q \in DOMAIN next /\ next[q] = table[q]
    <2>1. CASE /\ \A p \in DOMAIN table : Kind(table[p]) # Kind(route)
               /\ next = Append(table, route)
        <3> HIDE DEF next, route
        <3>1. /\ next \in Seq(Routes) /\ Len(next) = Len(table) + 1
              /\ \A q \in 1 .. Len(table) : next[q] = table[q]
              /\ next[Len(table) + 1] = route
            BY <1>1, <1>2, <2>1, AppendProperties DEF route
        <3>2. DOMAIN next = 1 .. Len(table) + 1
            BY <3>1, LenProperties
        <3>3. /\ Len(table) + 1 \in DOMAIN next
              /\ \A q \in DOMAIN next : q # Len(table) + 1 => q \in DOMAIN table
              /\ \A q \in DOMAIN table : q \in DOMAIN next
            BY <1>3, <3>2
        <3> QED
            BY <1>3, <2>1, <3>1, <3>3
    <2>2. CASE \E p \in DOMAIN table :
                  Kind(table[p]) = Kind(route) /\ next = [table EXCEPT ![p] = route]
        <3>1. PICK p \in DOMAIN table :
                  Kind(table[p]) = Kind(route) /\ next = [table EXCEPT ![p] = route]
            BY <2>2
        <3> HIDE DEF next, route
        <3>2. next \in Seq(Routes) /\ DOMAIN next = DOMAIN table
            <4>1. table \in [1 .. Len(table) -> Routes]
                BY <1>2, LenProperties
            <4>2. next \in [1 .. Len(table) -> Routes]
                BY <1>1, <3>1, <4>1 DEF route
            <4> QED
                BY <1>3, <4>2, SeqDef
        <3>3. next[p] = route /\ \A q \in DOMAIN table : q # p => next[q] = table[q]
            BY <3>1
        <3>4. \A q \in DOMAIN table : q # p => Kind(table[q]) # Kind(route)
            BY <1>2, <3>1
        <3> QED
            BY <3>1, <3>2, <3>3, <3>4
    <2> QED
        BY <1>1, <1>2, <2>1, <2>2, AddRouteIs
<1>6. PICK p \in DOMAIN next :
         /\ next \in Seq(Routes) /\ next[p] = route
         /\ \A q \in DOMAIN next : q # p =>
               q \in DOMAIN table /\ next[q] = table[q] /\ Kind(table[q]) # Kind(route)
         /\ \A q \in DOMAIN table : Kind(table[q]) # Kind(route) =>
               q \in DOMAIN next /\ next[q] = table[q]
    BY <1>5
<1> HIDE DEF next
<1>7. ASSUME NEW q \in DOMAIN next, NEW r \in DOMAIN next, Kind(next[q]) = Kind(next[r])
      PROVE  q = r
    BY <1>2, <1>6, <1>7
<1>8. ASSUME NEW q \in DOMAIN next
      PROVE  \E i \in 1 .. k :
                /\ next[q] = added[i]
                /\ \A j \in 1 .. k : Kind(added[j]) = Kind(added[i]) => j <= i
    <2>1. CASE q = p
        <3>1. k \in 1 .. k /\ \A j \in 1 .. k : j <= k
            BY <1>1
        <3> QED
            BY <1>6, <2>1, <3>1
    <2>2. CASE q # p
        <3>1. /\ q \in DOMAIN table /\ next[q] = table[q]
              /\ Kind(table[q]) # Kind(added[k])
            BY <1>6, <2>2
        <3>2. PICK i \in 1 .. k - 1 :
                 /\ table[q] = added[i]
                 /\ \A j \in 1 .. k - 1 : Kind(added[j]) = Kind(added[i]) => j <= i
            BY <1>2, <3>1
        <3>3. i \in 1 .. k
            BY <1>1
        <3> QED
            BY <1>4, <3>1, <3>2, <3>3
    <2> QED
        BY <2>1, <2>2
<1>9. ASSUME NEW j \in 1 .. k PROVE \E q \in DOMAIN next : Kind(next[q]) = Kind(added[j])
    <2>1. CASE Kind(added[j]) = Kind(route)
        BY <1>6, <2>1
    <2>2. CASE Kind(added[j]) # Kind(route)
        <3>1. j \in 1 .. k - 1
            BY <1>4, <2>2
        <3>2. PICK q \in DOMAIN table : Kind(table[q]) = Kind(added[j])
            BY <1>2, <3>1
        <3> QED
            BY <1>6, <2>2, <3>2
    <2> QED
        BY <2>1, <2>2
<1> QED
    BY <1>6, <1>7, <1>8, <1>9 DEF Stands, next

\* add_route for all of them: the function over the calls, and what stands then.
LEMMA AddRoutesStands ==
    ASSUME NEW added \in Seq(Routes)
    PROVE  Stands(AddRoutes(added), added, Len(added))
<1> DEFINE n == Len(added)
           Is(f) == f = [i \in 0 .. n |->
                            IF i = 0 THEN << >> ELSE AddRoute(f[i - 1], added[i])]
           table == CHOOSE f : Is(f)
           g == [y \in (1 .. n) \X Seq(Routes) |-> AddRoute(y[2], added[y[1]])]
           none == << >>
<1>0. AddRoutes(added) = table[n]
    BY DEF AddRoutes
<1>1. n \in Nat /\ \A i \in 1 .. n : added[i] \in Routes
    BY LenProperties, ElementOfSeq
<1>2. none \in Seq(Routes) /\ Stands(none, added, 0)
    BY DEF Stands
<1> HIDE DEF n, none
<1>3. \A t \in Seq(Routes) : \A route \in Routes : AddRoute(t, route) \in Seq(Routes)
    <2> SUFFICES ASSUME NEW t \in Seq(Routes), NEW route \in Routes
                 PROVE  AddRoute(t, route) \in Seq(Routes)
        OBVIOUS
    <2>1. CASE AddRoute(t, route) = Append(t, route)
        BY <2>1, AppendProperties
    <2>2. CASE \E p \in DOMAIN t : AddRoute(t, route) = [t EXCEPT ![p] = route]
        <3>1. t \in [1 .. Len(t) -> Routes] /\ Len(t) \in Nat
            BY LenProperties
        <3>2. AddRoute(t, route) \in [1 .. Len(t) -> Routes]
            BY <2>2, <3>1
        <3> QED
            BY <3>1, <3>2, SeqDef
    <2> QED
        BY <2>1, <2>2, AddRouteIs
<1>4. g \in [(1 .. n) \X Seq(Routes) -> Seq(Routes)]
    BY <1>1, <1>3
<1>5. PICK f : Pass(f, Seq(Routes), none, g, n)
    <2> HIDE DEF g
    <2> QED
        BY <1>1, <1>2, <1>4, Accumulates
<1>6. Is(f)
    <2>1. /\ f \in [0 .. n -> Seq(Routes)]
          /\ \A i \in 0 .. n : f[i] = IF i = 0 THEN none ELSE g[<< i, f[i - 1] >>]
        BY <1>5 DEF Pass
    <2>2. \A i \in 0 .. n : i # 0 => i - 1 \in 0 .. n /\ i \in 1 .. n
        BY <1>1
    <2>3. \A i \in 0 .. n : i # 0 => g[<< i, f[i - 1] >>] = AddRoute(f[i - 1], added[i])
        BY <2>1, <2>2
    <2>4. \A i \in 0 .. n : f[i] = IF i = 0 THEN << >> ELSE AddRoute(f[i - 1], added[i])
        <3> HIDE DEF g
        <3> QED
            BY <2>1, <2>3 DEF none
    <2> QED
        BY <2>1, <2>4
<1> HIDE DEF Is
<1>7. Is(table)
    BY <1>6
<1> HIDE DEF table
<1>8. \A i \in 0 .. n : table[i] = IF i = 0 THEN << >> ELSE AddRoute(table[i - 1], added[i])
    <2>1. table = [i \in 0 .. n |->
                      IF i = 0 THEN << >> ELSE AddRoute(table[i - 1], added[i])]
        BY <1>7 DEF Is
    <2> QED
        BY <2>1
\* Which stays true from call to call.
<1> DEFINE S == {y \in (0 .. n) \X Seq(Routes) : Stands(y[2], added, y[1])}
           h == [i \in 0 .. n |-> << i, table[i] >>]
<1>9. h[0] \in S /\ 0 \in 0 .. n
    <2>1. 0 \in 0 .. n
        BY <1>1
    <2>2. table[0] = none
        BY <1>8, <2>1 DEF none
    <2>3. table[0] \in Seq(Routes) /\ Stands(table[0], added, 0)
        BY <1>2, <2>2
    <2> QED
        BY <2>1, <2>3
<1>10. ASSUME NEW i \in 0 .. n, i # 0, h[i - 1] \in S PROVE h[i] \in S
    <2>1. i - 1 \in 0 .. n /\ i \in 1 .. n
        BY <1>1, <1>10
    <2>2. Stands(table[i - 1], added, i - 1)
        BY <1>10, <2>1
    <2>3. Stands(table[i], added, i)
        BY <1>8, <1>10, <2>1, <2>2, AddRouteStands DEF n
    <2>4. table[i] \in Seq(Routes)
        BY <2>3 DEF Stands
    <2> QED
        BY <2>3, <2>4
<1>11. \A i \in 0 .. n : h[i] \in S
    <2> HIDE DEF h, S
    <2> QED
        BY <1>1, <1>9, <1>10, StaysIn
<1>12. h[n] \in S /\ h[n] = << n, table[n] >>
    BY <1>1, <1>11
<1> QED
    BY <1>0, <1>12 DEF n

\* What the scan has found among the first k entries: nothing as long as none
\* matches, and then one that matches of the longest.
Found(best, table, ip, k) ==
    \/ /\ best = << >>
       /\ \A p \in 1 .. k : ~IfMatch(ip, table[p].prefix, table[p].length)
    \/ \E p \in 1 .. k :
          /\ best = << table[p] >>
          /\ IfMatch(ip, table[p].prefix, table[p].length)
          /\ \A q \in 1 .. k : IfMatch(ip, table[q].prefix, table[q].length) =>
                table[q].length <= table[p].length

Bests(table) == {<< >>} \cup {<< table[p] >> : p \in DOMAIN table}

\* One turn of the loop in route() over one more entry.
LEMMA ScanFinds ==
    ASSUME NEW table \in Seq(Routes), NEW ip, NEW k \in 1 .. Len(table),
           NEW best, Found(best, table, ip, k - 1)
    PROVE  Found(IF LongerMatches(best, table[k], ip) THEN << table[k] >> ELSE best,
                 table, ip, k)
<1> DEFINE fits(p) == IfMatch(ip, table[p].prefix, table[p].length)
           next == IF LongerMatches(best, table[k], ip) THEN << table[k] >> ELSE best
<1>1. Len(table) \in Nat /\ k \in Nat /\ \A p \in 1 .. k : table[p].length \in Int
    <2>1. Len(table) \in Nat /\ \A p \in 1 .. Len(table) : table[p] \in Routes
        BY LenProperties, ElementOfSeq
    <2>2. \A p \in 1 .. k : p \in 1 .. Len(table)
        BY <2>1
    <2> QED
        BY <2>1, <2>2, AddressAssumption DEF Routes
<1>2. k \in 1 .. k /\ \A p \in 1 .. k : p \in 1 .. k - 1 \/ p = k
    BY <1>1
<1>3. \A p \in 1 .. k - 1 : p \in 1 .. k
    BY <1>1
<1>4. \/ best = << >> /\ \A p \in 1 .. k - 1 : ~fits(p)
      \/ \E p \in 1 .. k - 1 : /\ best = << table[p] >> /\ fits(p)
                               /\ \A q \in 1 .. k - 1 : fits(q) => table[q].length <= table[p].length
    BY DEF Found
<1>5. LongerMatches(best, table[k], ip)
         <=> fits(k) /\ (best = << >> \/ table[k].length > best[1].length)
    BY DEF LongerMatches
<1>6. SUFFICES \/ next = << >> /\ \A p \in 1 .. k : ~fits(p)
               \/ \E p \in 1 .. k : /\ next = << table[p] >> /\ fits(p)
                                    /\ \A q \in 1 .. k : fits(q) => table[q].length <= table[p].length
    BY DEF Found
<1> HIDE DEF fits
<1>7. CASE best = << >> /\ \A p \in 1 .. k - 1 : ~fits(p)
    BY <1>1, <1>2, <1>5, <1>7
<1>8. CASE \E p \in 1 .. k - 1 : /\ best = << table[p] >> /\ fits(p)
                                 /\ \A q \in 1 .. k - 1 : fits(q) => table[q].length <= table[p].length
    <2>1. PICK p \in 1 .. k - 1 :
              /\ best = << table[p] >> /\ fits(p)
              /\ \A q \in 1 .. k - 1 : fits(q) => table[q].length <= table[p].length
        BY <1>8
    <2>2. best # << >> /\ best[1] = table[p] /\ p \in 1 .. k
        BY <1>3, <2>1
    <2>3. CASE fits(k) /\ table[k].length > table[p].length
        <3>1. next = << table[k] >>
            BY <1>5, <2>2, <2>3
        <3>2. ASSUME NEW q \in 1 .. k, fits(q) PROVE table[q].length <= table[k].length
            <4>1. /\ table[q].length \in Int /\ table[k].length \in Int
                  /\ table[p].length \in Int
                BY <1>1, <1>2, <2>2
            <4>2. q = k \/ table[q].length <= table[p].length
                BY <1>2, <2>1, <3>2
            <4> QED
                BY <2>3, <4>1, <4>2
        <3> QED
            BY <1>2, <2>3, <3>1, <3>2
    <2>4. CASE ~(fits(k) /\ table[k].length > table[p].length)
        <3>1. next = << table[p] >>
            BY <1>5, <2>1, <2>2, <2>4
        <3>2. \A q \in 1 .. k : fits(q) => table[q].length <= table[p].length
            BY <1>1, <1>2, <2>1, <2>2, <2>4
        <3> QED
            BY <2>1, <2>2, <3>1, <3>2
    <2> QED
        BY <2>3, <2>4
<1> QED
    BY <1>4, <1>7, <1>8

\* So the whole loop finds the longest match, if there is one.
LEMMA BestMatchFinds ==
    ASSUME NEW table \in Seq(Routes), NEW ip
    PROVE  Found(BestMatch(table, ip), table, ip, Len(table))
<1> DEFINE n == Len(table)
           turn(b, i) == IF LongerMatches(b, table[i], ip) THEN << table[i] >> ELSE b
           Is(f) == f = [i \in 0 .. n |-> IF i = 0 THEN << >> ELSE turn(f[i - 1], i)]
           best == CHOOSE f : Is(f)
           S == Bests(table)
           g == [y \in (1 .. n) \X S |-> turn(y[2], y[1])]
           none == << >>
<1>0. BestMatch(table, ip) = best[n]
    BY DEF BestMatch
<1>1. n \in Nat /\ DOMAIN table = 1 .. n
    BY LenProperties
<1>2. none \in S /\ Found(none, table, ip, 0)
    BY DEF Bests, Found
<1> HIDE DEF n, none
<1>3. \A b \in S : \A i \in 1 .. n : turn(b, i) \in S
    BY <1>1 DEF Bests
<1> HIDE DEF turn
<1>4. g \in [(1 .. n) \X S -> S]
    BY <1>3
<1>5. PICK f : Pass(f, S, none, g, n)
    <2> HIDE DEF g, S
    <2> QED
        BY <1>1, <1>2, <1>4, Accumulates
<1>6. Is(f)
    <2>1. /\ f \in [0 .. n -> S]
          /\ \A i \in 0 .. n : f[i] = IF i = 0 THEN none ELSE g[<< i, f[i - 1] >>]
        BY <1>5 DEF Pass
    <2>2. \A i \in 0 .. n : i # 0 => i - 1 \in 0 .. n /\ i \in 1 .. n
        BY <1>1
    <2>3. \A i \in 0 .. n : i # 0 => g[<< i, f[i - 1] >>] = turn(f[i - 1], i)
        BY <2>1, <2>2
    <2>4. \A i \in 0 .. n : f[i] = IF i = 0 THEN << >> ELSE turn(f[i - 1], i)
        <3> HIDE DEF g
        <3> QED
            BY <2>1, <2>3 DEF none
    <2> QED
        BY <2>1, <2>4
<1> HIDE DEF Is
<1>7. Is(best)
    BY <1>6
<1> HIDE DEF best
<1>8. \A i \in 0 .. n : best[i] = IF i = 0 THEN << >> ELSE turn(best[i - 1], i)
    <2>1. best = [i \in 0 .. n |-> IF i = 0 THEN << >> ELSE turn(best[i - 1], i)]
        BY <1>7 DEF Is
    <2> QED
        BY <2>1
<1> DEFINE T == {i \in 0 .. n : Found(best[i], table, ip, i)}
           h == [i \in 0 .. n |-> i]
<1>9. h[0] \in T /\ 0 \in 0 .. n
    <2>1. 0 \in 0 .. n
        BY <1>1
    <2>2. best[0] = none
        BY <1>8, <2>1 DEF none
    <2>3. Found(best[0], table, ip, 0)
        BY <1>2, <2>2
    <2> QED
        BY <2>1, <2>3
<1>10. ASSUME NEW i \in 0 .. n, i # 0, h[i - 1] \in T PROVE h[i] \in T
    <2>1. i - 1 \in 0 .. n /\ i \in 1 .. n
        BY <1>1, <1>10
    <2>2. Found(best[i - 1], table, ip, i - 1)
        BY <1>10, <2>1
    <2>3. Found(turn(best[i - 1], i), table, ip, i)
        BY <2>1, <2>2, ScanFinds DEF n, turn
    <2> QED
        BY <1>8, <1>10, <2>3
<1>11. \A i \in 0 .. n : h[i] \in T
    <2> HIDE DEF h, T
    <2> QED
        BY <1>1, <1>9, <1>10, StaysIn
<1>12. n \in T
    BY <1>1, <1>11
<1> QED
    BY <1>0, <1>12 DEF n

\* The entry found is the route of those added that applies, if a network is
\* written one way.
LEMMA BestIsWhatApplies ==
    ASSUME NEW added \in Seq(Routes), NEW ip,
           \A i, j \in Matches(added, ip) :
              added[i].length = added[j].length => added[i].prefix = added[j].prefix
    PROVE  LET best == BestMatch(AddRoutes(added), ip) IN
           IF Matches(added, ip) = {} THEN best = << >>
           ELSE \E i \in DOMAIN added : Applies(added, ip, i) /\ best = << added[i] >>
<1> DEFINE table == AddRoutes(added)
           n == Len(added)
           m == Len(table)
           best == BestMatch(table, ip)
           fits(e) == IfMatch(ip, e.prefix, e.length)
<1>1. Stands(table, added, n)
    BY AddRoutesStands
<1> HIDE DEF table
<1>2. table \in Seq(Routes) /\ n \in Nat /\ DOMAIN added = 1 .. n
    BY <1>1, LenProperties DEF Stands
<1>3. m \in Nat /\ DOMAIN table = 1 .. m
    BY <1>2, LenProperties
<1>4. Found(best, table, ip, m)
    BY <1>2, BestMatchFinds
<1> HIDE DEF best, n, m
<1>5. /\ \A p \in 1 .. m : \E i \in 1 .. n :
            /\ table[p] = added[i]
            /\ \A j \in 1 .. n : Kind(added[j]) = Kind(added[i]) => j <= i
      /\ \A j \in 1 .. n : \E p \in 1 .. m : Kind(table[p]) = Kind(added[j])
    BY <1>1, <1>3 DEF Stands
<1>6. \A i : i \in Matches(added, ip) <=> i \in 1 .. n /\ fits(added[i])
    BY <1>2 DEF Matches
<1>7. \A d, e : Kind(d) = Kind(e) <=> d.prefix = e.prefix /\ d.length = e.length
    BY DEF Kind
<1>8. \A d, e : Kind(d) = Kind(e) => (fits(d) <=> fits(e)) /\ d.length = e.length
    BY <1>7
<1>9. CASE best = << >> /\ \A p \in 1 .. m : ~fits(table[p])
    <2>1. Matches(added, ip) = {}
        BY <1>5, <1>6, <1>8, <1>9
    <2> QED
        BY <1>9, <2>1 DEF best, table
<1>10. CASE \E p \in 1 .. m :
               /\ best = << table[p] >> /\ fits(table[p])
               /\ \A q \in 1 .. m : fits(table[q]) => table[q].length <= table[p].length
    <2>1. PICK p \in 1 .. m :
               /\ best = << table[p] >> /\ fits(table[p])
               /\ \A q \in 1 .. m : fits(table[q]) => table[q].length <= table[p].length
        BY <1>10
    <2>2. PICK i \in 1 .. n :
             /\ table[p] = added[i]
             /\ \A j \in 1 .. n : Kind(added[j]) = Kind(added[i]) => j <= i
        BY <1>5
    <2> HIDE DEF fits
    <2>3. i \in Matches(added, ip)
        BY <1>6, <2>1, <2>2
    <2>4. ASSUME NEW j \in Matches(added, ip)
          PROVE  \/ added[j].length < added[i].length
                 \/ added[j].length = added[i].length /\ j <= i
        <3>0. added[j].length \in Int /\ added[i].length \in Int
            <4>1. \A k \in 1 .. n : added[k] \in Routes
                BY ElementOfSeq DEF n
            <4> QED
                BY <1>6, <4>1, AddressAssumption DEF Routes
        <3>1. j \in 1 .. n /\ fits(added[j])
            BY <1>6
        <3>2. PICK q \in 1 .. m : Kind(table[q]) = Kind(added[j])
            BY <1>5, <3>1
        <3>3. table[q].length = added[j].length /\ fits(table[q])
            BY <1>8, <3>1, <3>2
        <3>4. added[j].length <= added[i].length
            BY <2>1, <2>2, <3>3
        <3>5. ASSUME added[j].length = added[i].length PROVE j <= i
            <4>1. added[j].prefix = added[i].prefix
                BY <2>3, <3>5
            <4>2. Kind(added[j]) = Kind(added[i])
                BY <1>7, <3>5, <4>1
            <4> QED
                BY <2>2, <3>1, <4>2
        <3> QED
            BY <3>0, <3>4, <3>5
    <2>5. Applies(added, ip, i) /\ i \in DOMAIN added
        BY <1>2, <2>3, <2>4 DEF Applies
    <2>6. best = << added[i] >> /\ Matches(added, ip) # {}
        BY <2>1, <2>2, <2>3
    <2> QED
        BY <2>5, <2>6 DEF best, table
<1> QED
    BY <1>4, <1>9, <1>10 DEF Found

-----------------------------------------------------------------------------
(***************************************************************************)
(* A router: what each of its interfaces may keep and transmit is a set of *)
(* its own, Q[1] and Q[2], and what they receive is from R.                *)
(***************************************************************************)
Dgrams == [src : IPs, dst : IPs, ttl : 1 .. InitialTTL, sum : Nat, tcp : BOOLEAN,
           sport : Nat, dport : Nat, msg : WireMessage]

\* Datagrams that may have their checksum put right.
Repairable(R) == R \subseteq Dgrams /\ \A d \in R : [d EXCEPT !.sum = d.ttl] \in R

Pairs(S) == {f \in [1 .. 2 -> S[1] \cup S[2]] : f[1] \in S[1] /\ f[2] \in S[2]}

RouterIfaces(Q, R) == Pairs([k \in 1 .. 2 |-> Interfaces(Q[k], R)])
RouterOut(Q)       == Pairs([k \in 1 .. 2 |-> Seq(Frames(Q[k]))])
RouterSteps(Q, R)  == [ifaces : RouterIfaces(Q, R), out : RouterOut(Q)]

\* What the table sends on, of R, is in the set of the interface it takes.
SentOn(table, Q, R) ==
    \A d \in R :
        LET best == BestMatch(table, d.dst) IN
        d.ttl > 1 /\ best # << >> =>
            [d EXCEPT !.ttl = d.ttl - 1] \in Q[best[1].iface]

\* What an interface has received may belong to a smaller or a larger set.
LEMMA ReceivedElsewhere ==
    ASSUME NEW Q, NEW R, NEW S, NEW n \in Interfaces(Q, R), n.received \in Seq(S)
    PROVE  n \in Interfaces(Q, S)
<1>1. n \in InterfaceType(Q, R) /\ \A ip \in IPs : AgesFall(n.rtable[ip])
    BY DEF Interfaces
<1>2. n \in InterfaceType(Q, S)
    BY <1>1 DEF InterfaceType
<1> QED
    BY <1>1, <1>2 DEF Interfaces

\* An interface that may have received nothing has an empty queue.
LEMMA NothingReceived ==
    ASSUME NEW Q, NEW R, NEW n \in Interfaces(Q, {})
    PROVE  n.received = << >> /\ n \in Interfaces(Q, R)
<1>1. n.received \in Seq({})
    BY FieldsOfInterface
<1>2. n.received = << >> /\ << >> \in Seq(R)
    BY <1>1
<1> QED
    BY <1>2, ReceivedElsewhere

\* A frame as it arrives, with its checksum put right.
LEMMA ArrivesFits ==
    ASSUME NEW Q, NEW R, Repairable(R), NEW n \in Interfaces(Q, {}), NEW frame \in Frames(R)
    PROVE  LET step == Arrives(n, frame) IN
           /\ Transmitted(step, Q, R)
           /\ \/ step.n.received = << >>
              \/ /\ frame.type = "IPv4" /\ frame.dgram \in R
                 /\ step.n.received = << [frame.dgram EXCEPT !.sum = frame.dgram.ttl] >>
<1>1. CASE frame.type = "IPv4"
    <2> DEFINE d == [frame.dgram EXCEPT !.sum = frame.dgram.ttl]
               right == [frame EXCEPT !.dgram = d]
    <2>1. frame \in [dst : Eths \cup {Broadcast}, type : {"IPv4"}, dgram : R]
        BY <1>1 DEF Frames
    <2>2. frame.dgram \in R
        BY <2>1
    <2>3. d \in R
        BY <2>2 DEF Repairable
    <2>4. Arrives(n, frame) = RecvFrame(n, right)
        BY <1>1 DEF Arrives
    <2> HIDE DEF d
    <2>5. /\ right \in [dst : Eths \cup {Broadcast}, type : {"IPv4"}, dgram : R]
          /\ right.dgram = d
        BY <2>1, <2>3
    <2> HIDE DEF right
    <2>6. right \in Frames(R)
        BY <2>5 DEF Frames
    <2>7. LET step == RecvFrame(n, right) IN
          /\ Transmitted(step, Q, R)
          /\ step.n.received = << >> \/ step.n.received = << right.dgram >>
        BY <2>6, RecvFrameFits
    <2> QED
        BY <1>1, <2>2, <2>4, <2>5, <2>7 DEF d
<1>2. CASE frame.type # "IPv4"
    <2>1. Arrives(n, frame) = RecvFrame(n, frame)
        BY <1>2 DEF Arrives
    <2> QED
        BY <1>2, <2>1, RecvFrameFits
<1> QED
    BY <1>1, <1>2

\* A pair with one part replaced.
LEMMA PairChanges ==
    ASSUME NEW S, NEW f \in Pairs(S), NEW k \in 1 .. 2, NEW v \in S[k]
    PROVE  LET g == [f EXCEPT ![k] = v] IN
           /\ g \in Pairs(S) /\ g[k] = v
           /\ \A j \in 1 .. 2 : j # k => g[j] = f[j]
<1> DEFINE g == [f EXCEPT ![k] = v]
<1>1. f \in [1 .. 2 -> S[1] \cup S[2]] /\ f[1] \in S[1] /\ f[2] \in S[2]
    BY DEF Pairs
<1>2. k = 1 \/ k = 2
    OBVIOUS
<1>3. g[k] = v /\ \A j \in 1 .. 2 : j # k => g[j] = f[j]
    BY <1>1
<1>4. g \in [1 .. 2 -> S[1] \cup S[2]]
    BY <1>1, <1>2
<1> HIDE DEF g
<1>5. g[1] \in S[1] /\ g[2] \in S[2]
    BY <1>1, <1>2, <1>3
<1>6. g \in Pairs(S)
    BY <1>4, <1>5 DEF Pairs
<1> QED
    BY <1>3, <1>6 DEF g

\* Each part of a pair is of its own set.
LEMMA PairMembers ==
    ASSUME NEW S, NEW f \in Pairs(S), NEW k \in 1 .. 2
    PROVE  f[k] \in S[k]
<1>1. k = 1 \/ k = 2
    OBVIOUS
<1> QED
    BY <1>1 DEF Pairs

\* The parts of a step of the router.
LEMMA FieldsOfStep ==
    ASSUME NEW Q, NEW R, NEW step \in RouterSteps(Q, R)
    PROVE  /\ step.ifaces \in RouterIfaces(Q, R) /\ step.out \in RouterOut(Q)
           /\ \A k \in 1 .. 2 : /\ step.ifaces[k] \in Interfaces(Q[k], R)
                                /\ step.out[k] \in Seq(Frames(Q[k]))
<1>1. step.ifaces \in RouterIfaces(Q, R) /\ step.out \in RouterOut(Q)
    BY DEF RouterSteps
<1>2. ASSUME NEW k \in 1 .. 2
      PROVE  step.ifaces[k] \in Interfaces(Q[k], R) /\ step.out[k] \in Seq(Frames(Q[k]))
    <2> DEFINE A == [j \in 1 .. 2 |-> Interfaces(Q[j], R)]
               B == [j \in 1 .. 2 |-> Seq(Frames(Q[j]))]
    <2>1. A[k] = Interfaces(Q[k], R) /\ B[k] = Seq(Frames(Q[k]))
        OBVIOUS
    <2>2. step.ifaces \in Pairs(A) /\ step.out \in Pairs(B)
        BY <1>1 DEF RouterIfaces, RouterOut
    <2> HIDE DEF A, B
    <2> QED
        BY <2>1, <2>2, PairMembers
<1> QED
    BY <1>1, <1>2

\* A step with another state of one interface.
LEMMA IfaceChanges ==
    ASSUME NEW Q, NEW R, NEW step \in RouterSteps(Q, R), NEW k \in 1 .. 2,
           NEW m \in Interfaces(Q[k], R)
    PROVE  LET next == [step EXCEPT !.ifaces = [step.ifaces EXCEPT ![k] = m]] IN
           /\ next \in RouterSteps(Q, R) /\ next.ifaces[k] = m
           /\ \A j \in 1 .. 2 : j # k => next.ifaces[j] = step.ifaces[j]
<1> DEFINE f == step.ifaces
           ifaces == [f EXCEPT ![k] = m]
           next == [step EXCEPT !.ifaces = ifaces]
           A == [j \in 1 .. 2 |-> Interfaces(Q[j], R)]
<1>1. A[k] = Interfaces(Q[k], R)
    OBVIOUS
<1>2. f \in Pairs(A)
    BY FieldsOfStep DEF RouterIfaces
<1> HIDE DEF A, f
<1>3. /\ ifaces \in Pairs(A) /\ ifaces[k] = m
      /\ \A j \in 1 .. 2 : j # k => ifaces[j] = f[j]
    BY <1>1, <1>2, PairChanges
<1> HIDE DEF ifaces
<1>4. ifaces \in RouterIfaces(Q, R)
    BY <1>3 DEF RouterIfaces, A
<1>5. next \in RouterSteps(Q, R) /\ next.ifaces = ifaces
    BY <1>4 DEF RouterSteps
<1> HIDE DEF next
<1> QED
    BY <1>3, <1>5 DEF f, ifaces, next

\* A step in which interface k has transmitted something more.
LEMMA TransmitsFits ==
    ASSUME NEW Q, NEW R, NEW step \in RouterSteps(Q, R), NEW k \in 1 .. 2,
           NEW sends, Transmitted(sends, Q[k], R)
    PROVE  LET next == Transmits(step, k, sends) IN
           /\ next \in RouterSteps(Q, R) /\ next.ifaces[k] = sends.n
           /\ \A j \in 1 .. 2 : j # k => next.ifaces[j] = step.ifaces[j]
<1> DEFINE ifaces == [step.ifaces EXCEPT ![k] = sends.n]
           sent == step.out[k] \o sends.datagrams \o sends.arp
           out == [step.out EXCEPT ![k] = sent]
           A == [j \in 1 .. 2 |-> Interfaces(Q[j], R)]
           B == [j \in 1 .. 2 |-> Seq(Frames(Q[j]))]
           next == [step EXCEPT !.ifaces = ifaces, !.out = out]
<1>0. Transmits(step, k, sends) = next
    BY DEF Transmits
<1>1. /\ sends.n \in Interfaces(Q[k], R)
      /\ sends.datagrams \in Seq(Frames(Q[k])) /\ sends.arp \in Seq(Frames(Q[k]))
    BY DEF Transmitted
<1>2. sent \in Seq(Frames(Q[k]))
    <2> DEFINE F == Frames(Q[k])
               a == step.out[k]
               b == sends.datagrams
               c == sends.arp
    <2>1. a \in Seq(F) /\ b \in Seq(F) /\ c \in Seq(F)
        BY <1>1, FieldsOfStep
    <2> HIDE DEF F, a, b, c
    <2>2. a \o b \in Seq(F)
        BY <2>1, ConcatProperties
    <2>3. (a \o b) \o c \in Seq(F)
        BY <2>1, <2>2, ConcatProperties
    <2> QED
        BY <2>3 DEF F, a, b, c
<1>3. A[k] = Interfaces(Q[k], R) /\ B[k] = Seq(Frames(Q[k]))
    OBVIOUS
<1>4. step.ifaces \in Pairs(A) /\ step.out \in Pairs(B)
    BY FieldsOfStep DEF RouterIfaces, RouterOut
<1> HIDE DEF A, B, sent
<1>5. /\ ifaces \in Pairs(A) /\ ifaces[k] = sends.n
      /\ \A j \in 1 .. 2 : j # k => ifaces[j] = step.ifaces[j]
    <2> DEFINE f == step.ifaces
               v == sends.n
    <2>1. f \in Pairs(A) /\ v \in A[k]
        BY <1>1, <1>3, <1>4
    <2> HIDE DEF f, v
    <2>2. LET e == [f EXCEPT ![k] = v] IN
          /\ e \in Pairs(A) /\ e[k] = v /\ \A j \in 1 .. 2 : j # k => e[j] = f[j]
        BY <2>1, PairChanges
    <2> QED
        BY <2>2 DEF f, v
<1>6. out \in Pairs(B)
    BY <1>2, <1>3, <1>4, PairChanges
<1> HIDE DEF ifaces, out
<1>7. ifaces \in RouterIfaces(Q, R) /\ out \in RouterOut(Q)
    BY <1>5, <1>6 DEF RouterIfaces, RouterOut, A, B
<1>8. next \in RouterSteps(Q, R) /\ next.ifaces = ifaces
    BY <1>7 DEF RouterSteps
<1> HIDE DEF next
<1> QED
    BY <1>0, <1>5, <1>8

\* One datagram forwarded.
LEMMA ForwardFits ==
    ASSUME NEW Q, NEW R, R \subseteq Dgrams, NEW table \in Seq(Routes),
           SentOn(table, Q, R), NEW step \in RouterSteps(Q, R), NEW d \in R
    PROVE  LET next == Forward(table, step, d) IN
           /\ next \in RouterSteps(Q, R)
           /\ \A j \in 1 .. 2 : next.ifaces[j].received = step.ifaces[j].received
<1> DEFINE best == BestMatch(table, d.dst)
           i == best[1].iface
           hop == IF best[1].hop = NoHop THEN d.dst ELSE best[1].hop
           less == [d EXCEPT !.ttl = d.ttl - 1]
           sends == SendDatagram(step.ifaces[i], less, hop)
<1>1. Forward(table, step, d) = IF d.ttl <= 1 \/ best = << >> THEN step
                                ELSE Transmits(step, i, sends)
    BY DEF Forward
<1>2. CASE d.ttl <= 1 \/ best = << >>
    BY <1>1, <1>2
<1>3. CASE ~(d.ttl <= 1 \/ best = << >>)
    <2>1. d.dst \in IPs /\ d.ttl \in Int
        BY TTLAssumption DEF Dgrams
    <2>2. less \in Q[i]
        BY <1>3, <2>1 DEF SentOn
    <2>3. Found(best, table, d.dst, Len(table))
        BY BestMatchFinds
    <2> HIDE DEF best
    <2>4. PICK p \in 1 .. Len(table) : best = << table[p] >>
        BY <1>3, <2>3 DEF Found
    <2>5. best[1] \in Routes
        BY <2>4, ElementOfSeq
    <2>6. i \in 1 .. 2 /\ hop \in IPs
        BY <2>1, <2>5 DEF Routes, HostSide, InternetSide
    <2> HIDE DEF i, hop, less
    <2>7. step.ifaces[i] \in Interfaces(Q[i], R)
        BY <2>6, FieldsOfStep
    <2>8. Transmitted(sends, Q[i], R) /\ sends.n.received = step.ifaces[i].received
        BY <2>2, <2>6, <2>7, SendDatagramFits
    <2> HIDE DEF sends
    <2>9. LET next == Transmits(step, i, sends) IN
          /\ next \in RouterSteps(Q, R) /\ next.ifaces[i] = sends.n
          /\ \A j \in 1 .. 2 : j # i => next.ifaces[j] = step.ifaces[j]
        BY <2>6, <2>8, TransmitsFits
    <2> QED
        BY <1>1, <1>3, <2>8, <2>9
<1> QED
    BY <1>2, <1>3

\* All that interface i has received.
LEMMA RouteFromFits ==
    ASSUME NEW Q, NEW R, R \subseteq Dgrams, NEW table \in Seq(Routes),
           SentOn(table, Q, R), NEW step \in RouterSteps(Q, R), NEW i \in 1 .. 2
    PROVE  LET next == RouteFrom(table, step, i) IN
           /\ next \in RouterSteps(Q, R) /\ next.ifaces[i].received = << >>
           /\ \A j \in 1 .. 2 : j # i =>
                 next.ifaces[j].received = step.ifaces[j].received
<1> DEFINE queue == step.ifaces[i].received
           n == Len(queue)
           S == {x \in RouterSteps(Q, R) :
                    \A j \in 1 .. 2 : x.ifaces[j].received = step.ifaces[j].received}
           Is(f) == f = [j \in 0 .. n |-> IF j = 0 THEN step
                                         ELSE Forward(table, f[j - 1], queue[j])]
           sent == CHOOSE f : Is(f)
           g == [y \in (1 .. n) \X S |-> Forward(table, y[2], queue[y[1]])]
<1>0. RouteFrom(table, step, i) = [sent[n] EXCEPT !.ifaces[i].received = << >>]
    BY DEF RouteFrom
<1>1. queue \in Seq(R)
    BY FieldsOfStep, FieldsOfInterface
<1> HIDE DEF queue
<1>2. n \in Nat /\ \A j \in 1 .. n : queue[j] \in R
    BY <1>1, LenProperties, ElementOfSeq
<1>3. step \in S
    OBVIOUS
<1>4. \A x \in S : \A j \in 1 .. n : Forward(table, x, queue[j]) \in S
    <2> SUFFICES ASSUME NEW x \in S, NEW j \in 1 .. n
                 PROVE  Forward(table, x, queue[j]) \in S
        OBVIOUS
    <2>1. /\ Forward(table, x, queue[j]) \in RouterSteps(Q, R)
          /\ \A k \in 1 .. 2 :
                Forward(table, x, queue[j]).ifaces[k].received = x.ifaces[k].received
        BY <1>2, ForwardFits
    <2> QED
        BY <2>1
<1> HIDE DEF n, S
<1>5. g \in [(1 .. n) \X S -> S]
    BY <1>4
<1>6. PICK f : Pass(f, S, step, g, n)
    <2> HIDE DEF g
    <2> QED
        BY <1>2, <1>3, <1>5, Accumulates
<1>7. Is(f)
    <2>1. /\ f \in [0 .. n -> S]
          /\ \A j \in 0 .. n : f[j] = IF j = 0 THEN step ELSE g[<< j, f[j - 1] >>]
        BY <1>6 DEF Pass
    <2>2. \A j \in 0 .. n : j # 0 => j - 1 \in 0 .. n /\ j \in 1 .. n
        BY <1>2
    <2>3. \A j \in 0 .. n : j # 0 => g[<< j, f[j - 1] >>] = Forward(table, f[j - 1], queue[j])
        BY <2>1, <2>2
    <2>4. \A j \in 0 .. n : f[j] = IF j = 0 THEN step ELSE Forward(table, f[j - 1], queue[j])
        <3> HIDE DEF g
        <3> QED
            BY <2>1, <2>3
    <2> QED
        BY <2>1, <2>4
<1> HIDE DEF Is
<1>8. Is(sent)
    BY <1>7
<1> HIDE DEF sent
<1>9. \A j \in 0 .. n : sent[j] = IF j = 0 THEN step ELSE Forward(table, sent[j - 1], queue[j])
    <2>1. sent = [j \in 0 .. n |-> IF j = 0 THEN step
                                   ELSE Forward(table, sent[j - 1], queue[j])]
        BY <1>8 DEF Is
    <2> QED
        BY <2>1
<1>10. sent[0] \in S /\ 0 \in 0 .. n /\ n \in 0 .. n
    BY <1>2, <1>3, <1>9
<1>11. \A j \in 0 .. n : j # 0 /\ sent[j - 1] \in S => sent[j] \in S
    <2> SUFFICES ASSUME NEW j \in 0 .. n, j # 0, sent[j - 1] \in S PROVE sent[j] \in S
        OBVIOUS
    <2>1. j \in 1 .. n
        BY <1>2
    <2> QED
        BY <1>4, <1>9, <2>1
<1>12. \A j \in 0 .. n : sent[j] \in S
    BY <1>2, <1>10, <1>11, StaysIn
<1> DEFINE x == sent[n]
<1>13. /\ x \in RouterSteps(Q, R)
       /\ \A j \in 1 .. 2 : x.ifaces[j].received = step.ifaces[j].received
    BY <1>10, <1>12 DEF S
<1> HIDE DEF x
<1> DEFINE old == x.ifaces[i]
           none == << >>
           m == [old EXCEPT !.received = none]
           next == [x EXCEPT !.ifaces = [x.ifaces EXCEPT ![i] = m]]
<1>14. RouteFrom(table, step, i) = next
    BY <1>0 DEF x
<1>15. m \in Interfaces(Q[i], R) /\ m.received = << >>
    <2> DEFINE Own == Q[i]
    <2>1. old \in Interfaces(Own, R)
        BY <1>13, FieldsOfStep
    <2>2. none \in Seq(R)
        OBVIOUS
    <2> HIDE DEF old, none, Own
    <2>3. m \in Interfaces(Own, R) /\ m.received = none
        BY <2>1, <2>2, OtherReceived
    <2> QED
        BY <2>3 DEF Own, none
<1> HIDE DEF m
<1>16. /\ next \in RouterSteps(Q, R) /\ next.ifaces[i] = m
       /\ \A j \in 1 .. 2 : j # i => next.ifaces[j] = x.ifaces[j]
    <2>1. x \in RouterSteps(Q, R) /\ m \in Interfaces(Q[i], R)
        BY <1>13, <1>15
    <2> HIDE DEF queue, n, g, Is, S, sent
    <2> QED
        BY <2>1, IfaceChanges
<1> HIDE DEF next
<1> QED
    BY <1>13, <1>14, <1>15, <1>16

\* All interfaces in turn: what they received has been routed.
LEMMA RouteAllFits ==
    ASSUME NEW Q, NEW R, R \subseteq Dgrams, NEW table \in Seq(Routes),
           SentOn(table, Q, R), NEW step \in RouterSteps(Q, R)
    PROVE  RouteAll(table, step) \in RouterSteps(Q, {})
<1> DEFINE n == Len(step.ifaces)
           S == RouterSteps(Q, R)
           Is(f) == f = [j \in 0 .. n |-> IF j = 0 THEN step
                                         ELSE RouteFrom(table, f[j - 1], j)]
           sent == CHOOSE f : Is(f)
           g == [y \in (1 .. n) \X S |-> RouteFrom(table, y[2], y[1])]
<1>0. RouteAll(table, step) = sent[n]
    BY DEF RouteAll
<1>1. n = 2
    <2> DEFINE F == Interfaces(Q[1], R) \cup Interfaces(Q[2], R)
           m == 2
    <2>1. step.ifaces \in [1 .. m -> F] /\ m \in Nat
        BY FieldsOfStep DEF RouterIfaces, Pairs
    <2> HIDE DEF F, m
    <2>2. step.ifaces \in Seq(F) /\ DOMAIN step.ifaces = 1 .. m
        BY <2>1, SeqDef
    <2>3. n \in Nat /\ DOMAIN step.ifaces = 1 .. n
        BY <2>2, LenProperties
    <2> HIDE DEF n
    <2>4. 1 .. n = 1 .. m
        BY <2>2, <2>3
    <2>5. m \in 1 .. n /\ n \in 1 .. n
        BY <2>1, <2>3, <2>4 DEF m
    <2> QED
        BY <2>3, <2>4, <2>5 DEF m
<1> HIDE DEF n
<1>2. \A x \in S : \A i \in 1 .. 2 :
         LET next == RouteFrom(table, x, i) IN
         /\ next \in S /\ next.ifaces[i].received = << >>
         /\ \A j \in 1 .. 2 : j # i => next.ifaces[j].received = x.ifaces[j].received
    BY RouteFromFits
<1> HIDE DEF S
<1>3. g \in [(1 .. n) \X S -> S] /\ step \in S
    BY <1>1, <1>2 DEF S
<1>4. PICK f : Pass(f, S, step, g, n)
    <2> HIDE DEF g
    <2> QED
        BY <1>1, <1>3, Accumulates
<1>5. Is(f)
    <2>1. /\ f \in [0 .. n -> S]
          /\ \A j \in 0 .. n : f[j] = IF j = 0 THEN step ELSE g[<< j, f[j - 1] >>]
        BY <1>4 DEF Pass
    <2>2. \A j \in 0 .. n : j # 0 => j - 1 \in 0 .. n /\ j \in 1 .. n
        BY <1>1
    <2>3. \A j \in 0 .. n : j # 0 => g[<< j, f[j - 1] >>] = RouteFrom(table, f[j - 1], j)
        BY <2>1, <2>2
    <2>4. \A j \in 0 .. n : f[j] = IF j = 0 THEN step ELSE RouteFrom(table, f[j - 1], j)
        <3> HIDE DEF g
        <3> QED
            BY <2>1, <2>3
    <2> QED
        BY <2>1, <2>4
<1> HIDE DEF Is
<1>6. Is(sent)
    BY <1>5
<1> HIDE DEF sent
<1>7. \A j \in 0 .. n : sent[j] = IF j = 0 THEN step ELSE RouteFrom(table, sent[j - 1], j)
    <2>1. sent = [j \in 0 .. n |-> IF j = 0 THEN step ELSE RouteFrom(table, sent[j - 1], j)]
        BY <1>6 DEF Is
    <2> QED
        BY <2>1
<1>8. sent[0] = step /\ sent[1] = RouteFrom(table, sent[0], 1)
      /\ sent[2] = RouteFrom(table, sent[1], 2)
    BY <1>1, <1>7
<1>9. sent[1] \in S /\ sent[1].ifaces[1].received = << >>
    BY <1>2, <1>3, <1>8
<1>10. /\ sent[2] \in S /\ sent[2].ifaces[2].received = << >>
       /\ sent[2].ifaces[1].received = << >>
    BY <1>2, <1>8, <1>9
<1> DEFINE x == sent[2]
           A == [j \in 1 .. 2 |-> Interfaces(Q[j], {})]
<1> HIDE DEF x
<1>11. x.ifaces \in RouterIfaces(Q, R) /\ x.out \in RouterOut(Q)
       /\ x = [ifaces |-> x.ifaces, out |-> x.out]
    BY <1>10 DEF RouterSteps, S, x
<1>12. \A k \in 1 .. 2 : x.ifaces[k] \in Interfaces(Q[k], {})
    <2> SUFFICES ASSUME NEW k \in 1 .. 2 PROVE x.ifaces[k] \in Interfaces(Q[k], {})
        OBVIOUS
    <2>1. x.ifaces[k] \in Interfaces(Q[k], R)
        BY <1>10, FieldsOfStep DEF S, x
    <2>2. k = 1 \/ k = 2
        OBVIOUS
    <2>3. x.ifaces[k].received = << >>
        BY <1>10, <2>2 DEF x
    <2>4. x.ifaces[k].received \in Seq({})
        BY <2>3, EmptySeq
    <2> QED
        BY <2>1, <2>4, ReceivedElsewhere
<1>13. x.ifaces \in Pairs(A)
    <2>1. A[1] = Interfaces(Q[1], {}) /\ A[2] = Interfaces(Q[2], {})
        OBVIOUS
    <2>2. x.ifaces[1] \in A[1] /\ x.ifaces[2] \in A[2]
        BY <1>12, <2>1
    <2>3. DOMAIN x.ifaces = 1 .. 2 /\ x.ifaces = [k \in 1 .. 2 |-> x.ifaces[k]]
        BY <1>11 DEF RouterIfaces, Pairs
    <2> HIDE DEF A
    <2>4. \A k \in 1 .. 2 : x.ifaces[k] \in A[1] \cup A[2]
        <3>1. \A k \in 1 .. 2 : k = 1 \/ k = 2
            OBVIOUS
        <3> QED
            BY <2>2, <3>1
    <2>5. x.ifaces \in [1 .. 2 -> A[1] \cup A[2]]
        BY <2>3, <2>4
    <2> QED
        BY <2>2, <2>5 DEF Pairs
<1>14. x.ifaces \in RouterIfaces(Q, {})
    BY <1>13 DEF RouterIfaces
<1>15. x \in RouterSteps(Q, {})
    BY <1>11, <1>14 DEF RouterSteps
<1> QED
    BY <1>0, <1>1, <1>15 DEF x

\* recv_frame and route(): the interfaces have nothing left to route.
LEMMA RouterTakesFits ==
    ASSUME NEW Q, NEW R, Repairable(R), NEW r, r.rtable \in Seq(Routes),
           SentOn(r.rtable, Q, R), r.ifaces \in RouterIfaces(Q, {}),
           NEW i \in 1 .. 2, NEW frame \in Frames(R)
    PROVE  RouterTakes(r, i, frame) \in RouterSteps(Q, {})
<1> DEFINE none == << << >>, << >> >>
           begun == [ifaces |-> r.ifaces, out |-> none]
           sends == Arrives(r.ifaces[i], frame)
           A == [j \in 1 .. 2 |-> Interfaces(Q[j], {})]
           B == [j \in 1 .. 2 |-> Interfaces(Q[j], R)]
           C == [j \in 1 .. 2 |-> Seq(Frames(Q[j]))]
<1>1. r.ifaces \in Pairs(A)
    BY DEF RouterIfaces
<1>2. \A k \in 1 .. 2 : r.ifaces[k] \in Interfaces(Q[k], {})
    <2>1. \A k \in 1 .. 2 : A[k] = Interfaces(Q[k], {})
        OBVIOUS
    <2> HIDE DEF A
    <2> QED
        BY <1>1, <2>1, PairMembers
<1>3. r.ifaces = [k \in 1 .. 2 |-> r.ifaces[k]]
    BY <1>1 DEF Pairs
<1>4. \A k \in 1 .. 2 : r.ifaces[k] \in B[k]
    <2>1. \A k \in 1 .. 2 : B[k] = Interfaces(Q[k], R)
        OBVIOUS
    <2> HIDE DEF B
    <2> QED
        BY <1>2, <2>1, NothingReceived
<1>5. r.ifaces \in Pairs(B)
    <2> HIDE DEF B
    <2>1. \A k \in 1 .. 2 : k = 1 \/ k = 2
        OBVIOUS
    <2>2. r.ifaces \in [1 .. 2 -> B[1] \cup B[2]]
        BY <1>3, <1>4, <2>1
    <2> QED
        BY <1>4, <2>2 DEF Pairs
<1>6. none \in Pairs(C)
    <2>1. C[1] = Seq(Frames(Q[1])) /\ C[2] = Seq(Frames(Q[2]))
        OBVIOUS
    <2>2. none[1] \in C[1] /\ none[2] \in C[2]
        BY <2>1, EmptySeq
    <2> HIDE DEF C
    <2>3. \A k \in 1 .. 2 : k = 1 \/ k = 2
        OBVIOUS
    <2>4. none \in [1 .. 2 -> C[1] \cup C[2]]
        BY <2>2, <2>3
    <2> QED
        BY <2>2, <2>4 DEF Pairs
<1> HIDE DEF none
<1>7. begun \in RouterSteps(Q, R)
    BY <1>5, <1>6 DEF RouterSteps, RouterIfaces, RouterOut
<1>8. Transmitted(sends, Q[i], R)
    BY <1>2, ArrivesFits
<1> HIDE DEF begun, sends
<1>9. Transmits(begun, i, sends) \in RouterSteps(Q, R)
    BY <1>7, <1>8, TransmitsFits
<1>10. RouterTakes(r, i, frame) = RouteAll(r.rtable, Transmits(begun, i, sends))
    BY DEF RouterTakes, begun, sends, none
<1> QED
    BY <1>9, <1>10, RouteAllFits DEF Repairable

\* Time passes for both interfaces of a router.
LEMMA TickedFits ==
    ASSUME NEW Q, NEW ifaces \in RouterIfaces(Q, {}), NEW ms \in Nat
    PROVE  Ticked(ifaces, ms) \in RouterIfaces(Q, {})
<1> DEFINE A == [j \in 1 .. 2 |-> Interfaces(Q[j], {})]
           next == Ticked(ifaces, ms)
<1>1. ifaces \in Pairs(A)
    BY DEF RouterIfaces
<1>2. \A k \in 1 .. 2 : A[k] = Interfaces(Q[k], {})
    OBVIOUS
<1> HIDE DEF A
<1>3. next = [k \in 1 .. 2 |-> InterfaceTick(ifaces[k], ms)]
    BY <1>1 DEF Ticked, Pairs
<1>4. \A k \in 1 .. 2 : InterfaceTick(ifaces[k], ms) \in A[k]
    BY <1>1, <1>2, PairMembers, InterfaceTickFits
<1> HIDE DEF next
<1>5. \A k \in 1 .. 2 : k = 1 \/ k = 2
    OBVIOUS
<1>6. next \in [1 .. 2 -> A[1] \cup A[2]] /\ next[1] \in A[1] /\ next[2] \in A[2]
    BY <1>3, <1>4, <1>5
<1> QED
    BY <1>6 DEF RouterIfaces, Pairs, A, next

-----------------------------------------------------------------------------
(***************************************************************************)
(* A host: its adapter, its interface, which keeps datagrams of Q, and its *)
(* peer.                                                                   *)
(***************************************************************************)
Adapters == [source : [ip : IPs, port : Nat], destination : [ip : IPs, port : Nat],
             listening : BOOLEAN]

Hosts(Q) == [adapter : Adapters, iface : Interfaces(Q, {}),
             peer : {x \in PeerType : PeerFits(x)}, connected : BOOLEAN]

\* Whose address an adapter speaks from, and to whose.
Ends(a) == << a.source.ip, a.destination.ip >>

Sendable(a, Q) == \A msg \in WireMessage : WrapInIP(a, msg) \in Q

\* An adapter that speaks between two addresses of E sends what is in Q, and
\* what is in R has come between two addresses of E.
Converses(Q, R, E) ==
    /\ \A a \in Adapters : Ends(a) \in E => Sendable(a, Q)
    /\ \A d \in R : << d.dst, d.src >> \in E

\* The parts of a host.
LEMMA FieldsOfHost ==
    ASSUME NEW Q, NEW h \in Hosts(Q)
    PROVE  /\ h.adapter \in Adapters /\ h.iface \in Interfaces(Q, {})
           /\ PeerFits(h.peer) /\ h.connected \in BOOLEAN
           /\ h = [adapter |-> h.adapter, iface |-> h.iface, peer |-> h.peer,
                   connected |-> h.connected]
BY DEF Hosts

\* wrap_tcp_in_ip puts the adapter's two addresses and the initial TTL on a
\* datagram.
LEMMA WrapFits ==
    ASSUME NEW a \in Adapters, NEW msg \in WireMessage
    PROVE  LET d == WrapInIP(a, msg) IN
           /\ d \in Dgrams
           /\ d.src = a.source.ip /\ d.dst = a.destination.ip /\ d.ttl = InitialTTL
<1> DEFINE rst == msg.sender.RST \/ msg.receiver.RST
           snd == [msg.sender EXCEPT !.RST = rst]
           rcv == [msg.receiver EXCEPT !.RST = rst]
           wire == OnTheWire(msg)
           d == WrapInIP(a, msg)
<1>1. msg.sender \in Message /\ msg.receiver \in AckMessage
    BY DEF WireMessage
<1>2. rst \in BOOLEAN
    BY <1>1 DEF Message, AckMessage
<1>3. wire = [msg EXCEPT !.sender = snd, !.receiver = rcv]
    BY DEF OnTheWire, WireMessage
<1> HIDE DEF rst
<1>4. snd \in Message
    BY <1>1, <1>2 DEF Message
<1>5. rcv \in AckMessage
    BY <1>1, <1>2 DEF AckMessage
<1> HIDE DEF snd, rcv, wire
<1>6. wire \in WireMessage
    BY <1>3, <1>4, <1>5 DEF WireMessage
<1>7. d = [src |-> a.source.ip, dst |-> a.destination.ip, ttl |-> InitialTTL,
           sum |-> InitialTTL, tcp |-> TRUE, sport |-> a.source.port,
           dport |-> a.destination.port, msg |-> wire]
    BY DEF WrapInIP, wire
<1>8. /\ a.source.ip \in IPs /\ a.destination.ip \in IPs
      /\ a.source.port \in Nat /\ a.destination.port \in Nat
    BY DEF Adapters
<1>9. InitialTTL \in Nat /\ InitialTTL \in 1 .. InitialTTL
    BY TTLAssumption
<1> HIDE DEF d
<1>10. d \in Dgrams
    BY <1>6, <1>7, <1>8, <1>9 DEF Dgrams
<1>11. d.src = a.source.ip /\ d.dst = a.destination.ip /\ d.ttl = InitialTTL
    BY <1>7
<1> QED
    BY <1>10, <1>11 DEF d

\* One message written.
LEMMA WritesOneFits ==
    ASSUME NEW Q, NEW acc, NEW h \in Hosts(Q), acc.host = h, acc.out \in Seq(Frames(Q)),
           Sendable(h.adapter, Q), NEW gateway \in IPs, NEW msg \in WireMessage
    PROVE  LET next == WritesOne(acc, gateway, msg) IN
           /\ next = [host |-> next.host, out |-> next.out]
           /\ next.host \in Hosts(Q) /\ next.out \in Seq(Frames(Q))
           /\ next.host.adapter = h.adapter /\ next.host.peer = h.peer
           /\ next.host.connected = h.connected
<1> DEFINE d == WrapInIP(h.adapter, msg)
           sends == SendDatagram(h.iface, d, gateway)
           m == sends.n
           g == [h EXCEPT !.iface = m]
           out == acc.out \o sends.datagrams \o sends.arp
           next == WritesOne(acc, gateway, msg)
<1>1. next = [host |-> g, out |-> out]
    BY DEF WritesOne
<1>2. d \in Q
    BY DEF Sendable
<1>3. h.iface \in Interfaces(Q, {})
    BY FieldsOfHost
<1> HIDE DEF d
<1>4. Transmitted(sends, Q, {})
    BY <1>2, <1>3, SendDatagramFits
<1>5. m \in Interfaces(Q, {}) /\ sends.datagrams \in Seq(Frames(Q))
      /\ sends.arp \in Seq(Frames(Q))
    BY <1>4 DEF Transmitted
<1>6. out \in Seq(Frames(Q))
    <2> DEFINE F == Frames(Q)
               x == acc.out
               y == sends.datagrams
               z == sends.arp
    <2>1. x \in Seq(F) /\ y \in Seq(F) /\ z \in Seq(F)
        BY <1>5
    <2> HIDE DEF F, x, y, z
    <2>2. x \o y \in Seq(F)
        BY <2>1, ConcatProperties
    <2>3. (x \o y) \o z \in Seq(F)
        BY <2>1, <2>2, ConcatProperties
    <2> QED
        BY <2>3 DEF F, x, y, z
<1> HIDE DEF m, out, next
<1>7. /\ g \in Hosts(Q) /\ g.adapter = h.adapter /\ g.peer = h.peer
      /\ g.connected = h.connected
    BY <1>5 DEF Hosts
<1> HIDE DEF g
<1>8. next.host = g /\ next.out = out /\ next = [host |-> next.host, out |-> next.out]
    BY <1>1
<1> QED
    BY <1>6, <1>7, <1>8 DEF next

\* All messages: the host but for its interface is as it was.
LEMMA HostWritesFits ==
    ASSUME NEW Q, NEW h \in Hosts(Q), Sendable(h.adapter, Q), NEW gateway \in IPs,
           NEW msgs \in Seq(WireMessage)
    PROVE  LET wrote == HostWrites(h, gateway, msgs) IN
           /\ wrote.host \in Hosts(Q) /\ wrote.out \in Seq(Frames(Q))
           /\ wrote.host.adapter = h.adapter /\ wrote.host.peer = h.peer
           /\ wrote.host.connected = h.connected
<1> DEFINE n == Len(msgs)
           Same == {x \in Hosts(Q) : /\ x.adapter = h.adapter /\ x.peer = h.peer
                                     /\ x.connected = h.connected}
           S == [host : Same, out : Seq(Frames(Q))]
           none == << >>
           first == [host |-> h, out |-> none]
           Is(f) == f = [i \in 0 .. n |-> IF i = 0 THEN [host |-> h, out |-> << >>]
                                          ELSE WritesOne(f[i - 1], gateway, msgs[i])]
           wrote == CHOOSE f : Is(f)
           g == [y \in (1 .. n) \X S |-> WritesOne(y[2], gateway, msgs[y[1]])]
<1>0. HostWrites(h, gateway, msgs) = wrote[n]
    BY DEF HostWrites
<1>1. n \in Nat /\ \A i \in 1 .. n : msgs[i] \in WireMessage
    BY LenProperties, ElementOfSeq
<1>2. first \in S
    <2>1. none \in Seq(Frames(Q)) /\ h \in Same
        OBVIOUS
    <2> HIDE DEF none, Same
    <2> QED
        BY <2>1
<1>3. first = [host |-> h, out |-> << >>]
    OBVIOUS
<1> HIDE DEF n, first
<1>4. \A x \in S : \A i \in 1 .. n : WritesOne(x, gateway, msgs[i]) \in S
    <2> SUFFICES ASSUME NEW x \in S, NEW i \in 1 .. n
                 PROVE  WritesOne(x, gateway, msgs[i]) \in S
        OBVIOUS
    <2> DEFINE next == WritesOne(x, gateway, msgs[i])
               k == x.host
    <2>1. /\ k \in Hosts(Q) /\ k.adapter = h.adapter /\ k.peer = h.peer
          /\ k.connected = h.connected /\ x.out \in Seq(Frames(Q))
        OBVIOUS
    <2>2. msgs[i] \in WireMessage
        BY <1>1
    <2> HIDE DEF k
    <2>3. /\ next = [host |-> next.host, out |-> next.out]
          /\ next.host \in Hosts(Q) /\ next.out \in Seq(Frames(Q))
          /\ next.host.adapter = k.adapter /\ next.host.peer = k.peer
          /\ next.host.connected = k.connected
        BY <2>1, <2>2, WritesOneFits DEF k
    <2> HIDE DEF next
    <2>4. next.host \in Same
        BY <2>1, <2>3
    <2> HIDE DEF Same
    <2> QED
        BY <2>3, <2>4 DEF next
<1> HIDE DEF S
<1>5. g \in [(1 .. n) \X S -> S]
    BY <1>4
<1>6. PICK f : Pass(f, S, first, g, n)
    <2> HIDE DEF g
    <2> QED
        BY <1>1, <1>2, <1>5, Accumulates
<1>7. Is(f)
    <2>1. /\ f \in [0 .. n -> S]
          /\ \A i \in 0 .. n : f[i] = IF i = 0 THEN first ELSE g[<< i, f[i - 1] >>]
        BY <1>6 DEF Pass
    <2>2. \A i \in 0 .. n : i # 0 => i - 1 \in 0 .. n /\ i \in 1 .. n
        BY <1>1
    <2>3. \A i \in 0 .. n : i # 0 => g[<< i, f[i - 1] >>] = WritesOne(f[i - 1], gateway, msgs[i])
        BY <2>1, <2>2
    <2>4. \A i \in 0 .. n : f[i] = IF i = 0 THEN [host |-> h, out |-> << >>]
                                   ELSE WritesOne(f[i - 1], gateway, msgs[i])
        <3> HIDE DEF g
        <3> QED
            BY <1>3, <2>1, <2>3
    <2> QED
        BY <2>1, <2>4
<1> HIDE DEF Is
<1>8. Is(wrote)
    BY <1>7
<1> HIDE DEF wrote
<1>9. \A i \in 0 .. n : wrote[i] = IF i = 0 THEN first
                                   ELSE WritesOne(wrote[i - 1], gateway, msgs[i])
    <2>1. wrote = [i \in 0 .. n |-> IF i = 0 THEN [host |-> h, out |-> << >>]
                                    ELSE WritesOne(wrote[i - 1], gateway, msgs[i])]
        BY <1>8 DEF Is
    <2> QED
        BY <1>3, <2>1
<1>10. wrote[0] \in S /\ 0 \in 0 .. n /\ n \in 0 .. n
    BY <1>1, <1>2, <1>9
<1>11. \A i \in 0 .. n : i # 0 /\ wrote[i - 1] \in S => wrote[i] \in S
    <2> SUFFICES ASSUME NEW i \in 0 .. n, i # 0, wrote[i - 1] \in S PROVE wrote[i] \in S
        OBVIOUS
    <2>1. i \in 1 .. n
        BY <1>1
    <2> QED
        BY <1>4, <1>9, <2>1
<1>12. \A i \in 0 .. n : wrote[i] \in S
    BY <1>1, <1>10, <1>11, StaysIn
<1> QED
    BY <1>0, <1>10, <1>12 DEF S

\* A step of the peer.
LEMMA HostStepsFits ==
    ASSUME NEW Q, NEW h \in Hosts(Q), Sendable(h.adapter, Q), NEW gateway \in IPs,
           NEW step, StepFits(step)
    PROVE  LET sent == HostSteps(h, gateway, step) IN
           /\ sent.host \in Hosts(Q) /\ sent.out \in Seq(Frames(Q))
           /\ sent.host.adapter = h.adapter /\ sent.host.connected = h.connected
           /\ sent.host.peer = step.peer
<1> DEFINE p == step.peer
           msgs == step.out
           g == [h EXCEPT !.peer = p]
<1>1. PeerFits(p) /\ p \in PeerType /\ msgs \in Seq(WireMessage)
    BY DEF StepFits, PeerFits
<1>2. HostSteps(h, gateway, step) = HostWrites(g, gateway, msgs)
    BY DEF HostSteps
<1> HIDE DEF p, msgs
<1>3. /\ g \in Hosts(Q) /\ g.adapter = h.adapter /\ g.connected = h.connected
      /\ g.peer = p
    BY <1>1 DEF Hosts
<1> HIDE DEF g
<1> QED
    BY <1>1, <1>2, <1>3, HostWritesFits DEF p

\* What an adapter makes of a datagram.
LEMMA UnwrapFits ==
    ASSUME NEW a \in Adapters, NEW d \in Dgrams
    PROVE  LET got == UnwrapInIP(a, d) IN
           \/ got.adapter = a /\ got.msgs = << >>
           \/ /\ got.msgs = << d.msg >> /\ d.msg \in WireMessage
              /\ got.adapter \in Adapters /\ ~got.adapter.listening
              /\ got.adapter.destination = [ip |-> d.src, port |-> d.sport]
              /\ Ends(got.adapter) = << d.dst, d.src >>
              /\ a.listening \/ got.adapter = a
<1> DEFINE b == IF a.listening THEN Targets(a, d) ELSE a
           taken == /\ a.listening \/ OfThisPair(a, d)
                    /\ d.tcp /\ d.dport = a.source.port
                    /\ a.listening => Opens(d)
                    /\ d.sport = b.destination.port
           got == UnwrapInIP(a, d)
<1>1. got = IF taken THEN [adapter |-> b, msgs |-> << d.msg >>]
            ELSE [adapter |-> a, msgs |-> << >>]
    BY DEF UnwrapInIP
<1>2. /\ d.src \in IPs /\ d.dst \in IPs /\ d.sport \in Nat /\ d.msg \in WireMessage
    BY DEF Dgrams
<1>3. /\ a.source \in [ip : IPs, port : Nat] /\ a.destination \in [ip : IPs, port : Nat]
      /\ a.listening \in BOOLEAN
    BY DEF Adapters
<1>4. CASE taken
    <2> DEFINE t == Targets(a, d)
               from == [ip |-> d.dst, port |-> a.source.port]
               to == [ip |-> d.src, port |-> d.sport]
    <2>1. from \in [ip : IPs, port : Nat] /\ to \in [ip : IPs, port : Nat]
        BY <1>2, <1>3
    <2>2. t = [source |-> from, destination |-> to, listening |-> FALSE]
        BY DEF Targets
    <2>3. from.ip = d.dst /\ to.ip = d.src
        OBVIOUS
    <2> HIDE DEF from, to, t
    <2>4. t \in Adapters /\ ~t.listening /\ t.destination = to /\ t.source = from
        BY <2>1, <2>2 DEF Adapters
    <2>5. CASE a.listening
        <3>1. b = t
            BY <2>5 DEF t
        <3>2. Ends(b) = << d.dst, d.src >>
            BY <2>3, <2>4, <3>1 DEF Ends
        <3>3. got.adapter = b /\ got.msgs = << d.msg >>
            BY <1>1, <1>4
        <3> HIDE DEF got, b, taken
        <3> QED
            BY <1>2, <2>4, <2>5, <3>1, <3>2, <3>3 DEF got, to
    <2>6. CASE ~a.listening
        <3>1. b = a
            BY <2>6
        <3>2. d.dst = a.source.ip /\ d.src = a.destination.ip
              /\ d.sport = a.destination.port
            BY <1>4, <2>6, <3>1 DEF OfThisPair
        <3>3. got.adapter = a /\ got.msgs = << d.msg >>
            BY <1>1, <1>4, <3>1
        <3>4. a.destination = to
            BY <1>3, <3>2 DEF to
        <3>5. Ends(a) = << d.dst, d.src >>
            BY <3>2 DEF Ends
        <3> HIDE DEF got, b, taken
        <3> QED
            BY <1>2, <2>6, <3>3, <3>4, <3>5 DEF got, to
    <2> QED
        BY <1>3, <2>5, <2>6
<1>5. CASE ~taken
    BY <1>1, <1>5
<1> QED
    BY <1>4, <1>5

\* A host reads: its adapter speaks on with the ends it had or, if it listened,
\* with those of the datagram it took; and what it took came from its partner.
LEMMA HostReadsFits ==
    ASSUME NEW Q, NEW R, NEW E, Repairable(R), Converses(Q, R, E),
           NEW h \in Hosts(Q), NEW gateway \in IPs, NEW frame \in Frames(R)
    PROVE  LET step == HostReads(h, gateway, frame) IN
           /\ step.host \in Hosts(Q) /\ step.out \in Seq(Frames(Q))
           /\ step.host.connected = h.connected
           /\ \/ /\ step.msgs = << >>
                 /\ step.host.adapter = h.adapter /\ step.host.peer = h.peer
              \/ /\ step.msgs # << >>
                 /\ ~step.host.adapter.listening /\ Ends(step.host.adapter) \in E
                 /\ step.host.adapter.destination =
                       [ip |-> frame.dgram.src, port |-> frame.dgram.sport]
                 /\ h.adapter.listening \/ step.host.adapter = h.adapter
<1> DEFINE sends == Arrives(h.iface, frame)
           none == << >>
           m == [sends.n EXCEPT !.received = none]
           taken == [h EXCEPT !.iface = m]
           d == Head(sends.n.received)
           got == UnwrapInIP(h.adapter, d)
           b == got.adapter
           after == [taken EXCEPT !.adapter = b]
           done == HostSteps(after, gateway, PeerReceive(h.peer, Head(got.msgs)))
           first == sends.datagrams \o sends.arp
           step == HostReads(h, gateway, frame)
           F == Seq(Frames(Q))
<1>1. step = IF sends.n.received = << >>
               THEN [host |-> taken, out |-> first, msgs |-> << >>]
             ELSE IF got.msgs = << >>
               THEN [host |-> after, out |-> first, msgs |-> << >>]
             ELSE [host |-> done.host, out |-> first \o done.out, msgs |-> got.msgs]
    BY DEF HostReads
<1>2. h.iface \in Interfaces(Q, {}) /\ h.adapter \in Adapters /\ PeerFits(h.peer)
    BY FieldsOfHost
<1>3. /\ Transmitted(sends, Q, R)
      /\ \/ sends.n.received = << >>
         \/ /\ frame.type = "IPv4" /\ frame.dgram \in R
            /\ sends.n.received = << [frame.dgram EXCEPT !.sum = frame.dgram.ttl] >>
    BY <1>2, ArrivesFits
<1> HIDE DEF sends
<1>4. first \in F
    <2>1. sends.datagrams \in F /\ sends.arp \in F
        BY <1>3 DEF Transmitted
    <2> QED
        BY <2>1, ConcatProperties
<1>5. m \in Interfaces(Q, {})
    <2> DEFINE old == sends.n
    <2>1. old \in Interfaces(Q, R) /\ none \in Seq({})
        BY <1>3 DEF Transmitted
    <2> HIDE DEF old, none
    <2> QED
        BY <2>1, OtherReceived DEF old
<1> HIDE DEF m, first
<1>6. /\ taken \in Hosts(Q) /\ taken.adapter = h.adapter /\ taken.peer = h.peer
      /\ taken.connected = h.connected
    BY <1>5 DEF Hosts
<1> HIDE DEF taken
<1>7. CASE sends.n.received = << >>
    <2>1. step.host = taken /\ step.out = first /\ step.msgs = << >>
        BY <1>1, <1>7
    <2> HIDE DEF step
    <2> QED
        BY <1>4, <1>6, <2>1 DEF step
<1>8. CASE sends.n.received # << >>
    <2> DEFINE e == [frame.dgram EXCEPT !.sum = frame.dgram.ttl]
    <2>1. frame.dgram \in R /\ sends.n.received = << e >>
        BY <1>3, <1>8
    <2>2. frame.dgram \in Dgrams /\ e \in Dgrams /\ e \in R
        BY <2>1 DEF Repairable
    <2>3. e.src = frame.dgram.src /\ e.sport = frame.dgram.sport
        BY <2>2 DEF Dgrams
    <2>4. d = e
        BY <2>1
    <2> HIDE DEF e, d
    <2>5. \/ b = h.adapter /\ got.msgs = << >>
          \/ /\ got.msgs = << d.msg >> /\ d.msg \in WireMessage
             /\ b \in Adapters /\ ~b.listening
             /\ b.destination = [ip |-> d.src, port |-> d.sport]
             /\ Ends(b) = << d.dst, d.src >>
             /\ h.adapter.listening \/ b = h.adapter
        BY <1>2, <2>2, <2>4, UnwrapFits
    <2> HIDE DEF got
    <2>6. CASE b = h.adapter /\ got.msgs = << >>
        <3>1. after \in Hosts(Q) /\ after.adapter = h.adapter /\ after.peer = h.peer
              /\ after.connected = h.connected
            BY <1>2, <1>6, <2>6 DEF Hosts
        <3> HIDE DEF after, b
        <3>2. step.host = after /\ step.out = first /\ step.msgs = << >>
            BY <1>1, <1>8, <2>6
        <3> HIDE DEF step
        <3> QED
            BY <1>4, <3>1, <3>2 DEF step
    <2>7. CASE /\ got.msgs = << d.msg >> /\ d.msg \in WireMessage
               /\ b \in Adapters /\ ~b.listening
               /\ b.destination = [ip |-> d.src, port |-> d.sport]
               /\ Ends(b) = << d.dst, d.src >>
               /\ h.adapter.listening \/ b = h.adapter
        <3> HIDE DEF b
        <3>1. after \in Hosts(Q) /\ after.adapter = b /\ after.peer = h.peer
              /\ after.connected = h.connected
            BY <1>6, <2>7 DEF Hosts
        <3>2. Head(got.msgs) = d.msg /\ got.msgs # << >>
            BY <2>7
        <3>3. StepFits(PeerReceive(h.peer, d.msg))
            BY <1>2, <2>7, PeerReceiveFits
        <3>4. Ends(b) \in E
            BY <2>2, <2>4, <2>7 DEF Converses
        <3>5. Sendable(after.adapter, Q)
            BY <2>7, <3>1, <3>4 DEF Converses
        <3> HIDE DEF after
        <3>6. /\ done.host \in Hosts(Q) /\ done.out \in F
              /\ done.host.adapter = b /\ done.host.connected = h.connected
            BY <3>1, <3>2, <3>3, <3>5, HostStepsFits
        <3> HIDE DEF done
        <3>7. step.host = done.host /\ step.out = first \o done.out
              /\ step.msgs = got.msgs
            BY <1>1, <1>8, <3>2
        <3>8. first \o done.out \in F
            BY <1>4, <3>6, ConcatProperties
        <3> HIDE DEF step, F
        <3> QED
            BY <2>3, <2>4, <2>7, <3>2, <3>4, <3>6, <3>7, <3>8 DEF step, F
    <2> QED
        BY <2>5, <2>6, <2>7
<1> QED
    BY <1>7, <1>8

-----------------------------------------------------------------------------
(***************************************************************************)
(* The inductive invariant.  P says, for each side, which datagrams are on *)
(* their way up from its host, down to its host and across from its router *)
(* to the other, and between which addresses its host's adapter speaks.    *)
(* The invariant is that all queues, wires and adapters of the system keep *)
(* to that, for any P that is closed under what the program does.          *)
(***************************************************************************)
Own(P, s)      == << P.down[s], P.across[s] >>
Incoming(P, s) == P.up[s] \cup P.across[Other(s)]

Closed(P) ==
    /\ \A s \in Sides :
          /\ Repairable(P.up[s]) /\ Repairable(P.across[s]) /\ Repairable(P.down[s])
          /\ Converses(P.up[s], P.down[s], P.ends[s])
          /\ \A table \in Tables : SentOn(AddRoutes(table[s]), Own(P, s), Incoming(P, s))
    /\ << HostIP[Client], HostIP[Server] >> \in P.ends[Client]

\* Only the server listens, and while it does its peer has done nothing.
HostRight(h, hears, s, P) ==
    /\ h \in Hosts(P.up[s])
    /\ h.adapter.listening =>
          /\ s = Server /\ hears = {} /\ ~h.connected
          /\ h.peer = NewPeer(Capacity, Capacity, ServerISN)
    /\ ~h.adapter.listening =>
          /\ Ends(h.adapter) \in P.ends[s]
          /\ hears = {} \/ hears = {h.adapter.destination}

RouterRight(r, s, P) ==
    /\ r = [ifaces |-> r.ifaces, rtable |-> r.rtable, added |-> r.added]
    /\ r.ifaces \in RouterIfaces(Own(P, s), {})
    /\ \E table \in Tables : r.added = table[s] /\ r.rtable = AddRoutes(table[s])

WiresOf(s, P) ==
    [fromHost : Seq(Frames(P.up[s])), toHost : Seq(Frames(P.down[s])),
     outHost : Seq(Frames(P.down[s])), outNet : Seq(Frames(P.across[s]))]

HostsPlaced(P) ==
    /\ DOMAIN host = Sides /\ DOMAIN heard = Sides
    /\ \A s \in Sides : HostRight(host[s], heard[s], s, P)
RoutersPlaced(P) ==
    /\ DOMAIN router = Sides
    /\ \A s \in Sides : RouterRight(router[s], s, P)
WiresPlaced(P) ==
    /\ DOMAIN wires = Sides
    /\ \A s \in Sides : wires[s] \in WiresOf(s, P)
NetPlaced(P) ==
    /\ DOMAIN net = Sides
    /\ \A s \in Sides : net[s] \in Seq(Frames(P.across[Other(s)]))
Counted == start \in DOMAIN Starts /\ losses \in 0 .. FaultBudget

Placed(P) ==
    /\ HostsPlaced(P) /\ RoutersPlaced(P) /\ WiresPlaced(P) /\ NetPlaced(P)
    /\ Counted

\* The first P: datagrams of the right type anywhere.
Anywhere == [up |-> [s \in Sides |-> Dgrams], across |-> [s \in Sides |-> Dgrams],
             down |-> [s \in Sides |-> Dgrams], ends |-> [s \in Sides |-> IPs \X IPs]]

\* The second: on the way from one host to the other, a router on each side.
Way(s, ttl) == {d \in Dgrams : /\ d.src = HostIP[s] /\ d.dst = HostIP[Other(s)]
                               /\ d.ttl = ttl}
FromHostToHost ==
    [up     |-> [s \in Sides |-> Way(s, InitialTTL)],
     across |-> [s \in Sides |-> Way(s, InitialTTL - 1)],
     down   |-> [s \in Sides |-> Way(Other(s), InitialTTL - 2)],
     ends   |-> [s \in Sides |-> {<< HostIP[s], HostIP[Other(s)] >>}]]

\* There are two sides, each the other of the other.
LEMMA TwoSides ==
    /\ Client \in Sides /\ Server \in Sides /\ Client # Server
    /\ \A s \in Sides : Other(s) \in Sides /\ Other(s) # s /\ Other(Other(s)) = s
BY EndToEndConstants DEF Sides, Other

\* The tables hold routes, before and after add_route.
LEMMA TablesAreTyped ==
    ASSUME NEW table \in Tables, NEW s \in Sides
    PROVE  table[s] \in Seq(Routes) /\ AddRoutes(table[s]) \in Seq(Routes)
<1>1. table[s] \in Seq(Routes)
    BY EndToEndConstants
<1> QED
    BY <1>1, AddRoutesStands DEF Stands

\* What best_match finds is a route.
LEMMA BestIsRoute ==
    ASSUME NEW table \in Seq(Routes), NEW ip, BestMatch(table, ip) # << >>
    PROVE  BestMatch(table, ip)[1] \in Routes
<1> DEFINE best == BestMatch(table, ip)
<1>1. Found(best, table, ip, Len(table)) /\ best # << >>
    BY BestMatchFinds
<1> HIDE DEF best
<1>2. PICK p \in 1 .. Len(table) : best = << table[p] >>
    BY <1>1 DEF Found
<1>3. best[1] \in Routes
    BY <1>2, ElementOfSeq
<1> QED
    BY <1>3 DEF best

\* The parts of a datagram; a checksum put right and a TTL one lower are of the
\* right type.
LEMMA DgramFields ==
    ASSUME NEW d \in Dgrams
    PROVE  /\ d.src \in IPs /\ d.dst \in IPs /\ d.ttl \in Nat /\ d.ttl \in 1 .. InitialTTL
           /\ [d EXCEPT !.sum = d.ttl] \in Dgrams
           /\ d.ttl > 1 => [d EXCEPT !.ttl = d.ttl - 1] \in Dgrams
<1>1. d.src \in IPs /\ d.dst \in IPs /\ d.ttl \in 1 .. InitialTTL /\ InitialTTL \in Nat
    BY TTLAssumption DEF Dgrams
<1>2. d.ttl \in Nat
    BY <1>1
<1>3. [d EXCEPT !.sum = d.ttl] \in Dgrams
    BY <1>2 DEF Dgrams
<1>4. ASSUME d.ttl > 1 PROVE [d EXCEPT !.ttl = d.ttl - 1] \in Dgrams
    <2> DEFINE t == d.ttl - 1
    <2>1. t \in 1 .. InitialTTL
        BY <1>1, <1>4
    <2> HIDE DEF t
    <2>2. [d EXCEPT !.ttl = t] \in Dgrams
        BY <2>1 DEF Dgrams
    <2> QED
        BY <2>2 DEF t
<1> QED
    BY <1>1, <1>2, <1>3, <1>4

\* Whatever the program sends is of the right type.
LEMMA AnywhereClosed == Closed(Anywhere)
<1> DEFINE P == Anywhere
<1>1. ASSUME NEW s \in Sides
      PROVE  /\ P.up[s] = Dgrams /\ P.across[s] = Dgrams /\ P.down[s] = Dgrams
             /\ P.ends[s] = IPs \X IPs
    BY DEF Anywhere
<1> HIDE DEF P
<1>2. Repairable(Dgrams)
    BY DgramFields DEF Repairable
<1>3. \A a \in Adapters : Sendable(a, Dgrams)
    BY WrapFits DEF Sendable
<1>4. \A d \in Dgrams : << d.dst, d.src >> \in IPs \X IPs
    BY DgramFields
<1>5. ASSUME NEW s \in Sides, NEW table \in Tables
      PROVE  SentOn(AddRoutes(table[s]), Own(P, s), Incoming(P, s))
    <2> DEFINE routes == AddRoutes(table[s])
    <2>1. Incoming(P, s) = Dgrams
        BY <1>1, TwoSides DEF Incoming
    <2>2. \A i \in 1 .. 2 : Own(P, s)[i] = Dgrams
        BY <1>1 DEF Own
    <2>3. ASSUME NEW d \in Dgrams, d.ttl > 1, BestMatch(routes, d.dst) # << >>
          PROVE  [d EXCEPT !.ttl = d.ttl - 1] \in Own(P, s)[BestMatch(routes, d.dst)[1].iface]
        <3> DEFINE i == BestMatch(routes, d.dst)[1].iface
        <3>1. routes \in Seq(Routes)
            BY TablesAreTyped
        <3>2. BestMatch(routes, d.dst)[1] \in Routes
            BY <2>3, <3>1, BestIsRoute
        <3>3. i \in 1 .. 2
            BY <3>2 DEF Routes, HostSide, InternetSide
        <3> QED
            BY <2>2, <2>3, <3>3, DgramFields
    <2> QED
        BY <2>1, <2>3 DEF SentOn
<1>6. << HostIP[Client], HostIP[Server] >> \in P.ends[Client]
    BY <1>1, TwoSides, EndToEndConstants
<1> QED
    BY <1>1, <1>2, <1>3, <1>4, <1>5, <1>6 DEF Closed, Converses, P

\* What a host sends goes to the other one, and each router sends it on the way
\* there: this is what the tables are for (TablesAssumption).
LEMMA FromHostToHostClosed == Closed(FromHostToHost)
<1> DEFINE P == FromHostToHost
<1>1. ASSUME NEW s \in Sides
      PROVE  /\ P.up[s] = Way(s, InitialTTL) /\ P.across[s] = Way(s, InitialTTL - 1)
             /\ P.down[s] = Way(Other(s), InitialTTL - 2)
             /\ P.ends[s] = {<< HostIP[s], HostIP[Other(s)] >>}
    BY DEF FromHostToHost
<1> HIDE DEF P
<1>2. ASSUME NEW s, NEW ttl PROVE Repairable(Way(s, ttl))
    <2> SUFFICES ASSUME NEW d \in Way(s, ttl)
                 PROVE  [d EXCEPT !.sum = d.ttl] \in Way(s, ttl)
        BY DEF Repairable, Way
    <2> DEFINE e == [d EXCEPT !.sum = d.ttl]
    <2>1. d \in Dgrams /\ d.src = HostIP[s] /\ d.dst = HostIP[Other(s)] /\ d.ttl = ttl
        BY DEF Way
    <2>2. e \in Dgrams /\ e.src = d.src /\ e.dst = d.dst /\ e.ttl = d.ttl
        BY <2>1, DgramFields DEF Dgrams
    <2> HIDE DEF e
    <2> QED
        BY <2>1, <2>2 DEF Way, e
<1>3. ASSUME NEW s \in Sides, NEW a \in Adapters, Ends(a) \in P.ends[s]
      PROVE  Sendable(a, P.up[s])
    <2>1. a.source.ip = HostIP[s] /\ a.destination.ip = HostIP[Other(s)]
        BY <1>1, <1>3 DEF Ends
    <2>2. ASSUME NEW msg \in WireMessage PROVE WrapInIP(a, msg) \in Way(s, InitialTTL)
        <3>1. /\ WrapInIP(a, msg) \in Dgrams
              /\ WrapInIP(a, msg).src = a.source.ip
              /\ WrapInIP(a, msg).dst = a.destination.ip
              /\ WrapInIP(a, msg).ttl = InitialTTL
            BY WrapFits
        <3> QED
            BY <2>1, <3>1 DEF Way
    <2> QED
        BY <1>1, <2>2 DEF Sendable
<1>4. ASSUME NEW s \in Sides, NEW d \in P.down[s]
      PROVE  << d.dst, d.src >> \in P.ends[s]
    <2>1. d.src = HostIP[Other(s)] /\ d.dst = HostIP[s]
        BY <1>1, TwoSides DEF Way
    <2> QED
        BY <1>1, <2>1
\* One hop nearer, on the side the routes lead to.
<1>5. ASSUME NEW s \in Sides, NEW ttl, NEW d \in Way(s, ttl), d.ttl > 1
      PROVE  [d EXCEPT !.ttl = d.ttl - 1] \in Way(s, ttl - 1)
    <2> DEFINE e == [d EXCEPT !.ttl = d.ttl - 1]
    <2>1. d \in Dgrams /\ d.src = HostIP[s] /\ d.dst = HostIP[Other(s)] /\ d.ttl = ttl
        BY DEF Way
    <2>2. e \in Dgrams /\ e.src = d.src /\ e.dst = d.dst /\ e.ttl = d.ttl - 1
        BY <1>5, <2>1, DgramFields DEF Dgrams
    <2> HIDE DEF e
    <2> QED
        BY <2>1, <2>2 DEF Way, e
<1>6. ASSUME NEW s \in Sides, NEW t \in Sides, NEW table \in Tables,
             BestMatch(AddRoutes(table[s]), HostIP[t]) # << >>
      PROVE  BestMatch(AddRoutes(table[s]), HostIP[t])[1].iface =
                IF s = t THEN HostSide ELSE InternetSide
    <2> DEFINE added == table[s]
               ip == HostIP[t]
               best == BestMatch(AddRoutes(added), ip)
    <2>1. /\ ip \in IPs /\ added \in Seq(Routes)
          /\ \A i, j \in Matches(added, ip) :
                added[i].length = added[j].length => added[i].prefix = added[j].prefix
          /\ \A i \in DOMAIN added : Applies(added, ip, i) =>
                added[i].iface = IF s = t THEN HostSide ELSE InternetSide
        <3>1. ip \in IPs /\ added \in Seq(Routes)
            BY EndToEndConstants
        <3> QED
            BY <3>1, TablesAssumption
    <2> HIDE DEF added, ip
    <2>2. IF Matches(added, ip) = {} THEN best = << >>
          ELSE \E i \in DOMAIN added : Applies(added, ip, i) /\ best = << added[i] >>
        BY <2>1, BestIsWhatApplies
    <2>3. best # << >>
        BY <1>6 DEF added, ip
    <2> HIDE DEF best
    <2>4. PICK i \in DOMAIN added : Applies(added, ip, i) /\ best = << added[i] >>
        BY <2>2, <2>3
    <2>5. best[1].iface = IF s = t THEN HostSide ELSE InternetSide
        BY <2>1, <2>4
    <2> QED
        BY <2>5 DEF best, added, ip
<1>7. ASSUME NEW s \in Sides, NEW table \in Tables
      PROVE  SentOn(AddRoutes(table[s]), Own(P, s), Incoming(P, s))
    <2> DEFINE routes == AddRoutes(table[s])
               best(d) == BestMatch(routes, d.dst)
               less(d) == [d EXCEPT !.ttl = d.ttl - 1]
    <2>1. ASSUME NEW d \in P.up[s], d.ttl > 1, best(d) # << >>
          PROVE  less(d) \in Own(P, s)[best(d)[1].iface]
        <3>1. d \in Way(s, InitialTTL) /\ d.dst = HostIP[Other(s)]
            BY <1>1 DEF Way
        <3>2. less(d) \in P.across[s]
            BY <1>1, <1>5, <2>1, <3>1
        <3>3. best(d)[1].iface = InternetSide
            BY <1>6, <2>1, <3>1, TwoSides
        <3> HIDE DEF best, less
        <3> QED
            BY <3>2, <3>3 DEF Own, InternetSide
    <2>2. ASSUME NEW d \in P.across[Other(s)], d.ttl > 1, best(d) # << >>
          PROVE  less(d) \in Own(P, s)[best(d)[1].iface]
        <3>1. d \in Way(Other(s), InitialTTL - 1) /\ d.dst = HostIP[s]
            BY <1>1, TwoSides DEF Way
        <3>2. (InitialTTL - 1) - 1 = InitialTTL - 2
            BY TTLAssumption
        <3>3. less(d) \in P.down[s]
            BY <1>1, <1>5, <2>2, <3>1, <3>2, TwoSides
        <3>4. best(d)[1].iface = HostSide
            BY <1>6, <2>2, <3>1
        <3> HIDE DEF best, less
        <3> QED
            BY <3>3, <3>4 DEF Own, HostSide
    <2> QED
        BY <2>1, <2>2 DEF SentOn, Incoming
<1>8. << HostIP[Client], HostIP[Server] >> \in P.ends[Client]
    BY <1>1, TwoSides DEF Other
<1> QED
    <2>1. ASSUME NEW s \in Sides PROVE Converses(P.up[s], P.down[s], P.ends[s])
        BY <1>3, <1>4 DEF Converses
    <2> QED
        BY <1>1, <1>2, <1>7, <1>8, <2>1 DEF Closed, P

\* What a P that is closed gives the program.
LEMMA ClosedGives ==
    ASSUME NEW P, Closed(P), NEW s \in Sides
    PROVE  /\ Repairable(P.up[s]) /\ Repairable(P.down[s]) /\ Repairable(Incoming(P, s))
           /\ Converses(P.up[s], P.down[s], P.ends[s])
           /\ \A table \in Tables : SentOn(AddRoutes(table[s]), Own(P, s), Incoming(P, s))
<1>1. Repairable(P.up[s]) /\ Repairable(P.across[Other(s)])
    BY TwoSides DEF Closed
<1>2. Repairable(Incoming(P, s))
    BY <1>1 DEF Repairable, Incoming
<1> QED
    BY <1>2 DEF Closed

(***************************************************************************)
(* The start of a program.                                                 *)
(***************************************************************************)
LEMMA NewHostRight ==
    ASSUME NEW P, Closed(P)
    PROVE  /\ \A port \in Nat : \A isn \in 0 .. Modulus - 1 :
                LET h == NewHost(Client, port, isn, FALSE) IN
                /\ h \in Hosts(P.up[Client]) /\ ~h.adapter.listening
                /\ Ends(h.adapter) \in P.ends[Client]
           /\ HostRight(NewHost(Server, ServerPort, ServerISN, TRUE), {}, Server, P)
<1>1. /\ HostIP[Client] \in IPs /\ HostIP[Server] \in IPs /\ ServerPort \in Nat
      /\ AnyAddress \in [ip : IPs, port : Nat] /\ HostEth \in Eths
      /\ ServerISN \in 0 .. Modulus - 1
    BY EndToEndConstants, TwoSides
<1> DEFINE Host(a, s, isn) ==
               [adapter |-> a, iface |-> NewInterface(HostEth, HostIP[s]),
                peer |-> NewPeer(Capacity, Capacity, isn), connected |-> FALSE]
           target == [ip |-> HostIP[Server], port |-> ServerPort]
<1>2. ASSUME NEW s \in Sides, NEW isn \in 0 .. Modulus - 1, NEW a \in Adapters
      PROVE  /\ Host(a, s, isn) \in Hosts(P.up[s]) /\ Host(a, s, isn).adapter = a
             /\ Host(a, s, isn).peer = NewPeer(Capacity, Capacity, isn)
             /\ Host(a, s, isn).connected = FALSE
    <2> DEFINE n == NewInterface(HostEth, HostIP[s])
               p == NewPeer(Capacity, Capacity, isn)
    <2>1. n \in Interfaces(P.up[s], {})
        BY <1>1, NewInterfaceFits DEF Sides
    <2>2. p \in {x \in PeerType : PeerFits(x)}
        BY NewPeerFits DEF PeerFits
    <2>3. Host(a, s, isn) = [adapter |-> a, iface |-> n, peer |-> p, connected |-> FALSE]
        OBVIOUS
    <2> HIDE DEF n, Host
    <2>4. p = NewPeer(Capacity, Capacity, isn)
        OBVIOUS
    <2> HIDE DEF p
    <2> QED
        BY <2>1, <2>2, <2>3, <2>4 DEF Hosts
<1>3. ASSUME NEW port \in Nat, NEW isn \in 0 .. Modulus - 1
      PROVE  LET h == NewHost(Client, port, isn, FALSE) IN
             /\ h \in Hosts(P.up[Client]) /\ ~h.adapter.listening
             /\ Ends(h.adapter) \in P.ends[Client]
    <2> DEFINE h == NewHost(Client, port, isn, FALSE)
               a == [source |-> [ip |-> HostIP[Client], port |-> port],
                     destination |-> target, listening |-> FALSE]
    <2>1. h = Host(a, Client, isn)
        BY DEF NewHost, NewAdapter
    <2>2. a \in Adapters /\ ~a.listening /\ Ends(a) = << HostIP[Client], HostIP[Server] >>
        BY <1>1 DEF Adapters, Ends
    <2> HIDE DEF a, h, Host
    <2>3. h \in Hosts(P.up[Client]) /\ h.adapter = a
        BY <1>2, <2>1, <2>2, TwoSides
    <2>4. Ends(a) \in P.ends[Client]
        BY <2>2 DEF Closed
    <2> QED
        BY <2>2, <2>3, <2>4 DEF h
<1>4. HostRight(NewHost(Server, ServerPort, ServerISN, TRUE), {}, Server, P)
    <2> DEFINE h == NewHost(Server, ServerPort, ServerISN, TRUE)
               a == [source |-> [ip |-> HostIP[Server], port |-> ServerPort],
                     destination |-> AnyAddress, listening |-> TRUE]
    <2>1. h = Host(a, Server, ServerISN)
        BY DEF NewHost, NewAdapter
    <2>2. a \in Adapters /\ a.listening = TRUE
        BY <1>1 DEF Adapters
    <2> HIDE DEF a, h, Host
    <2>3. /\ h \in Hosts(P.up[Server]) /\ h.adapter = a
          /\ h.peer = NewPeer(Capacity, Capacity, ServerISN) /\ h.connected = FALSE
        BY <1>1, <1>2, <2>1, <2>2, TwoSides
    <2> QED
        BY <2>2, <2>3 DEF HostRight, h
<1> QED
    BY <1>3, <1>4

\* A client that starts, for the first time or again, and its SYN.
LEMMA NewClientRight ==
    ASSUME NEW P, Closed(P), NEW k \in DOMAIN Starts
    PROVE  /\ HostRight(NewClient(k).host, {}, Client, P)
           /\ NewClient(k).out \in Seq(Frames(P.up[Client]))
<1> DEFINE h == NewHost(Client, Starts[k].port, Starts[k].isn, FALSE)
           gateway == RouterIPs[Client][HostSide]
           step == PeerPush(h.peer)
           new == NewClient(k)
<1>1. Starts[k].port \in Nat /\ Starts[k].isn \in 0 .. Modulus - 1
    <2>1. Starts \in Seq([port : Nat, isn : 0 .. Modulus - 1, eth : Eths])
        BY EndToEndConstants
    <2> DEFINE S == [port : Nat, isn : 0 .. Modulus - 1, eth : Eths]
    <2>2. Starts[k] \in S
        <3> HIDE DEF S
        <3> QED
            BY <2>1, LenProperties, ElementOfSeq DEF S
    <2> QED
        BY <2>2
<1>2. gateway \in IPs
    BY EndToEndConstants, TwoSides DEF HostSide
<1>3. new = HostSteps(h, gateway, step)
    BY DEF NewClient
<1>4. /\ h \in Hosts(P.up[Client]) /\ ~h.adapter.listening
      /\ Ends(h.adapter) \in P.ends[Client]
    BY <1>1, NewHostRight
<1> HIDE DEF h, gateway
<1>5. Sendable(h.adapter, P.up[Client])
    BY <1>4, FieldsOfHost, ClosedGives, TwoSides DEF Converses
<1>6. StepFits(step)
    BY <1>4, FieldsOfHost, PeerPushFits
<1> HIDE DEF step
<1>7. /\ new.host \in Hosts(P.up[Client]) /\ new.out \in Seq(Frames(P.up[Client]))
      /\ new.host.adapter = h.adapter
    BY <1>2, <1>3, <1>4, <1>5, <1>6, HostStepsFits
<1> HIDE DEF new
<1> QED
    BY <1>4, <1>7 DEF HostRight, new

\* A router that starts with its table added.
LEMMA NewRouterRight ==
    ASSUME NEW P, NEW s \in Sides, NEW eth \in Eths, NEW table \in Tables
    PROVE  RouterRight(NewRouter(s, eth, table[s]), s, P)
<1> DEFINE Q == Own(P, s)
           one == NewInterface(GatewayEth, RouterIPs[s][HostSide])
           two == NewInterface(eth, RouterIPs[s][InternetSide])
           ifaces == << one, two >>
           r == NewRouter(s, eth, table[s])
           A == [k \in 1 .. 2 |-> Interfaces(Q[k], {})]
<1>1. /\ RouterIPs[s][HostSide] \in IPs /\ RouterIPs[s][InternetSide] \in IPs
      /\ GatewayEth \in Eths
    BY EndToEndConstants DEF HostSide, InternetSide
<1>2. A[1] = Interfaces(Q[1], {}) /\ A[2] = Interfaces(Q[2], {})
    OBVIOUS
<1>3. one \in A[1] /\ two \in A[2]
    BY <1>1, <1>2, NewInterfaceFits
<1>4. r = [ifaces |-> ifaces, rtable |-> AddRoutes(table[s]), added |-> table[s]]
    BY DEF NewRouter
<1> HIDE DEF A, one, two
<1>5. ifaces \in [1 .. 2 -> A[1] \cup A[2]] /\ ifaces[1] = one /\ ifaces[2] = two
    <2>1. \A k \in 1 .. 2 : k = 1 \/ k = 2
        OBVIOUS
    <2> QED
        BY <1>3, <2>1
<1> HIDE DEF ifaces
<1>6. ifaces \in RouterIfaces(Q, {})
    BY <1>3, <1>5 DEF RouterIfaces, Pairs, A
<1> HIDE DEF r, Q
<1>7. /\ r = [ifaces |-> r.ifaces, rtable |-> r.rtable, added |-> r.added]
      /\ r.ifaces = ifaces /\ r.added = table[s] /\ r.rtable = AddRoutes(table[s])
    BY <1>4
<1> QED
    BY <1>6, <1>7 DEF RouterRight, r, Q

\* Frames with datagrams of a part are frames with datagrams of the whole.
LEMMA FrameSets ==
    ASSUME NEW Q, NEW R, Q \subseteq R
    PROVE  Frames(Q) \subseteq Frames(R)
BY DEF Frames

\* A program starts with nothing on its wires but what its host sends at once.
LEMMA NoFramesRight ==
    ASSUME NEW P, NEW s, NEW out \in Seq(Frames(P.up[s]))
    PROVE  /\ NoFrames \in WiresOf(s, P)
           /\ [NoFrames EXCEPT !.fromHost = out] \in WiresOf(s, P)
<1> DEFINE none == << >>
<1>1. /\ none \in Seq(Frames(P.up[s])) /\ none \in Seq(Frames(P.down[s]))
      /\ none \in Seq(Frames(P.across[s]))
    OBVIOUS
<1>2. NoFrames = [fromHost |-> none, toHost |-> none, outHost |-> none, outNet |-> none]
    BY DEF NoFrames
<1> HIDE DEF none
<1> QED
    BY <1>1, <1>2 DEF WiresOf

\* The start-ups are numbered from 1, and there is a first.
LEMMA FirstStart ==
    /\ 1 \in DOMAIN Starts
    /\ \A k \in DOMAIN Starts : k \in Nat /\ k >= 1 /\ Starts[k].eth \in Eths
    /\ DOMAIN Starts = 1 .. Len(Starts) /\ Len(Starts) \in Nat
<1> DEFINE S == [port : Nat, isn : 0 .. Modulus - 1, eth : Eths]
<1>1. Starts \in Seq(S) /\ Starts # << >>
    BY EndToEndConstants
<1> HIDE DEF S
<1>2. Len(Starts) \in Nat /\ DOMAIN Starts = 1 .. Len(Starts)
    BY <1>1, LenProperties
<1>3. Len(Starts) # 0
    BY <1>1, EmptySeq
<1>4. \A k \in DOMAIN Starts : Starts[k] \in S
    BY <1>1, <1>2, ElementOfSeq
<1> QED
    BY <1>2, <1>3, <1>4 DEF S

\* The initial states satisfy the invariant.
LEMMA InitPlaced ==
    ASSUME NEW P, Closed(P), Init
    PROVE  Placed(P)
<1> DEFINE new == NewClient(1)
           old == NewHost(Server, ServerPort, ServerISN, TRUE)
<1>1. /\ HostRight(new.host, {}, Client, P) /\ new.out \in Seq(Frames(P.up[Client]))
      /\ HostRight(old, {}, Server, P)
    BY FirstStart, NewClientRight, NewHostRight
<1>2. /\ host = [s \in Sides |-> IF s = Client THEN new.host
                                 ELSE NewHost(s, ServerPort, ServerISN, TRUE)]
      /\ heard = [s \in Sides |-> {}]
      /\ wires = [s \in Sides |-> IF s = Server THEN NoFrames
                     ELSE [NoFrames EXCEPT !.fromHost = new.out]]
      /\ net = [s \in Sides |-> << >>]
      /\ start = 1 /\ losses = 0
    BY DEF Init
<1>3. PICK added \in Tables :
          router = [s \in Sides |->
              NewRouter(s, IF s = Client THEN Starts[1].eth ELSE ServerEth, added[s])]
    BY DEF Init
<1> HIDE DEF new, old
<1>4. HostsPlaced(P)
    <2>1. ASSUME NEW s \in Sides PROVE HostRight(host[s], heard[s], s, P)
        <3>1. CASE s = Client
            <4>1. host[s] = new.host /\ heard[s] = {}
                BY <1>2, <3>1
            <4> QED
                BY <1>1, <3>1, <4>1
        <3>2. CASE s # Client
            <4>1. s = Server
                BY <3>2 DEF Sides
            <4>2. host[s] = old /\ heard[s] = {}
                BY <1>2, <3>2, <4>1 DEF old
            <4> QED
                BY <1>1, <4>1, <4>2
        <3> QED
            BY <3>1, <3>2
    <2>2. DOMAIN host = Sides /\ DOMAIN heard = Sides
        BY <1>2
    <2> QED
        BY <2>1, <2>2 DEF HostsPlaced
<1>5. RoutersPlaced(P)
    <2>1. ASSUME NEW s \in Sides PROVE RouterRight(router[s], s, P)
        <3> DEFINE eth == IF s = Client THEN Starts[1].eth ELSE ServerEth
        <3>1. eth \in Eths
            BY FirstStart, EndToEndConstants
        <3>2. router[s] = NewRouter(s, eth, added[s])
            BY <1>3
        <3> HIDE DEF eth
        <3> QED
            BY <3>1, <3>2, NewRouterRight
    <2>2. DOMAIN router = Sides
        BY <1>3
    <2> QED
        BY <2>1, <2>2 DEF RoutersPlaced
<1>6. WiresPlaced(P)
    <2>1. ASSUME NEW s \in Sides PROVE wires[s] \in WiresOf(s, P)
        <3>1. CASE s = Client
            BY <1>1, <1>2, <3>1, NoFramesRight, TwoSides
        <3>2. CASE s # Client
            <4>1. s = Server /\ << >> \in Seq(Frames(P.up[s]))
                BY <3>2 DEF Sides
            <4>2. wires[s] = NoFrames
                BY <1>2, <4>1
            <4> QED
                BY <4>1, <4>2, NoFramesRight
        <3> QED
            BY <3>1, <3>2
    <2>2. DOMAIN wires = Sides
        BY <1>2
    <2> QED
        BY <2>1, <2>2 DEF WiresPlaced
<1>7. NetPlaced(P)
    <2>1. \A s \in Sides : << >> \in Seq(Frames(P.across[Other(s)]))
        OBVIOUS
    <2>2. DOMAIN net = Sides /\ \A s \in Sides : net[s] = << >>
        BY <1>2
    <2> QED
        BY <2>1, <2>2 DEF NetPlaced
<1>8. Counted
    BY <1>2, FirstStart, EndToEndConstants DEF Counted
<1> QED
    BY <1>4, <1>5, <1>6, <1>7, <1>8 DEF Placed

(***************************************************************************)
(* The network thread.                                                     *)
(***************************************************************************)
LEMMA Unmoved ==
    ASSUME NEW P, Placed(P)
    PROVE  /\ UNCHANGED << host, heard >> => HostsPlaced(P)'
           /\ UNCHANGED router => RoutersPlaced(P)'
           /\ UNCHANGED wires => WiresPlaced(P)'
           /\ UNCHANGED net => NetPlaced(P)'
           /\ UNCHANGED << start, losses >> => Counted'
<1>1. HostsPlaced(P) /\ RoutersPlaced(P) /\ WiresPlaced(P) /\ NetPlaced(P) /\ Counted
    BY DEF Placed
<1>2. UNCHANGED << host, heard >> => HostsPlaced(P)'
    BY <1>1 DEF HostsPlaced
<1>3. UNCHANGED router => RoutersPlaced(P)'
    BY <1>1 DEF RoutersPlaced
<1>4. UNCHANGED wires => WiresPlaced(P)'
    BY <1>1 DEF WiresPlaced
<1>5. UNCHANGED net => NetPlaced(P)'
    BY <1>1 DEF NetPlaced
<1>6. UNCHANGED << start, losses >> => Counted'
    BY <1>1 DEF Counted
<1> QED
    BY <1>2, <1>3, <1>4, <1>5, <1>6

\* The two parts of a queue that is not empty.
LEMMA HeadAndTail ==
    ASSUME NEW S, NEW q \in Seq(S), q # << >>
    PROVE  Head(q) \in S /\ Tail(q) \in Seq(S)
BY HeadTailProperties

\* The parts of a program's wires.
LEMMA FieldsOfWires ==
    ASSUME NEW P, NEW s, NEW w \in WiresOf(s, P)
    PROVE  /\ w.fromHost \in Seq(Frames(P.up[s])) /\ w.toHost \in Seq(Frames(P.down[s]))
           /\ w.outHost \in Seq(Frames(P.down[s])) /\ w.outNet \in Seq(Frames(P.across[s]))
           /\ w = [fromHost |-> w.fromHost, toHost |-> w.toHost,
                   outHost |-> w.outHost, outNet |-> w.outNet]
BY DEF WiresOf

\* The wires with one or two of them changed, as each step of the network thread
\* does.
LEMMA WiresChange ==
    ASSUME NEW P, NEW s, NEW w \in WiresOf(s, P),
           NEW a \in Seq(Frames(P.up[s])), NEW b \in Seq(Frames(P.down[s])),
           NEW c \in Seq(Frames(P.down[s])), NEW d \in Seq(Frames(P.across[s]))
    PROVE  /\ [w EXCEPT !.fromHost = a] \in WiresOf(s, P)
           /\ [w EXCEPT !.toHost = b, !.fromHost = a] \in WiresOf(s, P)
           /\ [w EXCEPT !.outHost = c, !.toHost = b] \in WiresOf(s, P)
           /\ [w EXCEPT !.outNet = d] \in WiresOf(s, P)
           /\ [w EXCEPT !.outHost = c, !.outNet = d] \in WiresOf(s, P)
BY DEF WiresOf

\* A router with its interfaces in another state.
LEMMA OtherIfaces ==
    ASSUME NEW P, NEW s, NEW r, RouterRight(r, s, P),
           NEW ifaces \in RouterIfaces(Own(P, s), {})
    PROVE  RouterRight([r EXCEPT !.ifaces = ifaces], s, P)
<1> DEFINE next == [r EXCEPT !.ifaces = ifaces]
           added == r.added
           rtable == r.rtable
<1>1. r = [ifaces |-> r.ifaces, rtable |-> rtable, added |-> added]
    BY DEF RouterRight
<1>2. \E table \in Tables : added = table[s] /\ rtable = AddRoutes(table[s])
    BY DEF RouterRight
<1> HIDE DEF added, rtable
<1>3. next = [ifaces |-> ifaces, rtable |-> rtable, added |-> added]
    BY <1>1
<1> HIDE DEF next
<1>4. /\ next = [ifaces |-> next.ifaces, rtable |-> next.rtable, added |-> next.added]
      /\ next.ifaces = ifaces /\ next.rtable = rtable /\ next.added = added
    BY <1>3
<1> QED
    BY <1>2, <1>4 DEF RouterRight, next

\* recv_frame, route() and tick of a router.
LEMMA RouterReceivesRight ==
    ASSUME NEW P, Closed(P), Placed(P), NEW s \in Sides, NEW i \in 1 .. 2,
           NEW frame \in Frames(Incoming(P, s)), NEW left \in WiresOf(s, P),
           RouterReceives(s, i, frame, left)
    PROVE  RoutersPlaced(P)' /\ WiresPlaced(P)'
<1> DEFINE r == router[s]
           Q == Own(P, s)
           step == RouterTakes(r, i, frame)
           one == step.out[HostSide]
           two == step.out[InternetSide]
           ifaces == Ticked(step.ifaces, EventMs)
           out == left.outHost \o one
           outNet == left.outNet \o two
           w == [left EXCEPT !.outHost = out, !.outNet = outNet]
<1>1. /\ DOMAIN router = Sides /\ \A t \in Sides : RouterRight(router[t], t, P)
      /\ DOMAIN wires = Sides /\ \A t \in Sides : wires[t] \in WiresOf(t, P)
    BY DEF Placed, RoutersPlaced, WiresPlaced
<1>2. router' = [router EXCEPT ![s].ifaces = ifaces] /\ wires' = [wires EXCEPT ![s] = w]
    BY DEF RouterReceives
<1>3. PICK table \in Tables : r.added = table[s] /\ r.rtable = AddRoutes(table[s])
    BY <1>1 DEF RouterRight
<1>4. r.ifaces \in RouterIfaces(Q, {}) /\ RouterRight(r, s, P)
    BY <1>1 DEF RouterRight
<1>5. r.rtable \in Seq(Routes)
    BY <1>3, TablesAreTyped
<1>6. SentOn(r.rtable, Q, Incoming(P, s)) /\ Repairable(Incoming(P, s))
    BY <1>3, ClosedGives
<1> HIDE DEF r, Q
<1>7. step \in RouterSteps(Q, {})
    BY <1>4, <1>5, <1>6, RouterTakesFits
<1> HIDE DEF step
<1>8. /\ step.ifaces \in RouterIfaces(Q, {}) /\ step.out[1] \in Seq(Frames(Q[1]))
      /\ step.out[2] \in Seq(Frames(Q[2]))
    BY <1>7, FieldsOfStep
<1>9. Q[1] = P.down[s] /\ Q[2] = P.across[s]
    BY DEF Q, Own
<1>10. one \in Seq(Frames(P.down[s])) /\ two \in Seq(Frames(P.across[s]))
    BY <1>8, <1>9 DEF HostSide, InternetSide
<1>11. ifaces \in RouterIfaces(Q, {})
    BY <1>8, EndToEndConstants, TickedFits
<1> HIDE DEF ifaces, one, two
<1>12. out \in Seq(Frames(P.down[s])) /\ outNet \in Seq(Frames(P.across[s]))
    <2>1. left.outHost \in Seq(Frames(P.down[s])) /\ left.outNet \in Seq(Frames(P.across[s]))
        BY FieldsOfWires
    <2> DEFINE F == Frames(P.down[s])
               G == Frames(P.across[s])
    <2> HIDE DEF F, G
    <2>2. out \in Seq(F)
        BY <1>10, <2>1, ConcatProperties DEF F
    <2>3. outNet \in Seq(G)
        BY <1>10, <2>1, ConcatProperties DEF G
    <2> QED
        BY <2>2, <2>3 DEF F, G
<1> HIDE DEF out, outNet
<1>13. w \in WiresOf(s, P)
    BY <1>12, WiresChange, FieldsOfWires
<1> HIDE DEF w
<1>14. WiresPlaced(P)'
    BY <1>1, <1>2, <1>13 DEF WiresPlaced
<1>15. router' = [router EXCEPT ![s] = [r EXCEPT !.ifaces = ifaces]]
    BY <1>2 DEF r
<1>16. RouterRight([r EXCEPT !.ifaces = ifaces], s, P)
    BY <1>4, <1>11, OtherIfaces DEF Q
<1> DEFINE next == [r EXCEPT !.ifaces = ifaces]
<1> HIDE DEF next
<1>17. DOMAIN router' = Sides /\ router'[s] = next
       /\ \A t \in Sides : t # s => router'[t] = router[t]
    BY <1>1, <1>15 DEF next
<1>18. RoutersPlaced(P)'
    BY <1>1, <1>16, <1>17 DEF RoutersPlaced, next
<1> QED
    BY <1>14, <1>18

\* A router whose time passes.
LEMMA RouterTicksRight ==
    ASSUME NEW P, NEW s, NEW r, RouterRight(r, s, P), NEW ms \in Nat
    PROVE  RouterRight([r EXCEPT !.ifaces = Ticked(r.ifaces, ms)], s, P)
<1>1. r.ifaces \in RouterIfaces(Own(P, s), {})
    BY DEF RouterRight
<1>2. Ticked(r.ifaces, ms) \in RouterIfaces(Own(P, s), {})
    BY <1>1, TickedFits
<1> QED
    BY <1>2, OtherIfaces

\* The event of the network thread in which nothing is to be read.
LEMMA RouterOnlyTicksRight ==
    ASSUME NEW P, Placed(P), NEW s \in Sides, RouterOnlyTicks(s)
    PROVE  RoutersPlaced(P)'
<1> DEFINE next == [router[s] EXCEPT !.ifaces = Ticked(router[s].ifaces, EventMs)]
<1>1. DOMAIN router = Sides /\ \A t \in Sides : RouterRight(router[t], t, P)
    BY DEF Placed, RoutersPlaced
<1>2. router' = [router EXCEPT ![s] = next]
    BY DEF RouterOnlyTicks
<1>3. RouterRight(next, s, P)
    BY <1>1, EndToEndConstants, RouterTicksRight
<1> HIDE DEF next
<1>4. DOMAIN router' = Sides /\ router'[s] = next
      /\ \A t \in Sides : t # s => router'[t] = router[t]
    BY <1>1, <1>2
<1> QED
    BY <1>1, <1>3, <1>4 DEF RoutersPlaced

\* The network thread moves a frame from the host to the router
\* (endtoend.cc:243-254).
LEMMA HostToRouterRight ==
    ASSUME NEW P, Closed(P), Placed(P), NEW s \in Sides, HostToRouter(s)
    PROVE  Placed(P)'
<1> DEFINE w == wires[s]
           frame == Head(w.fromHost)
           rest == Tail(w.fromHost)
           left == [w EXCEPT !.fromHost = rest]
<1>1. w \in WiresOf(s, P)
    BY DEF Placed, WiresPlaced
<1>2. w.fromHost # << >> /\ RouterReceives(s, HostSide, frame, left)
      /\ UNCHANGED << host, net, start, exited, heard, losses >>
    BY DEF HostToRouter, MayHostToRouter
<1> HIDE DEF w
<1>3. frame \in Frames(P.up[s]) /\ rest \in Seq(Frames(P.up[s]))
    BY <1>1, <1>2, FieldsOfWires, HeadAndTail
<1>4. frame \in Frames(Incoming(P, s))
    BY <1>3, FrameSets DEF Incoming
<1> HIDE DEF frame, rest
<1>5. left \in WiresOf(s, P)
    BY <1>1, <1>3, FieldsOfWires, WiresChange
<1> HIDE DEF left
<1>6. RoutersPlaced(P)' /\ WiresPlaced(P)'
    BY <1>2, <1>4, <1>5, RouterReceivesRight DEF HostSide
<1> QED
    BY <1>2, <1>6, Unmoved DEF Placed

\* It moves a frame from the router to the host (endtoend.cc:257-269).
LEMMA RouterToHostRight ==
    ASSUME NEW P, Placed(P), NEW s \in Sides, RouterToHost(s)
    PROVE  Placed(P)'
<1> DEFINE w == wires[s]
           frame == Head(w.outHost)
           rest == Tail(w.outHost)
           more == Append(w.toHost, frame)
           next == [w EXCEPT !.outHost = rest, !.toHost = more]
<1>1. w \in WiresOf(s, P) /\ DOMAIN wires = Sides
      /\ \A t \in Sides : wires[t] \in WiresOf(t, P)
    BY DEF Placed, WiresPlaced
<1>2. w.outHost # << >> /\ RouterOnlyTicks(s)
      /\ UNCHANGED << host, net, start, exited, heard, losses >>
    BY DEF RouterToHost, MayRouterToHost
<1>3. wires' = [wires EXCEPT ![s] = next]
    BY DEF RouterToHost
<1> HIDE DEF w
<1>4. frame \in Frames(P.down[s]) /\ rest \in Seq(Frames(P.down[s]))
    BY <1>1, <1>2, FieldsOfWires, HeadAndTail
<1> HIDE DEF frame, rest
<1>5. more \in Seq(Frames(P.down[s]))
    BY <1>1, <1>4, FieldsOfWires, AppendProperties
<1> HIDE DEF more
<1>6. next \in WiresOf(s, P)
    BY <1>1, <1>4, <1>5, FieldsOfWires, WiresChange
<1> HIDE DEF next
<1>7. WiresPlaced(P)'
    BY <1>1, <1>3, <1>6 DEF WiresPlaced
<1> QED
    BY <1>2, <1>7, RouterOnlyTicksRight, Unmoved DEF Placed

\* It moves a frame from the router to the relay (endtoend.cc:272-284).
LEMMA RouterToInternetRight ==
    ASSUME NEW P, Placed(P), NEW s \in Sides, RouterToInternet(s)
    PROVE  Placed(P)'
<1> DEFINE w == wires[s]
           o == Other(s)
           frame == Head(w.outNet)
           rest == Tail(w.outNet)
           next == [w EXCEPT !.outNet = rest]
           more == Append(net[o], frame)
<1>1. /\ DOMAIN wires = Sides /\ \A t \in Sides : wires[t] \in WiresOf(t, P)
      /\ DOMAIN net = Sides /\ \A t \in Sides : net[t] \in Seq(Frames(P.across[Other(t)]))
    BY DEF Placed, WiresPlaced, NetPlaced
<1>2. w.outNet # << >> /\ RouterOnlyTicks(s)
      /\ UNCHANGED << host, start, exited, heard, losses >>
    BY DEF RouterToInternet, MayRouterToInternet
<1>3. wires' = [wires EXCEPT ![s] = next] /\ net' = [net EXCEPT ![o] = more]
    BY DEF RouterToInternet
<1>4. o \in Sides /\ Other(o) = s /\ w \in WiresOf(s, P)
    BY <1>1, TwoSides
<1>5. net[o] \in Seq(Frames(P.across[s]))
    BY <1>1, <1>4
<1> HIDE DEF w, o
<1>6. frame \in Frames(P.across[s]) /\ rest \in Seq(Frames(P.across[s]))
    BY <1>2, <1>4, FieldsOfWires, HeadAndTail
<1> HIDE DEF frame, rest
<1>7. more \in Seq(Frames(P.across[s]))
    BY <1>5, <1>6, AppendProperties
<1>8. next \in WiresOf(s, P)
    BY <1>4, <1>6, FieldsOfWires, WiresChange
<1> HIDE DEF next, more
<1>9. WiresPlaced(P)'
    BY <1>1, <1>3, <1>8 DEF WiresPlaced
<1>10. NetPlaced(P)'
    BY <1>1, <1>3, <1>4, <1>7 DEF NetPlaced
<1> QED
    BY <1>2, <1>9, <1>10, RouterOnlyTicksRight, Unmoved DEF Placed

\* It moves a frame from the relay to the router (endtoend.cc:287-298).
LEMMA InternetToRouterRight ==
    ASSUME NEW P, Closed(P), Placed(P), NEW s \in Sides, InternetToRouter(s)
    PROVE  Placed(P)'
<1> DEFINE frame == Head(net[s])
           rest == Tail(net[s])
<1>1. /\ DOMAIN net = Sides /\ \A t \in Sides : net[t] \in Seq(Frames(P.across[Other(t)]))
      /\ wires[s] \in WiresOf(s, P)
    BY DEF Placed, WiresPlaced, NetPlaced
<1>2. net[s] # << >> /\ RouterReceives(s, InternetSide, frame, wires[s])
      /\ UNCHANGED << host, start, exited, heard, losses >>
    BY DEF InternetToRouter, MayInternetToRouter
<1>3. net' = [net EXCEPT ![s] = rest]
    BY DEF InternetToRouter
<1>4. frame \in Frames(P.across[Other(s)]) /\ rest \in Seq(Frames(P.across[Other(s)]))
    BY <1>1, <1>2, HeadAndTail
<1>5. frame \in Frames(Incoming(P, s))
    BY <1>4, FrameSets DEF Incoming
<1> HIDE DEF frame, rest
<1>6. RoutersPlaced(P)' /\ WiresPlaced(P)'
    BY <1>1, <1>2, <1>5, RouterReceivesRight DEF InternetSide
<1>7. NetPlaced(P)'
    BY <1>1, <1>3, <1>4 DEF NetPlaced
<1> QED
    BY <1>2, <1>6, <1>7, Unmoved DEF Placed

(***************************************************************************)
(* The host's thread.                                                      *)
(***************************************************************************)
LEMMA SameButIface ==
    ASSUME NEW P, NEW s, NEW hears, NEW h, HostRight(h, hears, s, P),
           NEW g \in Hosts(P.up[s]), g.adapter = h.adapter, g.peer = h.peer,
           g.connected = h.connected
    PROVE  HostRight(g, hears, s, P)
BY DEF HostRight

\* A host whose time passes.
LEMMA HostTicksRight ==
    ASSUME NEW P, NEW s, NEW hears, NEW h, HostRight(h, hears, s, P), NEW ms \in Nat
    PROVE  HostRight([h EXCEPT !.iface = InterfaceTick(h.iface, ms)], hears, s, P)
<1> DEFINE n == InterfaceTick(h.iface, ms)
           g == [h EXCEPT !.iface = n]
<1>1. h \in Hosts(P.up[s])
    BY DEF HostRight
<1>2. n \in Interfaces(P.up[s], {})
    BY <1>1, FieldsOfHost, InterfaceTickFits
<1> HIDE DEF n
<1>3. /\ g \in Hosts(P.up[s]) /\ g.adapter = h.adapter /\ g.peer = h.peer
      /\ g.connected = h.connected
    BY <1>1, <1>2 DEF Hosts
<1> HIDE DEF g
<1>4. HostRight(g, hears, s, P)
    BY <1>3, SameButIface
<1> QED
    BY <1>4 DEF g, n

\* While it listens a peer has sent and heard nothing.
LEMMA ListensIdle ==
    ASSUME NEW P, NEW s, NEW hears, NEW h, HostRight(h, hears, s, P), h.adapter.listening
    PROVE  /\ s = Server /\ s # Client /\ ~h.connected
           /\ ~h.peer.sender.running /\ SenderActive(h.peer) /\ ~HasAckno(h.peer)
<1> DEFINE p == NewPeer(Capacity, Capacity, ServerISN)
<1>1. h.peer = p /\ s = Server /\ ~h.connected
    BY DEF HostRight
<1>2. p.sender = NewSender(Capacity, ServerISN) /\ p.receiver = NewReceiver(Capacity)
    BY DEF NewPeer
<1> HIDE DEF p
<1>3. ~p.sender.running /\ p.sender.input = NewFifo(Capacity)
    BY <1>2 DEF NewSender
<1>4. ~Finished(p.sender.input)
    BY <1>3 DEF Finished, NewFifo
<1>5. ~HasAckno(p)
    BY <1>2 DEF HasAckno, ReceiverSend, NewReceiver
<1> QED
    BY <1>1, <1>3, <1>4, <1>5, TwoSides DEF SenderActive

\* A step of the peer of a host that does not listen.
LEMMA HostStepsRight ==
    ASSUME NEW P, Closed(P), NEW s \in Sides, NEW hears, NEW h, HostRight(h, hears, s, P),
           ~h.adapter.listening, NEW step, StepFits(step)
    PROVE  LET sent == HostSteps(h, Gateway(s), step) IN
           HostRight(sent.host, hears, s, P) /\ sent.out \in Seq(Frames(P.up[s]))
<1> DEFINE sent == HostSteps(h, Gateway(s), step)
<1>1. /\ h \in Hosts(P.up[s]) /\ Ends(h.adapter) \in P.ends[s]
      /\ hears = {} \/ hears = {h.adapter.destination}
    BY DEF HostRight
<1>2. Sendable(h.adapter, P.up[s])
    BY <1>1, FieldsOfHost, ClosedGives DEF Converses
<1>3. Gateway(s) \in IPs
    BY EndToEndConstants DEF Gateway, HostSide
<1>4. /\ sent.host \in Hosts(P.up[s]) /\ sent.out \in Seq(Frames(P.up[s]))
      /\ sent.host.adapter = h.adapter
    BY <1>1, <1>2, <1>3, HostStepsFits
<1> HIDE DEF sent
<1>5. HostRight(sent.host, hears, s, P)
    BY <1>1, <1>4 DEF HostRight
<1> QED
    BY <1>4, <1>5 DEF sent

\* The wires of a side when its host has sent more.
LEMMA SendsMore ==
    ASSUME NEW P, Placed(P), NEW s \in Sides, NEW out \in Seq(Frames(P.up[s])),
           wires' = [wires EXCEPT ![s].fromHost = @ \o out]
    PROVE  WiresPlaced(P)'
<1> DEFINE w == wires[s]
           more == w.fromHost \o out
           next == [w EXCEPT !.fromHost = more]
<1>1. DOMAIN wires = Sides /\ \A t \in Sides : wires[t] \in WiresOf(t, P)
    BY DEF Placed, WiresPlaced
<1>2. w \in WiresOf(s, P) /\ wires' = [wires EXCEPT ![s] = next]
    BY <1>1
<1> HIDE DEF w
<1>3. more \in Seq(Frames(P.up[s]))
    <2> DEFINE F == Frames(P.up[s])
    <2>1. w.fromHost \in Seq(F) /\ out \in Seq(F)
        BY <1>2, FieldsOfWires
    <2> HIDE DEF F
    <2>2. more \in Seq(F)
        BY <2>1, ConcatProperties
    <2> QED
        BY <2>2 DEF F
<1> HIDE DEF more
<1>4. next \in WiresOf(s, P)
    BY <1>2, <1>3, FieldsOfWires, WiresChange
<1> HIDE DEF next
<1> QED
    BY <1>1, <1>2, <1>4 DEF WiresPlaced

\* The hosts when one has changed.
LEMMA OneHostChanges ==
    ASSUME NEW P, Placed(P), NEW s \in Sides, NEW h, HostRight(h, heard[s], s, P),
           host' = [host EXCEPT ![s] = h], heard' = heard
    PROVE  HostsPlaced(P)'
<1>1. /\ DOMAIN host = Sides /\ DOMAIN heard = Sides
      /\ \A t \in Sides : HostRight(host[t], heard[t], t, P)
    BY DEF Placed, HostsPlaced
<1>2. DOMAIN host' = Sides /\ host'[s] = h /\ \A t \in Sides : t # s => host'[t] = host[t]
    BY <1>1
<1> QED
    BY <1>1, <1>2 DEF HostsPlaced

\* What the invariant says of a host.
LEMMA HostIsRight ==
    ASSUME NEW P, Placed(P), NEW s \in Sides
    PROVE  /\ HostRight(host[s], heard[s], s, P)
           /\ host[s] \in Hosts(P.up[s]) /\ PeerFits(Peer(s))
<1>1. HostRight(host[s], heard[s], s, P)
    BY DEF Placed, HostsPlaced
<1>2. host[s] \in Hosts(P.up[s])
    BY <1>1 DEF HostRight
<1> QED
    BY <1>1, <1>2, FieldsOfHost DEF Peer

\* A frame comes to the host: ARP, or a segment for its peer, which answers.
LEMMA HostReceivesRight ==
    ASSUME NEW P, Closed(P), Placed(P), NEW s \in Sides, HostReceives(s)
    PROVE  Placed(P)'
<1> DEFINE w == wires[s]
           h == host[s]
           Q == P.up[s]
           R == P.down[s]
           E == P.ends[s]
           frame == Head(w.toHost)
           rest == Tail(w.toHost)
           step == HostReads(h, Gateway(s), frame)
           more == w.fromHost \o step.out
           next == [w EXCEPT !.toHost = rest, !.fromHost = more]
           from == [ip |-> frame.dgram.src, port |-> frame.dgram.sport]
<1>1. /\ DOMAIN wires = Sides /\ \A t \in Sides : wires[t] \in WiresOf(t, P)
      /\ DOMAIN host = Sides /\ DOMAIN heard = Sides
      /\ \A t \in Sides : HostRight(host[t], heard[t], t, P)
    BY DEF Placed, WiresPlaced, HostsPlaced
<1>2. w.toHost # << >> /\ UNCHANGED << router, net, start, exited, losses >>
    BY DEF HostReceives, MayReceive
<1>3. /\ host' = [host EXCEPT ![s] = step.host] /\ wires' = [wires EXCEPT ![s] = next]
      /\ heard' = IF step.msgs = << >> THEN heard
                  ELSE [heard EXCEPT ![s] = heard[s] \cup {from}]
    BY DEF HostReceives
<1>4. w \in WiresOf(s, P) /\ HostRight(h, heard[s], s, P)
    BY <1>1
<1>5. h \in Hosts(Q)
    BY <1>4 DEF HostRight
<1> HIDE DEF w, h
<1>6. frame \in Frames(R) /\ rest \in Seq(Frames(R))
    BY <1>2, <1>4, FieldsOfWires, HeadAndTail
<1>7. Gateway(s) \in IPs
    BY EndToEndConstants DEF Gateway, HostSide
<1>8. Repairable(R) /\ Converses(Q, R, E)
    BY ClosedGives
<1> HIDE DEF Q, R, E, frame, rest
<1>9. /\ step.host \in Hosts(Q) /\ step.out \in Seq(Frames(Q))
      /\ step.host.connected = h.connected
      /\ \/ /\ step.msgs = << >>
            /\ step.host.adapter = h.adapter /\ step.host.peer = h.peer
         \/ /\ step.msgs # << >>
            /\ ~step.host.adapter.listening /\ Ends(step.host.adapter) \in E
            /\ step.host.adapter.destination = from
            /\ h.adapter.listening \/ step.host.adapter = h.adapter
    BY <1>5, <1>6, <1>7, <1>8, HostReadsFits
<1> HIDE DEF step, from
<1>10. more \in Seq(Frames(Q))
    <2> DEFINE F == Frames(Q)
    <2>1. w.fromHost \in Seq(F) /\ step.out \in Seq(F)
        BY <1>4, <1>9, FieldsOfWires DEF Q
    <2> HIDE DEF F
    <2>2. more \in Seq(F)
        BY <2>1, ConcatProperties
    <2> QED
        BY <2>2 DEF F
<1> HIDE DEF more
<1>11. next \in WiresOf(s, P)
    BY <1>4, <1>6, <1>10, FieldsOfWires, WiresChange DEF Q, R
<1> HIDE DEF next
<1>12. WiresPlaced(P)'
    BY <1>1, <1>3, <1>11 DEF WiresPlaced
<1>13. HostRight(step.host, heard'[s], s, P)
    <2>1. CASE /\ step.msgs = << >>
               /\ step.host.adapter = h.adapter /\ step.host.peer = h.peer
        <3>1. heard'[s] = heard[s]
            BY <1>3, <2>1
        <3> QED
            BY <1>4, <1>9, <2>1, <3>1, SameButIface DEF Q
    <2>2. CASE /\ step.msgs # << >>
               /\ ~step.host.adapter.listening /\ Ends(step.host.adapter) \in E
               /\ step.host.adapter.destination = from
               /\ h.adapter.listening \/ step.host.adapter = h.adapter
        <3>1. heard'[s] = heard[s] \cup {from}
            BY <1>1, <1>3, <2>2
        <3>2. heard[s] = {} \/ heard[s] = {from}
            BY <1>4, <2>2 DEF HostRight
        <3>3. heard'[s] = {step.host.adapter.destination}
            BY <2>2, <3>1, <3>2
        <3> QED
            BY <1>9, <2>2, <3>3 DEF HostRight, Q, E
    <2> QED
        BY <1>9, <2>1, <2>2
<1>14. HostsPlaced(P)'
    <2>1. /\ DOMAIN host' = Sides /\ host'[s] = step.host
          /\ \A t \in Sides : t # s => host'[t] = host[t]
        BY <1>1, <1>3
    <2>2. DOMAIN heard' = Sides /\ \A t \in Sides : t # s => heard'[t] = heard[t]
        BY <1>1, <1>3
    <2> QED
        BY <1>1, <1>13, <2>1, <2>2 DEF HostsPlaced
<1> QED
    BY <1>2, <1>12, <1>14, Unmoved DEF Placed

\* connect and listen_and_accept return.
LEMMA ConnectsRight ==
    ASSUME NEW P, Placed(P), NEW s \in Sides, Connects(s)
    PROVE  Placed(P)'
<1> DEFINE h == host[s]
           g == [h EXCEPT !.connected = TRUE]
<1>1. /\ MayConnect(s) /\ host' = [host EXCEPT ![s] = g]
      /\ UNCHANGED << router, wires, net, start, losses, heard >>
    BY DEF Connects
<1>2. HostRight(h, heard[s], s, P) /\ h \in Hosts(P.up[s])
    BY HostIsRight
<1>3. ~h.adapter.listening
    BY <1>1, <1>2, ListensIdle DEF MayConnect, Peer
<1> HIDE DEF h
<1>4. g \in Hosts(P.up[s]) /\ g.adapter = h.adapter
    BY <1>2 DEF Hosts
<1> HIDE DEF g
<1>5. HostRight(g, heard[s], s, P)
    BY <1>2, <1>3, <1>4 DEF HostRight
<1>6. HostsPlaced(P)'
    BY <1>1, <1>5, OneHostChanges
<1> QED
    BY <1>1, <1>6, Unmoved DEF Placed

\* The application writes, or closes, and the peer pushes.
LEMMA SpeaksRight ==
    ASSUME NEW P, Closed(P), Placed(P), NEW s \in Sides, Speaks(s)
    PROVE  Placed(P)'
<1> DEFINE h == host[s]
           p == Peer(s)
           snd == p.sender
           input == snd.input
           port == h.adapter.source.port
           bytes == [i \in 1 .. Supply[s] |-> port]
           next == IF input.pushed < Supply[s] THEN Push(input, bytes) ELSE Close(input)
           new == [snd EXCEPT !.input = next]
           q == [p EXCEPT !.sender = new]
           step == PeerPush(q)
           sent == HostSteps(h, Gateway(s), step)
<1>1. /\ h.connected /\ host' = [host EXCEPT ![s] = sent.host]
      /\ wires' = [wires EXCEPT ![s].fromHost = @ \o sent.out]
      /\ UNCHANGED << router, net, start, losses, heard >>
    BY DEF Speaks, MaySpeak
<1>2. HostRight(h, heard[s], s, P) /\ h \in Hosts(P.up[s]) /\ PeerFits(p)
    BY HostIsRight
<1>3. ~h.adapter.listening
    BY <1>1, <1>2, ListensIdle
<1>4. port \in Nat /\ Supply[s] \in Nat
    BY <1>2, FieldsOfHost, EndToEndConstants DEF Adapters
<1> HIDE DEF h, port
<1>5. bytes \in Seq(Nat)
    <2> DEFINE n == Supply[s]
    <2>1. bytes \in [1 .. n -> Nat] /\ n \in Nat
        BY <1>4
    <2> HIDE DEF n, bytes
    <2> QED
        BY <2>1, SeqDef
<1>6. SenderFits(snd)
    BY <1>2 DEF PeerFits
<1> HIDE DEF p, bytes
<1>7. snd \in SenderType /\ input \in QueueType /\ Len(input.buf) <= input.cap
    BY <1>6 DEF SenderFits, SenderType
<1> HIDE DEF snd, input
<1>8. next \in QueueType /\ Len(next.buf) <= next.cap
    <2>1. CASE input.pushed < Supply[s]
        <3>1. next = Push(input, bytes)
            BY <2>1
        <3> HIDE DEF next
        <3> QED
            BY <1>5, <1>7, <3>1, PushBounded
    <2>2. CASE ~(input.pushed < Supply[s])
        <3>1. next = Close(input)
            BY <2>2
        <3> HIDE DEF next
        <3> QED
            BY <1>7, <3>1 DEF Close, QueueType
    <2> QED
        BY <2>1, <2>2
<1> HIDE DEF next
<1>9. SenderFits(new)
    BY <1>7, <1>8 DEF SenderFits, SenderType
<1> HIDE DEF new
<1>10. StepFits(step)
    BY <1>2, <1>9, PeerWithSender, PeerPushFits
<1> HIDE DEF step
<1>11. HostRight(sent.host, heard[s], s, P) /\ sent.out \in Seq(Frames(P.up[s]))
    BY <1>2, <1>3, <1>10, HostStepsRight
<1> HIDE DEF sent
<1>12. HostsPlaced(P)'
    BY <1>1, <1>11, OneHostChanges
<1>13. WiresPlaced(P)'
    BY <1>1, <1>11, SendsMore
<1> QED
    BY <1>1, <1>12, <1>13, Unmoved DEF Placed

\* A timer of a peer expires while nothing is under way.
LEMMA TimerExpiresRight ==
    ASSUME NEW P, Closed(P), Placed(P), NEW s \in Sides, TimerExpires(s)
    PROVE  Placed(P)'
<1> DEFINE h == host[s]
           p == Peer(s)
           sent == HostSteps(h, Gateway(s), PeerTick(p))
           left(t) == IF t = s THEN sent.host ELSE host[t]
<1>1. /\ p.sender.running
      /\ host' = [t \in Sides |->
             IF Active(Peer(t))
               THEN [left(t) EXCEPT !.iface = InterfaceTick(left(t).iface, RestMs)]
               ELSE left(t)]
      /\ router' = [t \in Sides |->
             IF t \in exited THEN router[t]
             ELSE [router[t] EXCEPT !.ifaces = Ticked(router[t].ifaces, RestMs)]]
      /\ wires' = [wires EXCEPT ![s].fromHost = @ \o sent.out]
      /\ UNCHANGED << net, start, losses, heard >>
    BY DEF TimerExpires, MayExpire
<1>2. HostRight(h, heard[s], s, P) /\ PeerFits(p)
    BY HostIsRight
<1>3. ~h.adapter.listening
    BY <1>1, <1>2, ListensIdle DEF Peer
<1>4. HostRight(sent.host, heard[s], s, P) /\ sent.out \in Seq(Frames(P.up[s]))
    BY <1>2, <1>3, PeerTickFits, HostStepsRight
<1> HIDE DEF sent
<1>5. \A t \in Sides : HostRight(left(t), heard[t], t, P)
    BY <1>4, HostIsRight
<1> HIDE DEF left
<1>6. RestMs \in Nat
    BY EndToEndConstants
<1>7. HostsPlaced(P)'
    <2>1. ASSUME NEW t \in Sides PROVE HostRight(host'[t], heard'[t], t, P)
        <3> DEFINE g == [left(t) EXCEPT !.iface = InterfaceTick(left(t).iface, RestMs)]
        <3>1. HostRight(g, heard[t], t, P)
            BY <1>5, <1>6, HostTicksRight
        <3>2. host'[t] = IF Active(Peer(t)) THEN g ELSE left(t)
            BY <1>1
        <3>3. heard'[t] = heard[t]
            BY <1>1
        <3> HIDE DEF g
        <3>4. CASE Active(Peer(t))
            BY <3>1, <3>2, <3>3, <3>4
        <3>5. CASE ~Active(Peer(t))
            BY <1>5, <3>2, <3>3, <3>5
        <3> QED
            BY <3>4, <3>5
    <2>2. DOMAIN host' = Sides /\ DOMAIN heard' = Sides
        BY <1>1 DEF Placed, HostsPlaced
    <2> QED
        BY <2>1, <2>2 DEF HostsPlaced
<1>8. RoutersPlaced(P)'
    <2>1. ASSUME NEW t \in Sides PROVE RouterRight(router'[t], t, P)
        <3> DEFINE r == [router[t] EXCEPT !.ifaces = Ticked(router[t].ifaces, RestMs)]
        <3>1. RouterRight(router[t], t, P)
            BY DEF Placed, RoutersPlaced
        <3>2. RouterRight(r, t, P)
            BY <1>6, <3>1, RouterTicksRight
        <3>3. router'[t] = IF t \in exited THEN router[t] ELSE r
            BY <1>1
        <3> HIDE DEF r
        <3> QED
            BY <3>1, <3>2, <3>3
    <2>2. DOMAIN router' = Sides
        BY <1>1
    <2> QED
        BY <2>1, <2>2 DEF RoutersPlaced
<1>9. WiresPlaced(P)'
    BY <1>1, <1>4, SendsMore
<1> QED
    BY <1>1, <1>7, <1>8, <1>9, Unmoved DEF Placed

\* A peer has lingered long enough.
LEMMA LingerExpiresRight ==
    ASSUME NEW P, Placed(P), NEW s \in Sides, LingerExpires(s)
    PROVE  Placed(P)'
<1> DEFINE h == host[s]
           p == h.peer
           q == [p EXCEPT !.quiet = TRUE]
           g == [h EXCEPT !.peer = q]
<1>1. /\ ~SenderActive(p) /\ host' = [host EXCEPT ![s] = g]
      /\ UNCHANGED << router, wires, net, start, losses, heard >>
    BY DEF LingerExpires, MayLeave, Peer
<1>2. HostRight(h, heard[s], s, P) /\ h \in Hosts(P.up[s]) /\ PeerFits(p)
    BY HostIsRight DEF Peer
<1>3. ~h.adapter.listening
    BY <1>1, <1>2, ListensIdle
<1> HIDE DEF h, p
<1>4. q \in PeerType /\ PeerFits(q)
    <2>1. q \in PeerType /\ q.sender = p.sender /\ q.receiver = p.receiver
        BY <1>2 DEF PeerFits, PeerType
    <2> HIDE DEF q
    <2> QED
        BY <1>2, <2>1 DEF PeerFits
<1> HIDE DEF q
<1>5. g \in Hosts(P.up[s]) /\ g.adapter = h.adapter
    BY <1>2, <1>4 DEF Hosts
<1> HIDE DEF g
<1>6. HostRight(g, heard[s], s, P)
    BY <1>2, <1>3, <1>5 DEF HostRight
<1>7. HostsPlaced(P)'
    BY <1>1, <1>6, OneHostChanges DEF h
<1> QED
    BY <1>1, <1>7, Unmoved DEF Placed

(***************************************************************************)
(* The end of a program, and faults.                                       *)
(***************************************************************************)
LEMMA ExitsRight ==
    ASSUME NEW P, Placed(P), NEW s \in Sides, Exits(s)
    PROVE  Placed(P)'
<1>1. UNCHANGED << host, router, wires, net, start, heard, losses >>
    BY DEF Exits
<1> QED
    BY <1>1, Unmoved DEF Placed

\* The relay loses a datagram.
LEMMA LoseRight ==
    ASSUME NEW P, Placed(P), NEW s \in Sides, Lose(s)
    PROVE  Placed(P)'
<1> DEFINE rest == Tail(net[s])
<1>1. /\ net[s] # << >> /\ losses + start <= FaultBudget
      /\ net' = [net EXCEPT ![s] = rest] /\ losses' = losses + 1
      /\ UNCHANGED << host, router, wires, start, heard >>
    BY DEF Lose
<1>2. DOMAIN net = Sides /\ \A t \in Sides : net[t] \in Seq(Frames(P.across[Other(t)]))
    BY DEF Placed, NetPlaced
<1>3. rest \in Seq(Frames(P.across[Other(s)]))
    BY <1>1, <1>2, HeadAndTail
<1> HIDE DEF rest
<1>4. NetPlaced(P)'
    BY <1>1, <1>2, <1>3 DEF NetPlaced
<1>5. Counted'
    <2>1. start \in DOMAIN Starts /\ losses \in 0 .. FaultBudget /\ FaultBudget \in Nat
        BY EndToEndConstants DEF Placed, Counted
    <2>2. start \in Nat /\ start >= 1
        BY <2>1, FirstStart
    <2>3. losses + 1 \in 0 .. FaultBudget
        BY <1>1, <2>1, <2>2
    <2> QED
        BY <1>1, <2>1, <2>3 DEF Counted
<1> QED
    BY <1>1, <1>4, <1>5, Unmoved DEF Placed

\* The client crashes and starts again, with its frames on the relay still under
\* way to the server.
LEMMA RestartsRight ==
    ASSUME NEW P, Closed(P), Placed(P), Restarts
    PROVE  Placed(P)'
<1> DEFINE k == start + 1
           new == NewClient(k)
           w == [NoFrames EXCEPT !.fromHost = new.out]
           r == NewRouter(Client, Starts[k].eth, router[Client].added)
<1>1. /\ start < Len(Starts) /\ start' = k /\ losses' = losses
      /\ host' = [host EXCEPT ![Client] = new.host]
      /\ router' = [router EXCEPT ![Client] = r]
      /\ wires' = [wires EXCEPT ![Client] = w]
      /\ net' = [net EXCEPT ![Client] = << >>]
      /\ heard' = [heard EXCEPT ![Client] = {}]
    BY DEF Restarts
<1>2. start \in DOMAIN Starts /\ losses \in 0 .. FaultBudget
    BY DEF Placed, Counted
<1>3. k \in DOMAIN Starts
    BY <1>1, <1>2, FirstStart
<1> HIDE DEF k
<1>4. HostRight(new.host, {}, Client, P) /\ new.out \in Seq(Frames(P.up[Client]))
    BY <1>3, NewClientRight
<1>5. w \in WiresOf(Client, P)
    BY <1>4, NoFramesRight
<1>6. RouterRight(r, Client, P)
    <2>1. PICK table \in Tables : router[Client].added = table[Client]
        BY TwoSides DEF Placed, RoutersPlaced, RouterRight
    <2>2. Starts[k].eth \in Eths
        BY <1>3, FirstStart
    <2> QED
        BY <2>1, <2>2, TwoSides, NewRouterRight
<1> HIDE DEF new, w, r
<1>7. HostsPlaced(P)'
    <2>1. /\ DOMAIN host = Sides /\ DOMAIN heard = Sides
          /\ \A t \in Sides : HostRight(host[t], heard[t], t, P)
        BY DEF Placed, HostsPlaced
    <2>2. /\ DOMAIN host' = Sides /\ DOMAIN heard' = Sides
          /\ host'[Client] = new.host /\ heard'[Client] = {}
          /\ \A t \in Sides : t # Client => host'[t] = host[t] /\ heard'[t] = heard[t]
        BY <1>1, <2>1, TwoSides
    <2> QED
        BY <1>4, <2>1, <2>2 DEF HostsPlaced
<1>8. RoutersPlaced(P)'
    <2>1. DOMAIN router = Sides /\ \A t \in Sides : RouterRight(router[t], t, P)
        BY DEF Placed, RoutersPlaced
    <2>2. DOMAIN router' = Sides /\ router'[Client] = r
          /\ \A t \in Sides : t # Client => router'[t] = router[t]
        BY <1>1, <2>1, TwoSides
    <2> QED
        BY <1>6, <2>1, <2>2 DEF RoutersPlaced
<1>9. WiresPlaced(P)'
    BY <1>1, <1>5 DEF Placed, WiresPlaced
<1>10. NetPlaced(P)'
    <2>1. \A t \in Sides : << >> \in Seq(Frames(P.across[Other(t)]))
        OBVIOUS
    <2> QED
        BY <1>1, <2>1 DEF Placed, NetPlaced
<1>11. Counted'
    BY <1>1, <1>2, <1>3 DEF Counted
<1> QED
    BY <1>7, <1>8, <1>9, <1>10, <1>11 DEF Placed

-----------------------------------------------------------------------------
(***************************************************************************)
(* What follows from the invariant, for the P that it is wanted for.       *)
(***************************************************************************)
LEMMA NextKeepsPlaced ==
    ASSUME NEW P, Closed(P), Placed(P), [Next]_vars
    PROVE  Placed(P)'
<1>1. ASSUME NEW s \in Sides, NetworkThread(s) PROVE Placed(P)'
    BY <1>1, HostToRouterRight, RouterToHostRight, RouterToInternetRight,
       InternetToRouterRight DEF NetworkThread
<1>2. ASSUME NEW s \in Sides, HostReceives(s) PROVE Placed(P)'
    BY <1>2, HostReceivesRight
<1>3. ASSUME NEW s \in Sides, Connects(s) PROVE Placed(P)'
    BY <1>3, ConnectsRight
<1>4. ASSUME NEW s \in Sides, Speaks(s) PROVE Placed(P)'
    BY <1>4, SpeaksRight
<1>5. ASSUME NEW s \in Sides, TimerExpires(s) PROVE Placed(P)'
    BY <1>5, TimerExpiresRight
<1>6. ASSUME NEW s \in Sides, LingerExpires(s) PROVE Placed(P)'
    BY <1>6, LingerExpiresRight
<1>7. ASSUME NEW s \in Sides, Exits(s) PROVE Placed(P)'
    BY <1>7, ExitsRight
<1>8. ASSUME NEW s \in Sides, Lose(s) PROVE Placed(P)'
    BY <1>8, LoseRight
<1>9. ASSUME Restarts PROVE Placed(P)'
    BY <1>9, RestartsRight
<1>10. ASSUME UNCHANGED vars PROVE Placed(P)'
    BY <1>10, Unmoved DEF Placed, vars
<1> QED
    BY <1>1, <1>2, <1>3, <1>4, <1>5, <1>6, <1>7, <1>8, <1>9, <1>10 DEF Next, Done

\* In every behaviour all that is under way is of the right type.
LEMMA AnywhereStays == Spec => []Placed(Anywhere)
<1>1. Init => Placed(Anywhere)
    BY AnywhereClosed, InitPlaced
<1>2. Placed(Anywhere) /\ [Next]_vars => Placed(Anywhere)'
    BY AnywhereClosed, NextKeepsPlaced
<1> QED
    BY <1>1, <1>2, PTL DEF Spec

\* And in every behaviour all is on its way from one host to the other.
LEMMA FromHostToHostStays == Spec => []Placed(FromHostToHost)
<1>1. Init => Placed(FromHostToHost)
    BY FromHostToHostClosed, InitPlaced
<1>2. Placed(FromHostToHost) /\ [Next]_vars => Placed(FromHostToHost)'
    BY FromHostToHostClosed, NextKeepsPlaced
<1> QED
    BY <1>1, <1>2, PTL DEF Spec

\* The datagrams in a sequence of frames.
LEMMA DatagramsAreOf ==
    ASSUME NEW Q, NEW q \in Seq(Frames(Q))
    PROVE  Datagrams(q) \subseteq Q
<1> SUFFICES ASSUME NEW i \in DOMAIN q, q[i].type = "IPv4"
             PROVE  q[i].dgram \in Q
    BY DEF Datagrams
<1> DEFINE F == Frames(Q)
<1>1. q[i] \in F
    <2> HIDE DEF F
    <2> QED
        BY LenProperties, ElementOfSeq DEF F
<1> QED
    BY <1>1 DEF Frames

\* What TypeOK says of an interface.
LEMMA InterfaceInOrder ==
    ASSUME NEW Q, NEW n \in Interfaces(Q, {})
    PROVE  /\ n.received = << >>
           /\ \A ip \in IPs : \A i \in DOMAIN n.rtable[ip] :
                 n.rtable[ip][i].age < EntryLife
<1>1. n.received = << >>
    BY NothingReceived
<1>2. ASSUME NEW ip \in IPs, NEW i \in DOMAIN n.rtable[ip]
      PROVE  n.rtable[ip][i].age < EntryLife
    <2>1. n.rtable[ip] \in Seq(Entries)
        BY FieldsOfInterface
    <2>2. n.rtable[ip][i] \in Entries
        BY <2>1, LenProperties, ElementOfSeq
    <2> QED
        BY <2>2, LivesAssumption DEF Entries
<1> QED
    BY <1>1, <1>2

\* The invariant for datagrams anywhere gives TypeOK.
LEMMA PlacedIsTyped ==
    ASSUME Placed(Anywhere)
    PROVE  TypeOK
<1> DEFINE P == Anywhere
<1>1. ASSUME NEW s \in Sides
      PROVE  P.up[s] = Dgrams /\ P.across[s] = Dgrams /\ P.down[s] = Dgrams
    BY DEF Anywhere
<1> HIDE DEF P
<1>2. start \in DOMAIN Starts /\ losses \in 0 .. FaultBudget
    BY DEF Placed, Counted
<1>3. ASSUME NEW s \in Sides,
             NEW q \in {wires[s].fromHost, wires[s].outHost, wires[s].outNet,
                        wires[s].toHost, net[s]},
             NEW d \in Datagrams(q)
      PROVE  d.ttl \in 1 .. InitialTTL
    <2>1. wires[s] \in WiresOf(s, P) /\ net[s] \in Seq(Frames(P.across[Other(s)]))
        BY DEF Placed, WiresPlaced, NetPlaced, P
    <2>2. q \in Seq(Frames(Dgrams))
        <3>1. Other(s) \in Sides
            BY TwoSides
        <3>2. P.across[Other(s)] = Dgrams /\ P.up[s] = Dgrams /\ P.across[s] = Dgrams
              /\ P.down[s] = Dgrams
            BY <1>1, <3>1
        <3>3. wires[s].fromHost \in Seq(Frames(Dgrams))
            BY <2>1, <3>2, FieldsOfWires
        <3>4. wires[s].outHost \in Seq(Frames(Dgrams))
            BY <2>1, <3>2, FieldsOfWires
        <3>5. wires[s].outNet \in Seq(Frames(Dgrams))
            BY <2>1, <3>2, FieldsOfWires
        <3>6. wires[s].toHost \in Seq(Frames(Dgrams))
            BY <2>1, <3>2, FieldsOfWires
        <3>7. net[s] \in Seq(Frames(Dgrams))
            BY <2>1, <3>2
        <3> QED
            BY <3>3, <3>4, <3>5, <3>6, <3>7
    <2>3. d \in Dgrams
        BY <2>2, DatagramsAreOf
    <2> QED
        BY <2>3, DgramFields
<1>4. ASSUME NEW s \in Sides,
             NEW n \in {host[s].iface} \cup {router[s].ifaces[i] : i \in 1 .. 2}
      PROVE  /\ n.received = << >>
             /\ \A ip \in IPs : \A i \in DOMAIN n.rtable[ip] :
                   n.rtable[ip][i].age < EntryLife
    <2>1. CASE n = host[s].iface
        <3>1. host[s] \in Hosts(P.up[s])
            BY HostIsRight DEF P
        <3>2. n \in Interfaces(P.up[s], {})
            BY <2>1, <3>1, FieldsOfHost
        <3> QED
            BY <3>2, InterfaceInOrder
    <2>2. CASE n \in {router[s].ifaces[i] : i \in 1 .. 2}
        <3>1. PICK i \in 1 .. 2 : n = router[s].ifaces[i]
            BY <2>2
        <3> DEFINE A == [k \in 1 .. 2 |-> Interfaces(Own(P, s)[k], {})]
        <3>2. router[s].ifaces \in Pairs(A)
            BY DEF Placed, RoutersPlaced, RouterRight, RouterIfaces, P
        <3>3. A[i] = Interfaces(Own(P, s)[i], {})
            OBVIOUS
        <3> HIDE DEF A
        <3>4. n \in Interfaces(Own(P, s)[i], {})
            BY <3>1, <3>2, <3>3, PairMembers
        <3> QED
            BY <3>4, InterfaceInOrder
    <2> QED
        BY <2>1, <2>2
<1> QED
    BY <1>2, <1>3, <1>4 DEF TypeOK

\* Whatever is lost, and whenever the client crashes: no frame carries a
\* datagram whose time to live has run out, no interface keeps what route() or
\* read() should have taken or a mapping that has expired, and the counts keep
\* to their bounds.
THEOREM EndToEndTypeOK == Spec => []TypeOK
<1>1. Placed(Anywhere) => TypeOK
    BY PlacedIsTyped
<1> QED
    BY <1>1, AnywhereStays, PTL

\* For every address, the route that best_match finds in the table that the
\* calls of add_route have made is the longest of those added that matches and,
\* of those added for one prefix, the last (router.cc:24-34, 66-75).
THEOREM EndToEndRoutes == Spec => []RouteIsLongestAndLast
<1>1. Placed(Anywhere) => RouteIsLongestAndLast
    <2> SUFFICES ASSUME Placed(Anywhere), NEW s \in Sides, NEW ip \in IPs
                 PROVE  LET added == router[s].added
                            best == BestMatch(router[s].rtable, ip)
                        IN  IF Matches(added, ip) = {} THEN best = << >>
                            ELSE \E i \in DOMAIN added :
                                    Applies(added, ip, i) /\ best = << added[i] >>
        BY DEF RouteIsLongestAndLast
    <2>1. PICK table \in Tables : router[s].added = table[s]
                                  /\ router[s].rtable = AddRoutes(table[s])
        BY DEF Placed, RoutersPlaced, RouterRight
    <2> DEFINE added == table[s]
    <2>2. /\ added \in Seq(Routes)
          /\ \A i, j \in Matches(added, ip) :
                added[i].length = added[j].length => added[i].prefix = added[j].prefix
        BY EndToEndConstants, TablesAssumption
    <2> HIDE DEF added
    <2> QED
        BY <2>1, <2>2, BestIsWhatApplies DEF added
<1> QED
    BY <1>1, AnywhereStays, PTL

\* What reaches a host was sent to it by the other one, and has passed exactly
\* two routers: no frame goes astray or back, whatever the tables hold besides
\* (TablesAssumption) and whatever is lost.
THEOREM EndToEndTwoRouters == Spec => []TwoRoutersOnTheWay
<1>1. Placed(FromHostToHost) => TwoRoutersOnTheWay
    <2> SUFFICES ASSUME Placed(FromHostToHost), NEW s \in Sides, NEW d \in Datagrams(wires[s].toHost)
                 PROVE  d.dst = HostIP[s] /\ d.ttl = InitialTTL - 2
        BY DEF TwoRoutersOnTheWay
    <2> DEFINE P == FromHostToHost
    <2>1. P.down[s] = Way(Other(s), InitialTTL - 2)
        BY DEF FromHostToHost
    <2>2. wires[s] \in WiresOf(s, P)
        BY DEF Placed, WiresPlaced
    <2> HIDE DEF P
    <2>3. wires[s].toHost \in Seq(Frames(P.down[s]))
        BY <2>2, FieldsOfWires
    <2>4. d \in Way(Other(s), InitialTTL - 2)
        BY <2>1, <2>3, DatagramsAreOf
    <2> QED
        BY <2>4, TwoSides DEF Way
<1> QED
    BY <1>1, FromHostToHostStays, PTL

\* A TCPPeer hears of one partner only: a listener of the one whose SYN it took
\* first, whatever else is still under way to it (tcp_over_ip.cc:30-70).
THEOREM EndToEndOnePartner == Spec => []OnePartner
<1>1. Placed(Anywhere) => OnePartner
    <2> SUFFICES ASSUME Placed(Anywhere), NEW s \in Sides
                 PROVE  heard[s] = {} \/ heard[s] = {host[s].adapter.destination}
        BY DEF OnePartner
    <2>1. HostRight(host[s], heard[s], s, Anywhere)
        BY HostIsRight
    <2> QED
        BY <2>1 DEF HostRight
<1> QED
    BY <1>1, AnywhereStays, PTL
=============================================================================
