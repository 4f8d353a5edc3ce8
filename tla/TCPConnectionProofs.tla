------------------------ MODULE TCPConnectionProofs ------------------------
(***************************************************************************)
(* Proofs about TCPConnection.tla, for every choice of capacities, sizes,  *)
(* initial sequence numbers, bytes written and budgets of the network.     *)
(***************************************************************************)
EXTENDS TCPConnection, OperatorLemmas

-----------------------------------------------------------------------------
(***************************************************************************)
(* Types: a sender, and what its loop carries.                             *)
(***************************************************************************)
SenderSound(s) ==
    /\ s \in SenderType
    /\ InPlace(s.input)
    /\ s.finSent => s.input.closed /\ Buffered(s.input) = 0

LoopStates ==
    {x \in [sender : SenderType,
            loop : [wnd : Nat, data : Nat, out : Seq(Message)]] :
        LoopRight(x.sender, x.loop)}

\* A push that does not return at once starts its loop in such a state.
LEMMA PushStarts ==
    ASSUME NEW s, SenderSound(s), ~PushReturns(s)
    PROVE  [sender |-> s, loop |-> PushLoop(s)] \in LoopStates
<1> DEFINE l == PushLoop(s)
<1>1. s \in SenderType /\ s.last \in Nat /\ s.exp \in Nat /\ Window(s) \in Nat
    BY WindowIs DEF SenderSound, SenderType
<1>2. l.wnd = s.last + Window(s) - s.exp /\ l.out = << >>
    BY DEF PushLoop
<1>3. l.wnd \in Nat
    <2>1. ~(s.last + Window(s) <= s.exp)
        BY DEF PushReturns
    <2> QED
        BY <1>1, <1>2, <2>1
<1>4. Buffered(s.input) \in Nat
    BY InPlaceNumbers DEF SenderSound
<1>5. l.data = LeftToSend(s) /\ l.data \in Nat
    <2>1. l.data = LeftToSend(s)
        BY DEF PushLoop, LeftToSend
    <2> HIDE DEF l
    <2> QED
        BY <1>4, <2>1 DEF LeftToSend, Flag
<1>6. l = [wnd |-> l.wnd, data |-> l.data, out |-> l.out]
    BY DEF PushLoop
<1>7. << >> \in Seq(Message)
    OBVIOUS
<1> HIDE DEF l
<1>8. l \in [wnd : Nat, data : Nat, out : Seq(Message)]
    BY <1>2, <1>3, <1>5, <1>6, <1>7
<1>9. LoopRight(s, l)
    BY <1>2, <1>3, <1>5 DEF LoopRight, SenderSound
<1> QED
    BY <1>1, <1>8, <1>9 DEF LoopStates, l

\* Each of its turns stays in them.
LEMMA TurnStays ==
    ASSUME NEW x \in LoopStates
    PROVE  PushTurn(x) \in LoopStates
<1> DEFINE s == x.sender
           l == x.loop
           msg == TurnMessage(s, l)
           t == TurnSender(s, msg)
           k == TurnLoop(s, l, msg)
<1>1. LoopRight(s, l) /\ l.out \in Seq(Message)
    BY DEF LoopStates
<1>2. CASE Turns(l)
    <2>1. PushTurn(x) = [sender |-> t, loop |-> k]
        BY <1>2 DEF PushTurn
    <2>2. msg \in Message
        BY <1>1, <1>2, TurnSendsSome
    <2>3. Turned(s, l, t, k)
        BY <1>1, <1>2, TurnMoves
    <2>4. LoopRight(t, k)
        BY <1>1, <1>2, TurnKeepsLoop
    <2>5. k = [wnd |-> k.wnd, data |-> k.data, out |-> k.out]
        BY DEF TurnLoop
    <2>6. t \in SenderType /\ k.out = Append(l.out, msg)
        BY <2>3 DEF Turned
    <2> HIDE DEF s, l, msg, t, k
    <2>7. k.wnd \in Nat /\ k.data \in Nat /\ k.out \in Seq(Message)
        BY <1>1, <2>2, <2>4, <2>6, AppendProperties DEF LoopRight
    <2>8. k \in [wnd : Nat, data : Nat, out : Seq(Message)]
        BY <2>5, <2>7
    <2>9. [sender |-> t, loop |-> k] \in LoopStates
        BY <2>4, <2>6, <2>8 DEF LoopStates
    <2> QED
        BY <2>1, <2>9
<1>3. CASE ~Turns(l)
    BY <1>3 DEF PushTurn
<1> QED
    BY <1>2, <1>3

\* push leaves a sound sender and transmits messages.
LEMMA PushAllSound ==
    ASSUME NEW s, SenderSound(s)
    PROVE  SenderSound(PushAll(s).sender) /\ PushAll(s).out \in Seq(Message)
<1>1. CASE PushReturns(s)
    BY <1>1 DEF PushAll
<1>2. CASE ~PushReturns(s)
    <2> DEFINE x == [sender |-> s, loop |-> PushLoop(s)]
    <2>1. x \in LoopStates /\ Buffered(s.input) \in Nat
        BY <1>2, PushStarts, InPlaceNumbers DEF SenderSound
    <2>2. PushTurn(x) \in LoopStates
        BY <2>1, TurnStays
    <2>3. PushLoops(s) \in LoopStates
        BY <2>1, <2>2, TurnStays, PushLoopsStays
    <2>4. PushAll(s) = [sender |-> PushLoops(s).sender, out |-> PushLoops(s).loop.out]
        BY <1>2 DEF PushAll
    <2> QED
        BY <2>3, <2>4 DEF LoopStates, LoopRight, SenderSound
<1> QED
    BY <1>1, <1>2

\* So do receive and tick, and what tick sends again was in flight.
LEMMA SenderReceiveSound ==
    ASSUME NEW s, SenderSound(s), NEW m \in AckMessage
    PROVE  SenderSound(SenderReceive(s, m))
<1> DEFINE t == SenderReceive(s, m)
<1>1. /\ t \in SenderType /\ InPlace(t.input)
      /\ t.input.closed = s.input.closed /\ t.input.buf = s.input.buf
      /\ t.finSent = s.finSent
    BY ReceiveKeepsStream DEF SenderSound
<1> QED
    BY <1>1 DEF SenderSound, Buffered

LEMMA TickSound ==
    ASSUME NEW s, SenderSound(s)
    PROVE  SenderSound(TickExpires(s)) /\ TickTransmits(s) \in Seq(Message)
<1>1. s \in SenderType
    BY DEF SenderSound
<1>2. /\ TickExpires(s) \in SenderType
      /\ TickExpires(s).input = s.input /\ TickExpires(s).finSent = s.finSent
    BY <1>1, TickChanges
<1>3. CASE s.ost = {}
    BY <1>2, <1>3 DEF SenderSound, TickTransmits
<1>4. CASE s.ost # {}
    <2>1. Oldest(s.ost) \in s.ost /\ s.ost \in SUBSET Segment
        BY <1>1, <1>4, OldestIsOne DEF SenderType
    <2>2. Oldest(s.ost).msg \in Message
        BY <2>1 DEF Segment
    <2> QED
        BY <1>2, <1>4, <2>2 DEF SenderSound, TickTransmits
<1> QED
    BY <1>3, <1>4

LEMMA EmptyMessageType ==
    ASSUME NEW s, SenderSound(s)
    PROVE  EmptyMessage(s) \in Message
<1>1. /\ s.exp \in Int /\ s.isn \in Int /\ s.input.error \in BOOLEAN
    BY ModulusType DEF SenderSound, SenderType, QueueType
<1>2. Wrap(s.exp, s.isn) \in 0 .. Modulus - 1
    BY <1>1, WrapInRange
<1>3. << >> \in Seq(Nat)
    OBVIOUS
<1> QED
    BY <1>1, <1>2, <1>3 DEF EmptyMessage, Message

-----------------------------------------------------------------------------
(***************************************************************************)
(* Types: a receiver and what it says.                                     *)
(***************************************************************************)
ReceiverSound(r) ==
    /\ r \in ReceiverType
    /\ \E bound \in Nat : Typed(r.reasm, RecvCapacity, bound)

Answer == {m \in AckMessage : m.window <= Least(RecvCapacity, MaxWindow)}

LEMMA SoundIsFits ==
    ASSUME NEW r
    PROVE  /\ RecvCapacity \in Nat
           /\ ReceiverSound(r) <=> ReceiverFits(r, RecvCapacity)
BY ConnectionConstants DEF ReceiverSound, ReceiverFits

\* insert takes any string a message carries.
LEMMA InsertSound ==
    ASSUME NEW r, ReceiverSound(r), NEW msg \in Message, NEW first \in Nat,
           NEW t, t = Insert(r.reasm, first, msg.payload, msg.FIN)
    PROVE  t \in ReassemblerType /\ \E bound \in Nat : Typed(t, RecvCapacity, bound)
BY SoundIsFits, InsertFits

LEMMA ReceiverReceiveSound ==
    ASSUME NEW r, ReceiverSound(r), NEW msg \in Message
    PROVE  ReceiverSound(ReceiverReceive(r, msg))
BY SoundIsFits, ReceiverReceiveFits

\* What a receiver says is a message with no more of a window than it has room.
LEMMA ReceiverSendType ==
    ASSUME NEW r, ReceiverSound(r)
    PROVE  LET m == ReceiverSend(r) IN
           /\ m \in Answer
           /\ m.hasAck = r.init
           /\ m.window <= Available(r.reasm.output)
BY SoundIsFits, ReceiverSendFits DEF Answer

-----------------------------------------------------------------------------
(***************************************************************************)
(* Types: a peer, and what its steps leave and transmit.                   *)
(***************************************************************************)
PeerType ==
    [sender : SenderType, receiver : ReceiverType,
     needSend : BOOLEAN, linger : BOOLEAN, quiet : BOOLEAN]

PeerSound(x) ==
    x \in PeerType /\ SenderSound(x.sender) /\ ReceiverSound(x.receiver)

Datagram == [sender : Message, receiver : Answer]

StepSound(step) == PeerSound(step.peer) /\ step.out \in Seq(Datagram)

\* The members of a sequence.  Datagrams that carry messages of a set, each
\* with the same answer.
Members(seq) == {seq[i] : i \in 1 .. Len(seq)}

Carry(out, msgs, m) ==
    \A d \in Members(out) : d.sender \in msgs /\ d.receiver = m

\* The members of two sequences, one after the other.
LEMMA MembersOfBoth ==
    ASSUME NEW S, NEW a \in Seq(S), NEW b \in Seq(S)
    PROVE  a \o b \in Seq(S) /\ Members(a \o b) = Members(a) \cup Members(b)
<1>1. Len(a) \in Nat /\ Len(b) \in Nat
    BY LenProperties
<1>2. /\ a \o b \in Seq(S) /\ Len(a \o b) = Len(a) + Len(b)
      /\ \A i \in 1 .. Len(a) + Len(b) : (a \o b)[i] =
            IF i <= Len(a) THEN a[i] ELSE b[i - Len(a)]
    BY ConcatProperties
<1> DEFINE c == a \o b
<1> HIDE DEF c
<1>3. ASSUME NEW i \in 1 .. Len(c) PROVE c[i] \in Members(a) \cup Members(b)
    <2>1. CASE i <= Len(a)
        <3>1. i \in 1 .. Len(a) /\ c[i] = a[i]
            BY <1>1, <1>2, <2>1 DEF c
        <3> QED
            BY <3>1 DEF Members
    <2>2. CASE ~(i <= Len(a))
        <3>1. i - Len(a) \in 1 .. Len(b) /\ c[i] = b[i - Len(a)]
            BY <1>1, <1>2, <2>2 DEF c
        <3> QED
            BY <3>1 DEF Members
    <2> QED
        BY <2>1, <2>2
<1>4. ASSUME NEW i \in 1 .. Len(a) PROVE a[i] \in Members(c)
    <2>1. i \in 1 .. Len(c) /\ c[i] = a[i]
        BY <1>1, <1>2 DEF c
    <2> QED
        BY <2>1 DEF Members
<1>5. ASSUME NEW i \in 1 .. Len(b) PROVE b[i] \in Members(c)
    <2>1. i + Len(a) \in 1 .. Len(c) /\ c[i + Len(a)] = b[i]
        BY <1>1, <1>2 DEF c
    <2> QED
        BY <2>1 DEF Members
<1>6. Members(c) = Members(a) \cup Members(b)
    BY <1>3, <1>4, <1>5 DEF Members
<1> QED
    BY <1>2, <1>6 DEF c

LEMMA MembersAppend ==
    ASSUME NEW S, NEW a \in Seq(S), NEW e \in S
    PROVE  /\ Append(a, e) \in Seq(S) /\ Append(a, e) # << >>
           /\ Members(Append(a, e)) = Members(a) \cup {e}
           /\ \A m \in Members(a) : m \in S
<1> DEFINE c == Append(a, e)
           n == Len(a)
<1>1. n \in Nat /\ c \in Seq(S) /\ Len(c) = n + 1
      /\ (\A i \in 1 .. n : c[i] = a[i]) /\ c[n + 1] = e
    BY LenProperties, AppendProperties
<1>2. \A i \in 1 .. n : a[i] \in S
    BY ElementOfSeq
<1> HIDE DEF c
<1>3. c # << >>
    <2>1. Len(<< >>) = 0
        OBVIOUS
    <2> HIDE DEF n
    <2> QED
        BY <1>1, <2>1
<1>4. Members(a) = {a[i] : i \in 1 .. n} /\ Members(c) = {c[i] : i \in 1 .. n + 1}
    BY <1>1 DEF Members
<1> HIDE DEF n
<1>5. \A i \in 1 .. n + 1 : i \in 1 .. n \/ i = n + 1
    BY <1>1
<1>6. (\A i \in 1 .. n : i \in 1 .. n + 1) /\ n + 1 \in 1 .. n + 1
    BY <1>1
<1>7. Members(c) = Members(a) \cup {e}
    BY <1>1, <1>4, <1>5, <1>6
<1> QED
    BY <1>1, <1>2, <1>3, <1>4, <1>7 DEF c

LEMMA NewPeerSound ==
    ASSUME NEW isn \in 0 .. Modulus - 1
    PROVE  PeerSound(NewPeer(SendCapacity, RecvCapacity, isn))
<1> DEFINE s == NewSender(SendCapacity, isn)
           a == NewReassembler(RecvCapacity)
           r == NewReceiver(RecvCapacity)
<1>1. SendCapacity \in Nat /\ RecvCapacity \in Nat
    BY ConnectionConstants
<1>2. SenderSound(s)
    <2>1. s \in SenderType
        BY <1>1, NewSenderType
    <2>2. s.input = NewFifo(SendCapacity) /\ s.finSent = FALSE
        BY DEF NewSender
    <2>3. InPlace(s.input)
        BY <1>1, <2>2, NewFifoInPlace
    <2> QED
        BY <2>1, <2>2, <2>3 DEF SenderSound
<1>3. a \in ReassemblerType /\ Typed(a, RecvCapacity, 0)
    <2> DEFINE f == NewFifo(RecvCapacity)
    <2>1. f \in QueueType /\ Len(f.buf) = 0 /\ f.cap = RecvCapacity
        BY <1>1, NewFifoInPlace DEF InPlace, NewFifo
    <2>2. a = [segs |-> {}, next |-> 0, last |-> 0, hasLast |-> FALSE, output |-> f]
        BY DEF NewReassembler
    <2> HIDE DEF f, a
    <2>3. a \in ReassemblerType
        BY <2>1, <2>2 DEF ReassemblerType
    <2>4. a.segs = {} /\ a.output = f /\ IsFiniteSet({})
        BY <2>2, FS_EmptySet
    <2> QED
        BY <1>1, <2>1, <2>3, <2>4 DEF Typed, KeysDiffer
<1>4. r = [reasm |-> a, isn |-> 0, maxAbs |-> 0,
           init |-> FALSE, fin |-> FALSE, rst |-> FALSE]
    BY DEF NewReceiver
<1> HIDE DEF s, a, r
<1>5. 0 \in 0 .. Modulus - 1
    BY ModulusType
<1>6. r \in ReceiverType /\ r.reasm = a
    BY <1>3, <1>4, <1>5 DEF ReceiverType
<1>7. ReceiverSound(r)
    BY <1>3, <1>6 DEF ReceiverSound
<1>8. NewPeer(SendCapacity, RecvCapacity, isn) =
        [sender |-> s, receiver |-> r, needSend |-> FALSE, linger |-> TRUE,
         quiet |-> FALSE]
    BY DEF NewPeer, s, r
<1> QED
    BY <1>2, <1>6, <1>7, <1>8 DEF PeerSound, PeerType, SenderSound

\* Everything a peer sends is a datagram.
LEMMA SendsSound ==
    ASSUME NEW x, PeerSound(x), NEW msgs \in Seq(Message)
    PROVE  /\ StepSound(Sends(x, msgs))
           /\ Sends(x, msgs).peer.sender = x.sender
           /\ Sends(x, msgs).peer.receiver = x.receiver
           /\ Carry(Sends(x, msgs).out, Members(msgs), ReceiverSend(x.receiver))
           /\ Sends(x, msgs).peer.needSend => msgs = << >>
<1> DEFINE m == ReceiverSend(x.receiver)
           asks == x.needSend /\ msgs = << >>
           y == [x EXCEPT !.needSend = asks]
           out == [i \in 1 .. Len(msgs) |-> [sender |-> msgs[i], receiver |-> m]]
<1>1. x \in PeerType /\ SenderSound(x.sender) /\ ReceiverSound(x.receiver)
    BY DEF PeerSound
<1>2. m \in Answer
    BY <1>1, ReceiverSendType
<1>3. Len(msgs) \in Nat /\ DOMAIN msgs = 1 .. Len(msgs)
      /\ \A i \in 1 .. Len(msgs) : msgs[i] \in Message
    BY LenProperties, ElementOfSeq
<1>4. asks \in BOOLEAN
    OBVIOUS
<1>5. Sends(x, msgs) = [peer |-> y, out |-> out]
    BY <1>3 DEF Sends
<1> HIDE DEF m, asks
<1>6. \A i \in 1 .. Len(msgs) : [sender |-> msgs[i], receiver |-> m] \in Datagram
    BY <1>2, <1>3 DEF Datagram
<1>7. out \in [1 .. Len(msgs) -> Datagram]
    BY <1>6
<1> HIDE DEF out
<1>8. out \in Seq(Datagram) /\ Len(out) = Len(msgs)
    BY <1>3, <1>7, SeqDef
<1>9. \A i \in 1 .. Len(msgs) : out[i].sender = msgs[i] /\ out[i].receiver = m
    BY DEF out
<1>13. Carry(out, Members(msgs), m)
    BY <1>8, <1>9 DEF Carry, Members
<1>10. /\ y \in PeerType /\ y.sender = x.sender /\ y.receiver = x.receiver
       /\ y.needSend = asks
    BY <1>1, <1>4 DEF PeerType
<1>14. y.needSend => msgs = << >>
    BY <1>10 DEF asks
<1> HIDE DEF y
<1>11. PeerSound(y)
    BY <1>1, <1>10 DEF PeerSound
<1>12. StepSound(Sends(x, msgs))
    BY <1>5, <1>8, <1>11 DEF StepSound
<1> QED
    BY <1>5, <1>10, <1>12, <1>13, <1>14 DEF m

\* A peer with another sender, or another receiver.
LEMMA PeerChanges ==
    ASSUME NEW x, PeerSound(x)
    PROVE  /\ \A s : SenderSound(s) =>
                LET y == [x EXCEPT !.sender = s] IN
                PeerSound(y) /\ y.sender = s /\ y.receiver = x.receiver
           /\ \A r : ReceiverSound(r) =>
                LET y == [x EXCEPT !.receiver = r] IN
                PeerSound(y) /\ y.sender = x.sender /\ y.receiver = r
<1>1. x \in PeerType /\ SenderSound(x.sender) /\ ReceiverSound(x.receiver)
    BY DEF PeerSound
<1>2. ASSUME NEW s, SenderSound(s)
      PROVE  LET y == [x EXCEPT !.sender = s] IN
             PeerSound(y) /\ y.sender = s /\ y.receiver = x.receiver
    <2> DEFINE y == [x EXCEPT !.sender = s]
    <2>1. s \in SenderType
        BY <1>2 DEF SenderSound
    <2>2. y \in PeerType /\ y.sender = s /\ y.receiver = x.receiver
        BY <1>1, <2>1 DEF PeerType
    <2> HIDE DEF y
    <2>3. PeerSound(y)
        BY <1>1, <1>2, <2>2 DEF PeerSound
    <2> QED
        BY <2>2, <2>3 DEF y
<1>3. ASSUME NEW r, ReceiverSound(r)
      PROVE  LET y == [x EXCEPT !.receiver = r] IN
             PeerSound(y) /\ y.sender = x.sender /\ y.receiver = r
    <2> DEFINE y == [x EXCEPT !.receiver = r]
    <2>1. r \in ReceiverType
        BY <1>3 DEF ReceiverSound
    <2>2. y \in PeerType /\ y.sender = x.sender /\ y.receiver = r
        BY <1>1, <2>1 DEF PeerType
    <2> HIDE DEF y
    <2>3. PeerSound(y)
        BY <1>1, <1>3, <2>2 DEF PeerSound
    <2> QED
        BY <2>2, <2>3 DEF y
<1> QED
    BY <1>2, <1>3

\* push and tick, and what they leave of the peer.
LEMMA PeerPushSound ==
    ASSUME NEW x, PeerSound(x)
    PROVE  /\ StepSound(PeerPush(x))
           /\ PeerPush(x).peer.sender = PushAll(x.sender).sender
           /\ PeerPush(x).peer.receiver = x.receiver
           /\ Carry(PeerPush(x).out, Members(PushAll(x.sender).out),
                    ReceiverSend(x.receiver))
           /\ PeerPush(x).peer.needSend => PushAll(x.sender).out = << >>
<1> DEFINE s == PushAll(x.sender).sender
           msgs == PushAll(x.sender).out
           y == [x EXCEPT !.sender = s]
<1>1. SenderSound(s) /\ msgs \in Seq(Message)
    BY PushAllSound DEF PeerSound
<1>2. PeerPush(x) = Sends(y, msgs)
    BY DEF PeerPush
<1> HIDE DEF s, msgs
<1>3. PeerSound(y) /\ y.sender = s /\ y.receiver = x.receiver
    BY <1>1, PeerChanges
<1> HIDE DEF y
<1>4. /\ StepSound(Sends(y, msgs))
      /\ Sends(y, msgs).peer.sender = y.sender
      /\ Sends(y, msgs).peer.receiver = y.receiver
      /\ Carry(Sends(y, msgs).out, Members(msgs), ReceiverSend(y.receiver))
      /\ Sends(y, msgs).peer.needSend => msgs = << >>
    BY <1>1, <1>3, SendsSound
<1> QED
    BY <1>2, <1>3, <1>4 DEF s, msgs

LEMMA PeerTickSound ==
    ASSUME NEW x, PeerSound(x)
    PROVE  /\ StepSound(PeerTick(x))
           /\ PeerTick(x).peer.sender = TickExpires(x.sender)
           /\ PeerTick(x).peer.receiver = x.receiver
           /\ Carry(PeerTick(x).out, Members(TickTransmits(x.sender)),
                    ReceiverSend(x.receiver))
<1> DEFINE s == TickExpires(x.sender)
           msgs == TickTransmits(x.sender)
           y == [x EXCEPT !.sender = s]
<1>1. SenderSound(s) /\ msgs \in Seq(Message)
    BY TickSound DEF PeerSound
<1>2. PeerTick(x) = Sends(y, msgs)
    BY DEF PeerTick
<1> HIDE DEF s, msgs
<1>3. PeerSound(y) /\ y.sender = s /\ y.receiver = x.receiver
    BY <1>1, PeerChanges
<1> HIDE DEF y
<1>4. /\ StepSound(Sends(y, msgs))
      /\ Sends(y, msgs).peer.sender = y.sender
      /\ Sends(y, msgs).peer.receiver = y.receiver
      /\ Carry(Sends(y, msgs).out, Members(msgs), ReceiverSend(y.receiver))
    BY <1>1, <1>3, SendsSound
<1> QED
    BY <1>2, <1>3, <1>4 DEF s, msgs

\* receive changes nothing of a peer that is done.  Otherwise it takes the
\* message in, pushes, and answers when that has sent nothing.
Replies(pushed) ==
    Members(pushed.out)
      \cup {m \in {EmptyMessage(pushed.sender)} : pushed.out = << >>}

LEMMA TakesInSound ==
    ASSUME NEW x, PeerSound(x), NEW d \in Datagram
    PROVE  /\ PeerSound(TakesIn(x, d))
           /\ TakesIn(x, d).sender = SenderReceive(x.sender, d.receiver)
           /\ TakesIn(x, d).receiver = ReceiverReceive(x.receiver, d.sender)
<1> DEFINE s == SenderReceive(x.sender, d.receiver)
           r == ReceiverReceive(x.receiver, d.sender)
           asks == x.needSend \/ SequenceLength(d.sender) > 0 \/ KeepAlive(x, d)
           stays == x.linger /\ ~(Inbound(x).closed /\ ~Finished(x.sender.input))
           y == TakesIn(x, d)
<1>1. x \in PeerType /\ SenderSound(x.sender) /\ ReceiverSound(x.receiver)
    BY DEF PeerSound
<1>2. d.sender \in Message /\ d.receiver \in AckMessage
    BY DEF Datagram, Answer
<1>3. SenderSound(s) /\ ReceiverSound(r)
    BY <1>1, <1>2, SenderReceiveSound, ReceiverReceiveSound
<1>4. asks \in BOOLEAN /\ stays \in BOOLEAN
    OBVIOUS
<1>5. y = [x EXCEPT !.quiet = FALSE, !.needSend = asks, !.linger = stays,
                    !.receiver = r, !.sender = s]
    BY DEF TakesIn
<1> HIDE DEF s, r, asks, stays, y
<1>6. s \in SenderType /\ r \in ReceiverType
    BY <1>3 DEF SenderSound, ReceiverSound
<1>7. y \in PeerType /\ y.sender = s /\ y.receiver = r
    BY <1>1, <1>4, <1>5, <1>6 DEF PeerType
<1>8. PeerSound(y)
    BY <1>3, <1>7 DEF PeerSound
<1> QED
    BY <1>7, <1>8 DEF y, s, r

LEMMA PeerReceiveSound ==
    ASSUME NEW x, PeerSound(x), NEW d \in Datagram
    PROVE  LET step == PeerReceive(x, d)
               s    == SenderReceive(x.sender, d.receiver)
               r    == ReceiverReceive(x.receiver, d.sender) IN
           /\ StepSound(step)
           /\ \/ ~Active(x) /\ step.peer = x /\ step.out = << >>
              \/ /\ Active(x)
                 /\ step.peer.sender = PushAll(s).sender
                 /\ step.peer.receiver = r
                 /\ Carry(step.out, Replies(PushAll(s)), ReceiverSend(r))
<1> DEFINE step == PeerReceive(x, d)
           s == SenderReceive(x.sender, d.receiver)
           r == ReceiverReceive(x.receiver, d.sender)
           y == TakesIn(x, d)
           pushed == PeerPush(y)
           e == EmptyMessage(pushed.peer.sender)
           reply == Sends(pushed.peer, << e >>)
           msgs == Members(PushAll(s).out)
           none == PushAll(s).out = << >>
           m == ReceiverSend(r)
<1>1. CASE ~Active(x)
    <2>1. step = [peer |-> x, out |-> << >>]
        BY <1>1 DEF PeerReceive
    <2>2. << >> \in Seq(Datagram)
        OBVIOUS
    <2> HIDE DEF step
    <2>3. step.peer = x /\ step.out = << >>
        BY <2>1
    <2> QED
        BY <1>1, <2>2, <2>3 DEF StepSound, step
<1>2. CASE Active(x)
    <2>1. PeerSound(y) /\ y.sender = s /\ y.receiver = r
        BY TakesInSound
    <2>2. step = IF pushed.peer.needSend
                   THEN [peer |-> reply.peer, out |-> pushed.out \o reply.out]
                   ELSE pushed
        BY <1>2 DEF PeerReceive
    <2> HIDE DEF step, y, s, r
    <2>3. /\ StepSound(pushed) /\ pushed.peer.sender = PushAll(s).sender
          /\ pushed.peer.receiver = r
          /\ Carry(pushed.out, msgs, m)
          /\ pushed.peer.needSend => none
        BY <2>1, PeerPushSound
    <2>10. Replies(PushAll(s)) = msgs \cup {z \in {EmptyMessage(PushAll(s).sender)} : none}
        BY DEF Replies
    <2> HIDE DEF pushed, msgs, none, m
    <2>4. PeerSound(pushed.peer) /\ SenderSound(pushed.peer.sender)
        BY <2>3 DEF StepSound, PeerSound
    <2>5. e \in Message /\ e = EmptyMessage(PushAll(s).sender)
        BY <2>3, <2>4, EmptyMessageType
    <2> HIDE DEF e
    <2>6. << e >> \in Seq(Message) /\ Members(<< e >>) = {e}
        BY <2>5 DEF Members
    <2>7. /\ StepSound(reply) /\ reply.peer.sender = pushed.peer.sender
          /\ reply.peer.receiver = r
          /\ Carry(reply.out, {e}, m)
        BY <2>3, <2>4, <2>6, SendsSound DEF m
    <2> HIDE DEF reply
    <2>8. CASE ~pushed.peer.needSend
        <3>1. step = pushed
            BY <2>2, <2>8
        <3>2. Carry(step.out, Replies(PushAll(s)), m)
            BY <2>3, <2>10, <3>1 DEF Carry
        <3> QED
            BY <1>2, <2>3, <3>1, <3>2 DEF step, s, r, m
    <2>9. CASE pushed.peer.needSend
        <3> DEFINE out == pushed.out \o reply.out
        <3>1. step = [peer |-> reply.peer, out |-> out]
            BY <2>2, <2>9
        <3>2. pushed.out \in Seq(Datagram) /\ reply.out \in Seq(Datagram)
            BY <2>3, <2>7 DEF StepSound
        <3>3. /\ out \in Seq(Datagram)
              /\ Members(out) \subseteq Members(pushed.out) \cup Members(reply.out)
            BY <3>2, MembersOfBoth
        <3> HIDE DEF out
        <3>4. step.peer = reply.peer /\ step.out = out
            BY <3>1
        <3>5. Carry(step.out, Replies(PushAll(s)), m)
            BY <2>3, <2>5, <2>7, <2>9, <2>10, <3>3, <3>4 DEF Carry
        <3>6. StepSound(step)
            BY <2>7, <3>3, <3>4 DEF StepSound
        <3> QED
            BY <1>2, <2>3, <2>7, <3>4, <3>5, <3>6 DEF step, s, r, m
    <2> QED
        BY <2>8, <2>9
<1> QED
    BY <1>1, <1>2

-----------------------------------------------------------------------------
(***************************************************************************)
(* Types: the connection.                                                  *)
(***************************************************************************)
\* Each of the two has the other for its partner.
LEMMA TwoPeers ==
    /\ \A p \in Peers : Other(p) \in Peers /\ Other(p) # p /\ Other(Other(p)) = p
    /\ \A p, q \in Peers : q # p => q = Other(p)
<1>1. PICK server \in Peers : server # Client /\ Peers = {Client, server}
    BY ConnectionConstants
<1>2. Client \in Peers
    BY ConnectionConstants
<1>3. Other(Client) = server
    <2>1. server \in Peers /\ server # Client
        BY <1>1
    <2>2. \A q \in Peers : q # Client => q = server
        BY <1>1
    <2> QED
        BY <2>1, <2>2 DEF Other
<1>4. Other(server) = Client
    <2>1. \A q \in Peers : q # server => q = Client
        BY <1>1
    <2> QED
        BY <1>1, <1>2, <2>1 DEF Other
<1> QED
    BY <1>1, <1>2, <1>3, <1>4

BudgetType == [loss : Nat, delay : Nat, early : Nat]

TypeInv ==
    /\ peer \in [Peers -> PeerType]
    /\ \A p \in Peers : PeerSound(peer[p])
    /\ net \in [Peers -> Seq(Datagram)]
    /\ connected \in SUBSET Peers
    /\ budget \in BudgetType

\* A peer whose stream is another one.
LEMMA InputChanges ==
    ASSUME NEW x, PeerSound(x), NEW f, InPlace(f),
           x.sender.finSent => f.closed /\ Buffered(f) = 0
    PROVE  LET y == [x EXCEPT !.sender.input = f] IN
           /\ PeerSound(y)
           /\ y.sender = [x.sender EXCEPT !.input = f]
           /\ y.receiver = x.receiver
<1> DEFINE s == [x.sender EXCEPT !.input = f]
           y == [x EXCEPT !.sender.input = f]
<1>1. x \in PeerType /\ SenderSound(x.sender)
    BY DEF PeerSound
<1>2. x.sender \in SenderType /\ f \in QueueType
    BY <1>1 DEF SenderSound, InPlace
<1>3. s \in SenderType /\ s.input = f /\ s.finSent = x.sender.finSent
    BY <1>2 DEF SenderType
<1>4. y = [x EXCEPT !.sender = s]
    BY <1>1 DEF PeerType
<1> HIDE DEF s, y
<1>5. SenderSound(s)
    BY <1>3 DEF SenderSound
<1>6. PeerSound(y) /\ y.sender = s /\ y.receiver = x.receiver
    BY <1>4, <1>5, PeerChanges
<1> QED
    BY <1>6 DEF s, y

\* What the application writes are the bytes that come next.
Written(f, n) == Push(f, [i \in 1 .. n |-> f.pushed + i - 1])

LEMMA WrittenInPlace ==
    ASSUME NEW f, InPlace(f), NEW n \in Nat
    PROVE  /\ InPlace(Written(f, n))
           /\ Written(f, n).popped = f.popped
           /\ Written(f, n).closed = f.closed
           /\ Written(f, n).error = f.error
           /\ Written(f, n).pushed <= f.pushed + n
<1> DEFINE data == [i \in 1 .. n |-> f.pushed + i - 1]
<1>1. f.pushed \in Nat
    BY InPlaceNumbers
<1>2. data \in [1 .. n -> Nat]
    BY <1>1
<1>3. data \in Seq(Nat) /\ Len(data) = n
    BY <1>2, SeqDef
<1>4. \A i \in 1 .. Len(data) : data[i] = f.pushed + i - 1
    BY <1>3
<1>5. Written(f, n) = Push(f, data)
    BY DEF Written
<1> HIDE DEF data
<1>6. /\ InPlace(Push(f, data))
      /\ Room(f, data) \in 0 .. Len(data)
      /\ Push(f, data).pushed = f.pushed + Room(f, data)
      /\ Push(f, data).popped = f.popped
      /\ Push(f, data).closed = f.closed
      /\ Push(f, data).error = f.error
    BY <1>3, <1>4, PushInPlace
<1>7. f.pushed + Room(f, data) <= f.pushed + n
    BY <1>1, <1>3, <1>6
<1> QED
    BY <1>5, <1>6, <1>7

\* A peer whose reader has taken some bytes.
LEMMA ReadSound ==
    ASSUME NEW x, PeerSound(x), NEW n \in Nat, n <= Buffered(Inbound(x)),
           NEW y, y = [x EXCEPT !.receiver.reasm.output = Pop(@, n)]
    PROVE  /\ PeerSound(y)
           /\ y.sender = x.sender
           /\ y.receiver = [x.receiver EXCEPT !.reasm =
                 [x.receiver.reasm EXCEPT !.output = Pop(x.receiver.reasm.output, n)]]
<1> DEFINE a == [x.receiver.reasm EXCEPT !.output = Pop(x.receiver.reasm.output, n)]
           r == [x.receiver EXCEPT !.reasm = a]
<1>1. x \in PeerType /\ ReceiverSound(x.receiver) /\ x.receiver \in ReceiverType
    BY DEF PeerSound, ReceiverSound
<1>2. PICK b \in Nat : Typed(x.receiver.reasm, RecvCapacity, b)
    BY <1>1 DEF ReceiverSound
<1>3. n <= Buffered(x.receiver.reasm.output) /\ RecvCapacity \in Nat
    BY ConnectionConstants DEF Inbound
<1>4. Typed(a, RecvCapacity, b)
    BY <1>2, <1>3, PopTyped
<1>5. y = [x EXCEPT !.receiver = r]
    BY <1>1 DEF PeerType, ReceiverType
<1> HIDE DEF a
<1>6. r \in ReceiverType /\ r.reasm = a
    BY <1>1, <1>4 DEF ReceiverType, Typed
<1> HIDE DEF r
<1>7. ReceiverSound(r)
    BY <1>4, <1>6 DEF ReceiverSound
<1> DEFINE z == [x EXCEPT !.receiver = r]
<1>9. PeerSound(z) /\ z.sender = x.sender /\ z.receiver = r
    BY <1>7, PeerChanges
<1>8. PeerSound(y) /\ y.sender = x.sender /\ y.receiver = r
    BY <1>5, <1>9
<1> QED
    BY <1>8 DEF r, a

LEMMA InitTypeInv == Init => TypeInv
<1> SUFFICES ASSUME Init PROVE TypeInv
    OBVIOUS
<1> DEFINE fresh == [p \in Peers |-> NewPeer(SendCapacity, RecvCapacity, ISN[p])]
           syn == PeerPush(fresh[Client])
<1>1. Client \in Peers
    BY ConnectionConstants
<1>2. \A p \in Peers : PeerSound(fresh[p])
    BY ConnectionConstants, NewPeerSound
<1>3. StepSound(syn)
    BY <1>1, <1>2, PeerPushSound
<1>4. peer = [fresh EXCEPT ![Client] = syn.peer]
    BY DEF Init
<1>5. net = [p \in Peers |-> IF p = Client THEN << >> ELSE syn.out]
    BY DEF Init
<1>6. connected \in SUBSET Peers /\ budget \in BudgetType
    BY ConnectionConstants DEF Init, BudgetType
<1>7. fresh \in [Peers -> PeerType]
    BY <1>2 DEF PeerSound
<1> HIDE DEF fresh, syn
<1>8. peer \in [Peers -> PeerType] /\ \A p \in Peers : PeerSound(peer[p])
    BY <1>1, <1>2, <1>3, <1>4, <1>7 DEF StepSound, PeerSound
<1>9. << >> \in Seq(Datagram)
    OBVIOUS
<1>10. net \in [Peers -> Seq(Datagram)]
    BY <1>3, <1>5, <1>9 DEF StepSound
<1> QED
    BY <1>6, <1>8, <1>10 DEF TypeInv

\* What a step does to the types: a peer takes the place of another, and each
\* net is a sequence of datagrams.
LEMMA TypesAfter ==
    ASSUME TypeInv, NEW p \in Peers, NEW x, PeerSound(x),
           peer' = [peer EXCEPT ![p] = x], net' \in [Peers -> Seq(Datagram)],
           connected' \in SUBSET Peers, budget' \in BudgetType
    PROVE  TypeInv'
BY DEF TypeInv, PeerSound

LEMMA DoesTypes ==
    ASSUME TypeInv, NEW p \in Peers, NEW step, StepSound(step), Does(p, step),
           connected' \in SUBSET Peers, budget' \in BudgetType
    PROVE  TypeInv'
<1>1. Other(p) \in Peers
    BY TwoPeers
<1>2. net[Other(p)] \o step.out \in Seq(Datagram)
    BY <1>1, MembersOfBoth DEF TypeInv, StepSound
<1>3. net' \in [Peers -> Seq(Datagram)]
    BY <1>1, <1>2 DEF TypeInv, Does
<1>4. PeerSound(step.peer) /\ peer' = [peer EXCEPT ![p] = step.peer]
    BY DEF StepSound, Does
<1> QED
    BY <1>3, <1>4, TypesAfter

\* The rest of a net when its first datagram is gone, or comes last.
LEMMA NetWithoutFirst ==
    ASSUME NEW n \in Seq(Datagram), n # << >>
    PROVE  /\ Head(n) \in Datagram /\ Head(n) \in Members(n)
           /\ Tail(n) \in Seq(Datagram) /\ Members(Tail(n)) \in SUBSET Members(n)
           /\ Append(Tail(n), Head(n)) \in Seq(Datagram)
           /\ Members(Append(Tail(n), Head(n))) \in SUBSET Members(n)
<1>1. Len(n) \in Nat /\ Len(n) > 0
    BY EmptySeq, LenProperties
<1>2. Head(n) = n[1] /\ Head(n) \in Datagram /\ Tail(n) \in Seq(Datagram)
      /\ Len(Tail(n)) = Len(n) - 1
      /\ \A i \in 1 .. Len(Tail(n)) : Tail(n)[i] = n[i + 1]
    BY <1>1, HeadTailProperties
<1>3. Head(n) \in Members(n)
    BY <1>1, <1>2 DEF Members
<1>4. Members(Tail(n)) \in SUBSET Members(n)
    <2> SUFFICES ASSUME NEW i \in 1 .. Len(Tail(n)) PROVE Tail(n)[i] \in Members(n)
        BY DEF Members
    <2>1. i + 1 \in 1 .. Len(n)
        BY <1>1, <1>2
    <2> QED
        BY <1>2, <2>1 DEF Members
<1> DEFINE t == Tail(n)
           h == Head(n)
           a == Append(t, h)
<1>5. t \in Seq(Datagram) /\ h \in Datagram /\ Len(t) \in Nat
    BY <1>2, LenProperties
<1> HIDE DEF t, h
<1>6. /\ a \in Seq(Datagram) /\ Len(a) = Len(t) + 1
      /\ \A i \in 1 .. Len(t) : a[i] = t[i]
      /\ a[Len(t) + 1] = h
    BY <1>5, AppendProperties
<1> HIDE DEF a
<1>7. Members(a) \in SUBSET (Members(t) \cup {h})
    <2> SUFFICES ASSUME NEW i \in 1 .. Len(t) + 1 PROVE a[i] \in Members(t) \cup {h}
        BY <1>6 DEF Members
    <2>1. CASE i = Len(t) + 1
        BY <1>6, <2>1
    <2>2. CASE i # Len(t) + 1
        <3>1. i \in 1 .. Len(t)
            BY <1>5, <2>2
        <3> QED
            BY <1>6, <3>1 DEF Members
    <2> QED
        BY <2>1, <2>2
<1>8. Members(a) \in SUBSET Members(n)
    BY <1>3, <1>4, <1>7 DEF t, h
<1> QED
    BY <1>2, <1>3, <1>4, <1>6, <1>8 DEF a, t, h

\* The peer a writing application leaves before the push, and a closing one.
LEMMA WriterSound ==
    ASSUME TypeInv, NEW p \in Peers, ~peer[p].sender.input.closed
    PROVE  LET f == peer[p].sender.input IN
           /\ InPlace(f) /\ ~peer[p].sender.finSent
           /\ \A n \in Nat : PeerSound(WithInput(p, Written(f, n)))
           /\ PeerSound(WithInput(p, Close(f)))
<1> DEFINE x == peer[p]
           f == x.sender.input
<1>1. PeerSound(x) /\ SenderSound(x.sender)
    BY DEF TypeInv, PeerSound
<1>2. InPlace(f) /\ ~x.sender.finSent
    BY <1>1 DEF SenderSound
<1>3. \A g : WithInput(p, g) = [x EXCEPT !.sender.input = g]
    BY DEF WithInput
<1> HIDE DEF x
<1>4. \A n \in Nat : InPlace(Written(f, n))
    BY <1>2, WrittenInPlace
<1>5. InPlace(Close(f))
    BY <1>2, MarksInPlace
<1>6. \A g : InPlace(g) => PeerSound([x EXCEPT !.sender.input = g])
    BY <1>1, <1>2, InputChanges
<1> QED
    BY <1>2, <1>3, <1>4, <1>5, <1>6 DEF x

LEMMA NextTypeInv == TypeInv /\ [Next]_vars => TypeInv'
<1> SUFFICES ASSUME TypeInv, [Next]_vars PROVE TypeInv'
    OBVIOUS
<1>0. /\ peer \in [Peers -> PeerType]
      /\ \A p \in Peers : PeerSound(peer[p])
      /\ \A p \in Peers : net[p] \in Seq(Datagram)
      /\ net \in [Peers -> Seq(Datagram)]
      /\ connected \in SUBSET Peers /\ budget \in BudgetType
    BY DEF TypeInv
<1>1. ASSUME NEW p \in Peers, Connects(p) PROVE TypeInv'
    BY <1>0, <1>1 DEF Connects, TypeInv
<1>2. ASSUME NEW p \in Peers, Deliver(p) PROVE TypeInv'
    <2> DEFINE d == Head(net[p])
               step == PeerReceive(peer[p], d)
               q == Other(p)
    <2>1. /\ d \in Datagram /\ Tail(net[p]) \in Seq(Datagram)
        BY <1>0, <1>2, NetWithoutFirst DEF Deliver, MayDeliver
    <2>2. StepSound(step)
        BY <1>0, <2>1, PeerReceiveSound
    <2>3. q \in Peers /\ q # p
        BY TwoPeers
    <2>4. net[q] \o step.out \in Seq(Datagram)
        BY <1>0, <2>2, <2>3, MembersOfBoth DEF StepSound
    <2>5. /\ peer' = [peer EXCEPT ![p] = step.peer]
          /\ net' = [net EXCEPT ![p] = Tail(@), ![q] = @ \o step.out]
          /\ connected' = connected /\ budget' = budget
        BY <1>2 DEF Deliver
    <2> HIDE DEF d, step, q
    <2>6. net' \in [Peers -> Seq(Datagram)]
        BY <1>0, <2>1, <2>3, <2>4, <2>5
    <2> QED
        BY <1>0, <2>2, <2>5, <2>6, TypesAfter DEF StepSound
<1>3. ASSUME NEW p \in Peers, NEW n \in 1 .. SendCapacity, Write(p, n) PROVE TypeInv'
    <2> DEFINE x == WithInput(p, Written(peer[p].sender.input, n))
    <2>1. ~peer[p].sender.input.closed /\ Does(p, PeerPush(x))
        BY <1>3 DEF Write, MayWrite, Written
    <2>2. PeerSound(x)
        BY <2>1, WriterSound
    <2>3. StepSound(PeerPush(x))
        BY <2>2, PeerPushSound
    <2> HIDE DEF x
    <2> QED
        BY <1>0, <1>3, <2>1, <2>3, DoesTypes DEF Write
<1>4. ASSUME NEW p \in Peers, CloseOutbound(p) PROVE TypeInv'
    <2> DEFINE x == WithInput(p, Close(peer[p].sender.input))
    <2>1. ~peer[p].sender.input.closed /\ Does(p, PeerPush(x))
        BY <1>4 DEF CloseOutbound, MayClose, MayWrite
    <2>2. PeerSound(x)
        BY <2>1, WriterSound
    <2>3. StepSound(PeerPush(x))
        BY <2>2, PeerPushSound
    <2> HIDE DEF x
    <2> QED
        BY <1>0, <1>4, <2>1, <2>3, DoesTypes DEF CloseOutbound
<1>5. ASSUME NEW p \in Peers, Read(p) PROVE TypeInv'
    <2>1. PICK n \in 1 .. Buffered(Inbound(peer[p])) :
              peer' = [peer EXCEPT ![p].receiver.reasm.output = Pop(@, n)]
        BY <1>5 DEF Read
    <2> DEFINE x == [peer[p] EXCEPT !.receiver.reasm.output = Pop(@, n)]
    <2>2. peer' = [peer EXCEPT ![p] = x]
        BY <1>0, <2>1
    <2>3. n \in Nat /\ n <= Buffered(Inbound(peer[p]))
        BY <2>1
    <2>4. PeerSound(x)
        BY <1>0, <2>3, ReadSound
    <2> HIDE DEF x
    <2> QED
        BY <1>0, <1>5, <2>2, <2>4, TypesAfter DEF Read
<1>6. ASSUME NEW p \in Peers, Tick(p) PROVE TypeInv'
    <2>1. StepSound(PeerTick(peer[p]))
        BY <1>0, PeerTickSound
    <2> QED
        BY <1>0, <1>6, <2>1, DoesTypes DEF Tick, TimerRunsOut
<1>7. ASSUME NEW p \in Peers, EarlyTick(p) PROVE TypeInv'
    <2>1. StepSound(PeerTick(peer[p]))
        BY <1>0, PeerTickSound
    <2>2. budget' \in BudgetType
        <3>1. budget \in BudgetType /\ budget' = [budget EXCEPT !.early = @ - 1]
              /\ budget.early > 0
            BY <1>0, <1>7 DEF EarlyTick
        <3> QED
            BY <3>1 DEF BudgetType
    <2> QED
        BY <1>0, <1>7, <2>1, <2>2, DoesTypes DEF EarlyTick, TimerRunsOut
<1>8. ASSUME NEW p \in Peers, LingerExpires(p) PROVE TypeInv'
    <2> DEFINE x == [peer[p] EXCEPT !.quiet = TRUE]
    <2>1. peer' = [peer EXCEPT ![p] = x]
        BY <1>8 DEF LingerExpires
    <2>2. /\ x \in PeerType /\ x.sender = peer[p].sender
          /\ x.receiver = peer[p].receiver
        BY <1>0 DEF PeerType
    <2> HIDE DEF x
    <2>3. PeerSound(x)
        BY <1>0, <2>2 DEF PeerSound
    <2> QED
        BY <1>0, <1>8, <2>1, <2>3, TypesAfter DEF LingerExpires
<1>9. ASSUME NEW p \in Peers, Lose(p) PROVE TypeInv'
    <2>1. Tail(net[p]) \in Seq(Datagram)
        BY <1>0, <1>9, NetWithoutFirst DEF Lose
    <2>2. net' \in [Peers -> Seq(Datagram)]
        <3>1. net' = [net EXCEPT ![p] = Tail(net[p])] /\ net \in [Peers -> Seq(Datagram)]
            BY <1>0, <1>9 DEF Lose
        <3> QED
            BY <2>1, <3>1
    <2>3. budget' \in BudgetType
        <3>1. budget \in BudgetType /\ budget' = [budget EXCEPT !.loss = @ - 1]
              /\ budget.loss > 0
            BY <1>0, <1>9 DEF Lose
        <3> QED
            BY <3>1 DEF BudgetType
    <2> QED
        BY <1>0, <1>9, <2>2, <2>3 DEF Lose, TypeInv
<1>10. ASSUME NEW p \in Peers, Delay(p) PROVE TypeInv'
    <2>1. net[p] # << >>
        BY <1>0, <1>10, EmptySeq DEF Delay
    <2>2. Append(Tail(net[p]), Head(net[p])) \in Seq(Datagram)
        BY <1>0, <2>1, NetWithoutFirst
    <2>3. net' \in [Peers -> Seq(Datagram)]
        BY <1>0, <1>10, <2>2 DEF Delay
    <2>5. budget.delay > 0 /\ budget' = [budget EXCEPT !.delay = @ - 1]
        BY <1>10 DEF Delay
    <2>4. budget' \in BudgetType
        BY <1>0, <2>5 DEF BudgetType
    <2> QED
        BY <1>0, <1>10, <2>3, <2>4 DEF Delay, TypeInv
<1>11. CASE UNCHANGED vars
    BY <1>0, <1>11 DEF vars, TypeInv
<1> QED
    BY <1>1, <1>2, <1>3, <1>4, <1>5, <1>6, <1>7, <1>8, <1>9, <1>10, <1>11
    DEF Next, Done

\* The silence of a peer lasts at most the linger time.
SilenceType == silence \in [Peers -> 0 .. LingerTime]

LEMMA LingerTimeType == LingerTime \in Nat
BY SenderConstants DEF LingerTime

LEMMA InitSilence == Init => SilenceType
BY LingerTimeType DEF Init, SilenceType

LEMMA TimerSilence ==
    ASSUME TypeInv, SilenceType, NEW p \in Peers, TimerRunsOut(p),
           NEW q, q = Other(p)
    PROVE  /\ SilenceType' /\ silence'[p] = silence[p]
           /\ silence'[q] <= silence[q] + peer[p].sender.rto
<1>1. q \in Peers /\ q # p
    BY TwoPeers
<1>2. peer[p].sender.rto \in Nat /\ LingerTime \in Nat
    BY LingerTimeType DEF TypeInv, PeerSound, SenderSound, SenderType
<1> DEFINE n == Least(LingerTime, silence[q] + peer[p].sender.rto)
<1>3. silence[q] \in Nat /\ silence[q] <= LingerTime
    BY <1>1, <1>2 DEF SilenceType
<1>4. n \in 0 .. LingerTime /\ n <= silence[q] + peer[p].sender.rto
    BY <1>2, <1>3 DEF Least
<1>5. silence' = silence \/ silence' = [silence EXCEPT ![q] = n]
    BY DEF TimerRunsOut
<1> HIDE DEF n
<1>6. CASE silence' = silence
    BY <1>2, <1>3, <1>6 DEF SilenceType
<1>7. CASE silence' = [silence EXCEPT ![q] = n]
    BY <1>1, <1>4, <1>7 DEF SilenceType
<1> QED
    BY <1>5, <1>6, <1>7

LEMMA NextSilence == TypeInv /\ SilenceType /\ [Next]_vars => SilenceType'
<1> SUFFICES ASSUME TypeInv, SilenceType, [Next]_vars PROVE SilenceType'
    OBVIOUS
<1>1. ASSUME NEW p \in Peers, Tick(p) \/ EarlyTick(p) PROVE SilenceType'
    BY <1>1, TimerSilence DEF Tick, EarlyTick
<1>2. ASSUME NEW p \in Peers, Deliver(p) PROVE SilenceType'
    <2>1. silence' = [silence EXCEPT ![p] = 0]
        BY <1>2 DEF Deliver
    <2> QED
        BY <2>1, LingerTimeType DEF SilenceType
<1>3. silence' = silence => SilenceType'
    BY DEF SilenceType
<1>4. ASSUME NEW p \in Peers, NEW n \in 1 .. SendCapacity, Write(p, n)
      PROVE  SilenceType'
    BY <1>3, <1>4 DEF Write
<1>5. ASSUME NEW p \in Peers,
             \/ Connects(p) \/ CloseOutbound(p) \/ Read(p)
             \/ LingerExpires(p) \/ Lose(p) \/ Delay(p)
      PROVE  SilenceType'
    BY <1>3, <1>5 DEF Connects, CloseOutbound, Read, LingerExpires, Lose, Delay
<1> QED
    BY <1>1, <1>2, <1>3, <1>4, <1>5 DEF Next, Done, vars

LEMMA SpecTypeInv == Spec => []TypeInv
<1> QED
    BY InitTypeInv, NextTypeInv, PTL DEF Spec

LEMMA SpecSilence == Spec => []SilenceType
<1>1. TypeInv /\ SilenceType /\ [Next]_vars => SilenceType'
    BY NextSilence
<1> QED
    BY <1>1, InitSilence, SpecTypeInv, PTL DEF Spec

\* The state of both peers and all that is under way is of its type: numbers
\* stay natural, a reader's stream within its capacity, and no window promises
\* more than that (tcp_receiver.cc:52).
THEOREM TypeCorrect == Spec => []TypeOK
<1>1. TypeInv /\ SilenceType => TypeOK
    <2> SUFFICES ASSUME TypeInv, SilenceType, NEW p \in Peers
                 PROVE  /\ peer[p].needSend \in BOOLEAN /\ peer[p].quiet \in BOOLEAN
                        /\ silence[p] \in 0 .. LingerTime
                        /\ peer[p].sender.last \in Nat /\ peer[p].sender.exp \in Nat
                        /\ peer[p].receiver.maxAbs \in Nat
                        /\ Available(Inbound(peer[p])) \in 0 .. RecvCapacity
                        /\ \A i \in DOMAIN net[p] :
                              net[p][i].receiver.window
                                \in 0 .. Least(RecvCapacity, MaxWindow)
        BY DEF TypeOK
    <2>1. PeerSound(peer[p]) /\ net[p] \in Seq(Datagram) /\ RecvCapacity \in Nat
          /\ MaxWindow \in Nat
        BY ConnectionConstants, WindowAssumption DEF TypeInv
    <2>2. /\ peer[p].needSend \in BOOLEAN /\ peer[p].quiet \in BOOLEAN
          /\ peer[p].sender \in SenderType /\ peer[p].receiver \in ReceiverType
        BY <2>1 DEF PeerSound, PeerType
    <2>3. Available(peer[p].receiver.reasm.output) \in 0 .. RecvCapacity
        <3>1. PICK b \in Nat : Typed(peer[p].receiver.reasm, RecvCapacity, b)
            BY <2>1 DEF PeerSound, ReceiverSound
        <3> QED
            BY <2>1, <3>1, TypedFields
    <2>4. ASSUME NEW i \in DOMAIN net[p]
          PROVE  net[p][i].receiver.window \in 0 .. Least(RecvCapacity, MaxWindow)
        <3>1. net[p][i] \in Datagram
            BY <2>1, ElementOfSeq, LenProperties
        <3>2. /\ net[p][i].receiver.window \in Nat
              /\ net[p][i].receiver.window <= Least(RecvCapacity, MaxWindow)
            BY <3>1 DEF Datagram, Answer, AckMessage
        <3>3. Least(RecvCapacity, MaxWindow) \in Nat
            BY <2>1 DEF Least
        <3> QED
            BY <3>2, <3>3
    <2>5. silence[p] \in 0 .. LingerTime
        BY DEF SilenceType
    <2> QED
        BY <2>2, <2>3, <2>4, <2>5 DEF SenderType, ReceiverType, Inbound
<1> QED
    BY <1>1, SpecTypeInv, SpecSilence, PTL

-----------------------------------------------------------------------------
(***************************************************************************)
(* What is under way, and what a sender and its partner's receiver say of  *)
(* one another.  A sequence number stands for one place of the stream: the *)
(* SYN is number 0, the bytes follow, and the FIN is after the last.       *)
(***************************************************************************)
\* The message has number a of sender s: the SYN alone, or bytes the sender has
\* read from its stream, in their places, with the FIN only after the last of
\* them.  It fits the window that ends at edge, or is a probe of a single byte.
Placed(m, a, s, edge) ==
    LET end == a - 1 + Len(m.payload) IN
    /\ m.seqno = Wrap(a, s.isn)
    /\ m.SYN <=> (a = 0)
    /\ a = 0 => m.payload = << >> /\ ~m.FIN
    /\ a # 0 => /\ LiesAt(m.payload, a - 1)
                /\ end <= s.input.popped + Flag(s.finSent)
                /\ Len(m.payload) = 0 \/ end <= s.input.popped
                /\ m.FIN => s.finSent /\ end = s.input.popped
                /\ end <= edge \/ Len(m.payload) <= 1

Sent(m, s, edge) ==
    ~m.RST /\ \E a \in 0 .. s.input.popped + 2 : Placed(m, a, s, edge)

\* The sender has numbered what it has read, and the FIN; it takes the other's
\* window to end no further right than it does, unless all is sent already.
SendRight(s, edge) ==
    /\ ~s.input.error
    /\ s.finAcked => s.finSent
    /\ s.exp = 0 => s.input.pushed = 0 /\ ~s.input.closed /\ s.last = 0
    /\ s.exp # 0 => s.exp = 1 + s.input.popped + Flag(s.finSent)
    /\ s.last <= s.exp
    /\ s.last + s.wnd <= 1 + edge \/ s.finSent
    /\ \A x \in s.ost : Sent(x.msg, s, edge)

\* The receiver has a part of what the sender has read from its stream.
RecvRight(r, s) ==
    /\ Streams(r.reasm, s.input.popped)
    /\ ~r.rst /\ ~r.reasm.output.error
    /\ r.reasm.hasLast => s.finSent
    /\ r.fin => s.finSent
    /\ r.maxAbs <= s.input.popped + 2
    /\ r.init => r.isn = s.isn

\* An answer of the receiver: a number it has acknowledged, and a window that
\* ends no further right than it does now, unless all is sent already.
AckRight(m, r, s) ==
    LET edge == WindowEdge(r.reasm) IN
    /\ ~m.RST
    /\ m.hasAck => r.init /\ \E k \in 0 .. s.input.popped + 2 :
          /\ m.ackno = Wrap(k, s.isn)
          /\ k + m.window <= 1 + edge \/ s.finSent
    /\ ~m.hasAck => m.window <= edge

\* How a sender and a receiver go on: nothing is taken back.
Advances(s, t) ==
    /\ t.isn = s.isn
    /\ s.input.popped <= t.input.popped
    /\ s.finSent => t.finSent /\ t.input.popped = s.input.popped

Opens(r, u) ==
    /\ WindowEdge(r.reasm) <= WindowEdge(u.reasm)
    /\ r.init => u.init

\* The numbers of a sender and a receiver.
LEMMA SenderNumbers ==
    ASSUME NEW s, SenderSound(s)
    PROVE  /\ s.input.popped \in Nat /\ s.input.pushed \in Nat
           /\ s.input.pushed = s.input.popped + Buffered(s.input)
           /\ Buffered(s.input) \in Nat
           /\ s.exp \in Nat /\ s.last \in Nat /\ s.wnd \in Nat
           /\ s.isn \in 0 .. Modulus - 1 /\ s.isn \in Int
           /\ s.finSent \in BOOLEAN /\ s.finAcked \in BOOLEAN
           /\ s.input.closed \in BOOLEAN /\ s.input.error \in BOOLEAN
           /\ Flag(s.finSent) \in {0, 1}
           /\ s.ost \in SUBSET Segment
<1>1. s \in SenderType /\ InPlace(s.input)
    BY DEF SenderSound
<1>2. s.isn \in 0 .. Modulus - 1 /\ s.isn \in Int
    BY <1>1, ModulusType DEF SenderType
<1> QED
    BY <1>1, <1>2, InPlaceNumbers DEF SenderType, Flag

LEMMA ReceiverNumbers ==
    ASSUME NEW r, ReceiverSound(r)
    PROVE  /\ WindowEdge(r.reasm) \in Nat
           /\ WindowEdge(r.reasm) = r.reasm.next + Available(r.reasm.output)
           /\ r.reasm.next \in Nat /\ Available(r.reasm.output) \in Nat
           /\ r.maxAbs \in Nat /\ r.isn \in Int
           /\ r.init \in BOOLEAN /\ r.fin \in BOOLEAN /\ r.rst \in BOOLEAN
<1>1. r \in ReceiverType /\ RecvCapacity \in Nat
    BY ConnectionConstants DEF ReceiverSound
<1>2. PICK b \in Nat : Typed(r.reasm, RecvCapacity, b)
    BY DEF ReceiverSound
<1>3. /\ WindowEdge(r.reasm) \in Nat
      /\ WindowEdge(r.reasm) = r.reasm.next + Available(r.reasm.output)
      /\ r.reasm.next \in Nat /\ Available(r.reasm.output) \in 0 .. RecvCapacity
    BY <1>1, <1>2, TypedFields
<1>4. r.isn \in Int
    BY <1>1, ModulusType DEF ReceiverType
<1> QED
    BY <1>1, <1>3, <1>4 DEF ReceiverType

\* What was sent stays right while the sender goes on and the window opens.
LEMMA SentStays ==
    ASSUME NEW s, SenderSound(s), NEW t, SenderSound(t), Advances(s, t),
           NEW edge \in Nat, NEW wide \in Nat, edge <= wide,
           NEW m \in Message, Sent(m, s, edge)
    PROVE  Sent(m, t, wide)
<1>1. PICK a \in 0 .. s.input.popped + 2 : Placed(m, a, s, edge)
    BY DEF Sent
<1> DEFINE n == Len(m.payload)
           P == s.input.popped
           Q == t.input.popped
           F == Flag(s.finSent)
           G == Flag(t.finSent)
<1>2. /\ n \in Nat /\ P \in Nat /\ Q \in Nat /\ F \in {0, 1} /\ G \in {0, 1}
      /\ P <= Q /\ a \in Nat
    <2>1. m.payload \in Seq(Nat)
        BY DEF Message
    <2> QED
        BY <2>1, LenProperties, SenderNumbers DEF Advances
<1>3. s.finSent => t.finSent /\ Q = P
    BY DEF Advances
<1>4. F <= 1 /\ (~s.finSent => F = 0) /\ (t.finSent => G = 1)
    BY DEF Flag
<1>5. t.isn = s.isn
    BY DEF Advances
<1>6. a # 0 => /\ LiesAt(m.payload, a - 1)
               /\ a - 1 + n <= P + F
               /\ n = 0 \/ a - 1 + n <= P
               /\ m.FIN => s.finSent /\ a - 1 + n = P
               /\ a - 1 + n <= edge \/ n <= 1
    BY <1>1 DEF Placed
<1>7. m.seqno = Wrap(a, t.isn) /\ (m.SYN <=> (a = 0)) /\ (a = 0 => m.payload = << >> /\ ~m.FIN)
    BY <1>1, <1>5 DEF Placed
<1>13. P \in Int /\ Q \in Int /\ F \in Int /\ G \in Int /\ n \in Int /\ a \in Int
       /\ 0 <= F /\ 0 <= G
    BY <1>2
<1> HIDE DEF n, P, Q, F, G
<1>8. P + F <= Q + G
    <2>1. CASE s.finSent
        <3>1. Q = P /\ G = 1
            BY <1>3, <1>4, <2>1
        <3> QED
            BY <1>4, <1>13, <3>1
    <2>2. CASE ~s.finSent
        <3>1. F = 0
            BY <1>4, <2>2
        <3> QED
            BY <1>2, <1>13, <3>1
    <2> QED
        BY <2>1, <2>2
<1>9. ASSUME a # 0
      PROVE  /\ a - 1 + n <= Q + G
             /\ n = 0 \/ a - 1 + n <= Q
             /\ a - 1 + n <= wide \/ n <= 1
    <2>1. a - 1 + n <= P + F
        BY <1>6, <1>9
    <2>2. n = 0 \/ a - 1 + n <= P
        BY <1>6, <1>9
    <2>3. a - 1 + n <= edge \/ n <= 1
        BY <1>6, <1>9
    <2> QED
        BY <1>2, <1>8, <1>13, <2>1, <2>2, <2>3
<1>10. a # 0 /\ m.FIN => t.finSent /\ a - 1 + n = Q
    BY <1>3, <1>6
<1>11. Placed(m, a, t, wide)
    BY <1>6, <1>7, <1>9, <1>10 DEF Placed, n, Q, G
<1>12. a \in 0 .. Q + 2
    BY <1>2, a \in 0 .. P + 2 DEF P
<1> QED
    BY <1>11, <1>12 DEF Sent, Q

\* What a receiver has is right while the sender goes on.
LEMMA StreamsGrow ==
    ASSUME NEW r, NEW total \in Nat, NEW more \in Nat, Streams(r, total),
           r.next \in Nat, \A x \in r.segs : x.begin \in Nat /\ x.end \in Nat,
           total <= more, r.hasLast => more = total
    PROVE  Streams(r, more)
<1>1. ASSUME NEW x \in r.segs PROVE SegRight(x, WindowEdge(r), more)
    <2>1. SegRight(x, WindowEdge(r), total) /\ x.end \in Nat
        BY DEF Streams
    <2> QED
        BY <2>1 DEF SegRight
<1>2. r.next <= more
    BY DEF Streams
<1>3. r.hasLast => r.last = more
    BY DEF Streams
<1>4. r.output.closed => r.hasLast /\ r.next = more
    BY DEF Streams
<1> QED
    BY <1>1, <1>2, <1>3, <1>4 DEF Streams

LEMMA RecvStays ==
    ASSUME NEW s, SenderSound(s), NEW t, SenderSound(t), Advances(s, t),
           NEW r, ReceiverSound(r), RecvRight(r, s)
    PROVE  RecvRight(r, t)
<1> DEFINE P == s.input.popped
           Q == t.input.popped
<1>1. P \in Nat /\ Q \in Nat /\ P <= Q /\ r.maxAbs \in Nat
    BY SenderNumbers, ReceiverNumbers DEF Advances
<1>2. s.finSent => t.finSent /\ Q = P
    BY DEF Advances
<1>3. t.isn = s.isn
    BY DEF Advances
<1>4. r.reasm \in ReassemblerType /\ r.reasm.segs \in SUBSET SegType
      /\ r.reasm.next \in Nat
    BY DEF ReceiverSound, ReceiverType, ReassemblerType
<1>5. \A x \in r.reasm.segs : x.begin \in Nat /\ x.end \in Nat
    BY <1>4 DEF SegType
<1>6. Streams(r.reasm, P) /\ (r.reasm.hasLast => s.finSent) /\ r.maxAbs <= P + 2
    BY DEF RecvRight
<1>11. r.reasm.hasLast => Q = P
    BY <1>2, <1>6
<1> HIDE DEF P, Q
<1>7. Streams(r.reasm, Q)
    BY <1>1, <1>4, <1>5, <1>6, <1>11, StreamsGrow
<1>8. r.maxAbs <= Q + 2
    BY <1>1, <1>6
<1>9. (r.reasm.hasLast => t.finSent) /\ (r.fin => t.finSent)
    BY <1>2 DEF RecvRight
<1>10. (r.init => r.isn = t.isn) /\ ~r.rst /\ ~r.reasm.output.error
    BY <1>3 DEF RecvRight
<1> QED
    BY <1>7, <1>8, <1>9, <1>10 DEF RecvRight, Q

\* So is an answer, while both go on.
LEMMA AckStays ==
    ASSUME NEW s, SenderSound(s), NEW t, SenderSound(t), Advances(s, t),
           NEW r, ReceiverSound(r), NEW u, ReceiverSound(u), Opens(r, u),
           NEW m \in AckMessage, AckRight(m, r, s)
    PROVE  AckRight(m, u, t)
<1> DEFINE P == s.input.popped
           Q == t.input.popped
           edge == WindowEdge(r.reasm)
           wide == WindowEdge(u.reasm)
<1>1. P \in Nat /\ Q \in Nat /\ P <= Q /\ t.isn = s.isn
    BY SenderNumbers DEF Advances
<1>2. edge \in Nat /\ wide \in Nat /\ edge <= wide /\ m.window \in Nat
    BY ReceiverNumbers DEF Opens, AckMessage
<1>3. (s.finSent => t.finSent) /\ (r.init => u.init)
    BY DEF Advances, Opens
<1>4. ~m.RST
    BY DEF AckRight
<1>5. ASSUME m.hasAck
      PROVE  u.init /\ \E k \in 0 .. Q + 2 : /\ m.ackno = Wrap(k, t.isn)
                                             /\ k + m.window <= 1 + wide \/ t.finSent
    <2>1. r.init
        BY <1>5 DEF AckRight
    <2>2. PICK k \in 0 .. P + 2 : /\ m.ackno = Wrap(k, s.isn)
                                  /\ k + m.window <= 1 + edge \/ s.finSent
        BY <1>5 DEF AckRight
    <2> HIDE DEF P, Q, edge, wide
    <2>3. k \in 0 .. Q + 2
        BY <1>1
    <2>4. k + m.window <= 1 + edge => k + m.window <= 1 + wide
        BY <1>1, <1>2
    <2> QED
        BY <1>1, <1>3, <2>1, <2>2, <2>3, <2>4
<1>6. ASSUME ~m.hasAck PROVE m.window <= wide
    <2>1. m.window <= edge
        BY <1>6 DEF AckRight
    <2> HIDE DEF edge, wide
    <2> QED
        BY <1>2, <2>1
<1> QED
    BY <1>4, <1>5, <1>6 DEF AckRight

\* A sender is right while its partner's window opens.
LEMMA SendStays ==
    ASSUME NEW s, SenderSound(s), NEW edge \in Nat, NEW wide \in Nat, edge <= wide,
           SendRight(s, edge)
    PROVE  SendRight(s, wide)
<1>1. Advances(s, s)
    BY SenderNumbers DEF Advances
<1>2. ASSUME NEW x \in s.ost PROVE Sent(x.msg, s, wide)
    <2>1. Sent(x.msg, s, edge) /\ x.msg \in Message
        BY SenderNumbers DEF SendRight, Segment
    <2> QED
        BY <1>1, <2>1, SentStays
<1>3. s.last + s.wnd <= 1 + wide \/ s.finSent
    <2>1. s.last + s.wnd <= 1 + edge \/ s.finSent
        BY DEF SendRight
    <2>2. s.last \in Nat /\ s.wnd \in Nat
        BY SenderNumbers
    <2> QED
        BY <2>1, <2>2
<1> QED
    BY <1>2, <1>3 DEF SendRight

-----------------------------------------------------------------------------
(***************************************************************************)
(* What the operations leave of a sender and a receiver, and what they     *)
(* send, is right.                                                         *)
(***************************************************************************)
\* An empty message has the number that comes next.
LEMMA EmptyMessageRight ==
    ASSUME NEW s, SenderSound(s), NEW edge \in Nat, SendRight(s, edge), s.exp # 0
    PROVE  Sent(EmptyMessage(s), s, edge)
<1> DEFINE m == EmptyMessage(s)
           P == s.input.popped
           F == Flag(s.finSent)
<1>1. P \in Nat /\ F \in {0, 1} /\ s.exp \in Nat /\ s.exp = 1 + P + F
    BY SenderNumbers DEF SendRight
<1>2. /\ m.seqno = Wrap(s.exp, s.isn) /\ m.SYN = FALSE /\ m.payload = << >>
      /\ m.FIN = FALSE /\ m.RST = s.input.error
    BY DEF EmptyMessage
<1>3. ~m.RST
    BY <1>2 DEF SendRight
<1>4. Len(m.payload) = 0 /\ LiesAt(m.payload, s.exp - 1)
    BY <1>2, EmptySeq DEF LiesAt
<1>5. s.exp \in 0 .. P + 2 /\ s.exp - 1 + Len(m.payload) <= P + F
    BY <1>1, <1>4
<1>6. Placed(m, s.exp, s, edge)
    BY <1>2, <1>4, <1>5 DEF Placed
<1> QED
    BY <1>3, <1>5, <1>6 DEF Sent

\* The oldest message in flight, which a timeout sends again, was sent before.
LEMMA TickRight ==
    ASSUME NEW s, SenderSound(s), NEW edge \in Nat, SendRight(s, edge)
    PROVE  LET t == TickExpires(s) IN
           /\ SendRight(t, edge) /\ Advances(s, t)
           /\ t.input = s.input /\ t.exp = s.exp /\ t.last = s.last /\ t.ost = s.ost
           /\ \A m \in Members(TickTransmits(s)) :
                 Sent(m, t, edge) /\ \E x \in s.ost : m = x.msg
<1> DEFINE t == TickExpires(s)
<1>1. s \in SenderType
    BY DEF SenderSound
<1>2. /\ t.input = s.input /\ t.isn = s.isn /\ t.last = s.last /\ t.exp = s.exp
      /\ t.wnd = s.wnd /\ t.finSent = s.finSent /\ t.ost = s.ost
      /\ t.finAcked = s.finAcked
    BY <1>1, TickChanges
<1> HIDE DEF t
<1>3. Advances(s, t)
    BY <1>2, SenderNumbers DEF Advances
<1>4. ASSUME NEW m, Sent(m, s, edge) PROVE Sent(m, t, edge)
    BY <1>2, <1>4 DEF Sent, Placed
<1>5. SendRight(t, edge)
    BY <1>2, <1>4 DEF SendRight
<1>6. ASSUME NEW m \in Members(TickTransmits(s))
      PROVE  Sent(m, t, edge) /\ \E x \in s.ost : m = x.msg
    <2>1. CASE s.ost = {}
        <3>1. TickTransmits(s) = << >> /\ Len(<< >>) = 0
            BY <2>1, EmptySeq DEF TickTransmits
        <3> QED
            BY <3>1 DEF Members
    <2>2. CASE s.ost # {}
        <3>1. TickTransmits(s) = << Oldest(s.ost).msg >>
            BY <2>2 DEF TickTransmits
        <3>2. m = Oldest(s.ost).msg /\ Oldest(s.ost) \in s.ost
            BY <1>1, <2>2, <3>1, OldestIsOne DEF Members
        <3> QED
            BY <1>4, <3>2 DEF SendRight
    <2> QED
        BY <2>1, <2>2
<1> QED
    BY <1>2, <1>3, <1>5, <1>6 DEF t

\* What a receiver says is right.
LEMMA ReceiverSendRight ==
    ASSUME NEW s, SenderSound(s), NEW r, ReceiverSound(r), RecvRight(r, s)
    PROVE  AckRight(ReceiverSend(r), r, s)
<1> DEFINE m == ReceiverSend(r)
           P == s.input.popped
           n == r.reasm.next
           f == Flag(AckFIN(r))
           edge == WindowEdge(r.reasm)
           room == Available(r.reasm.output)
<1>1. P \in Nat /\ n \in Nat /\ edge \in Nat /\ room \in Nat /\ edge = n + room
    BY SenderNumbers, ReceiverNumbers
<1>2. n <= P
    BY DEF RecvRight, Streams
<1>3. f \in {0, 1} /\ (f = 1 => s.finSent)
    BY DEF Flag, AckFIN, RecvRight
<1>4. m.hasAck = r.init /\ m.window \in Nat /\ m.window <= room
    BY ReceiverSendType DEF Answer, AckMessage
<1>5. ~m.RST
    BY DEF ReceiverSend, RecvRight
<1>6. r.init => m.ackno = Wrap(n + 1 + f, s.isn)
    BY DEF ReceiverSend, RecvRight
<1> HIDE DEF m, P, n, f, edge, room
<1>7. ASSUME m.hasAck
      PROVE  r.init /\ \E k \in 0 .. P + 2 :
                /\ m.ackno = Wrap(k, s.isn)
                /\ k + m.window <= 1 + edge \/ s.finSent
    <2>1. r.init
        BY <1>4, <1>7
    <2>2. n + 1 + f \in 0 .. P + 2
        BY <1>1, <1>2, <1>3
    <2>3. n + 1 + f + m.window <= 1 + edge \/ s.finSent
        <3>1. CASE f = 1
            BY <1>3, <3>1
        <3>2. CASE f = 0
            BY <1>1, <1>4, <3>2
        <3> QED
            BY <1>3, <3>1, <3>2
    <2> QED
        BY <1>6, <2>1, <2>2, <2>3
<1>8. m.window <= edge
    BY <1>1, <1>4
<1> QED
    BY <1>5, <1>7, <1>8 DEF AckRight, m, P, edge

\* The stream is short enough: its numbers are told apart whatever is late.
Short(s) == s.input.popped + 2 < Half

\* A number of a short stream is recovered from any other one.
LEMMA NumbersRecovered ==
    ASSUME NEW s, SenderSound(s), Short(s),
           NEW a \in 0 .. s.input.popped + 2, NEW near \in 0 .. s.input.popped + 2
    PROVE  Unwrap(Wrap(a, s.isn), s.isn, near) = a
<1>1. s.input.popped \in Nat /\ s.isn \in Int /\ Half \in Nat
    BY SenderNumbers, ModulusType
<1>2. a \in Nat /\ near \in Nat /\ a - near < Half /\ near - a < Half
    BY <1>1 DEF Short
<1> QED
    BY <1>1, <1>2, UnwrapInvertsWrap

\* A receiver that takes in a message of its partner's sender.
LEMMA ReceiverReceiveRight ==
    ASSUME NEW s, SenderSound(s), Short(s),
           NEW r, ReceiverSound(r), RecvRight(r, s),
           NEW m \in Message, Sent(m, s, WindowEdge(r.reasm)), r.init \/ m.SYN,
           NEW u, u = ReceiverReceive(r, m)
    PROVE  RecvRight(u, s) /\ Opens(r, u) /\ u.init
<1> DEFINE P == s.input.popped
           edge == WindowEdge(r.reasm)
           data == m.payload
<1>1. P \in Nat /\ r.maxAbs \in Nat /\ r.maxAbs <= P + 2 /\ edge \in Nat
      /\ s.isn \in 0 .. Modulus - 1
    BY SenderNumbers, ReceiverNumbers DEF RecvRight
<1>2. ~m.RST /\ m.SYN \in BOOLEAN /\ m.FIN \in BOOLEAN /\ data \in Seq(Nat)
      /\ Len(data) \in Nat
    BY LenProperties DEF Sent, Message
<1>3. PICK a \in 0 .. P + 2 : Placed(m, a, s, edge)
    BY DEF Sent
<1>4. PICK b \in Nat : Typed(r.reasm, RecvCapacity, b)
    BY DEF ReceiverSound
<1>5. /\ Streams(r.reasm, P) /\ RecvCapacity \in Nat
      /\ ~r.rst /\ ~r.reasm.output.error
      /\ r.reasm.hasLast => s.finSent
      /\ r.fin => s.finSent
      /\ r \in ReceiverType
    BY ConnectionConstants DEF RecvRight, ReceiverSound
<1>6. ASSUME NEW first \in Nat, LiesAt(data, first),
             Len(data) = 0 \/ first + Len(data) <= P,
             m.FIN => s.finSent /\ first + Len(data) = P,
             first + Len(data) <= edge \/ Len(data) <= 1
      PROVE  LET t == Insert(r.reasm, first, data, m.FIN) IN
             /\ Streams(t, P) /\ WindowEdge(t) = edge
             /\ ~t.output.error
             /\ t.hasLast => s.finSent
    <2> DEFINE t == Insert(r.reasm, first, data, m.FIN)
               wide == b + (first + Len(data))
    <2>1. wide \in Nat /\ b <= wide /\ first + Len(data) <= wide
        BY <1>2
    <2> HIDE DEF wide, t
    <2>2. Typed(r.reasm, RecvCapacity, wide)
        BY <1>4, <1>5, <2>1, TypedWidens
    <2>3. (m.FIN => first + Len(data) = P) /\ t = Insert(r.reasm, first, data, m.FIN)
        BY <1>6 DEF t
    <2> HIDE DEF data, P, edge
    <2>4. first + Len(data) <= WindowEdge(r.reasm) \/ Len(data) <= 1
        BY <1>6 DEF edge
    <2>5. /\ Typed(t, RecvCapacity, wide) /\ Streams(t, P)
          /\ WindowEdge(t) = WindowEdge(r.reasm)
          /\ t.output.error = r.reasm.output.error
          /\ t.hasLast => r.reasm.hasLast \/ m.FIN
        <3>1. /\ RecvCapacity \in Nat /\ P \in Nat
              /\ data \in Seq(Nat) /\ m.FIN \in BOOLEAN
              /\ Streams(r.reasm, P) /\ LiesAt(data, first)
              /\ Len(data) = 0 \/ first + Len(data) <= P
            BY <1>1, <1>2, <1>5, <1>6
        <3> QED
            BY SMTT(30), <2>1, <2>2, <2>3, <2>4, <3>1, InsertStreams
    <2> QED
        BY <1>5, <1>6, <2>5 DEF edge, t
<1>7. CASE m.SYN
    <2> DEFINE t == Insert(r.reasm, 0, data, m.FIN)
    <2>1. a = 0 /\ data = << >> /\ ~m.FIN
        BY <1>3, <1>7 DEF Placed
    <2>2. Len(data) = 0 /\ LiesAt(data, 0)
        BY <2>1, EmptySeq DEF LiesAt
    <2>3. /\ Streams(t, P) /\ WindowEdge(t) = edge /\ ~t.output.error
          /\ t.hasLast => s.finSent
        BY <1>6, <2>1, <2>2
    <2>4. m.seqno = Wrap(0, s.isn)
        BY <1>3, <2>1 DEF Placed
    <2>5. m.seqno = s.isn
        BY <1>1, <2>4, ModulusType DEF Wrap
    <2>6. u = [r EXCEPT !.init = TRUE, !.fin = m.FIN, !.rst = FALSE,
                        !.isn = m.seqno, !.maxAbs = 0, !.reasm = t]
        BY <1>2, <1>7 DEF ReceiverReceive, ReceiveSYN
    <2> HIDE DEF t
    <2>7. /\ u.init /\ u.fin = m.FIN /\ ~u.rst /\ u.isn = m.seqno /\ u.maxAbs = 0
          /\ u.reasm = t
        BY <1>5, <2>6 DEF ReceiverType
    <2>8. u.maxAbs <= P + 2
        BY <1>1, <2>7
    <2>9. RecvRight(u, s)
        BY <2>1, <2>3, <2>5, <2>7, <2>8 DEF RecvRight
    <2>10. WindowEdge(r.reasm) <= WindowEdge(u.reasm)
        BY <1>1, <2>3, <2>7
    <2> QED
        BY <2>7, <2>9, <2>10 DEF Opens
<1>8. CASE ~m.SYN
    <2> DEFINE abs == Unwrap(m.seqno, r.isn, r.maxAbs)
               t == Insert(r.reasm, StreamIndex(abs), data, m.FIN)
    <2>1. a # 0 /\ a \in Nat /\ r.init
        BY <1>1, <1>3, <1>8 DEF Placed
    <2>2. r.isn = s.isn /\ m.seqno = Wrap(a, s.isn)
        BY <1>3, <2>1 DEF RecvRight, Placed
    <2>3. abs = a
        <3>1. r.maxAbs \in 0 .. P + 2
            BY <1>1
        <3> QED
            BY <2>2, <3>1, NumbersRecovered
    <2>4. a < Modulus
        BY <1>1, ModulusType DEF Short
    <2>5. StreamIndex(abs) = a - 1 /\ a - 1 \in Nat
        BY <2>1, <2>3, <2>4, StreamIndexType
    <2>6. /\ LiesAt(data, a - 1)
          /\ Len(data) = 0 \/ a - 1 + Len(data) <= P
          /\ m.FIN => s.finSent /\ a - 1 + Len(data) = P
          /\ a - 1 + Len(data) <= edge \/ Len(data) <= 1
        BY <1>3, <2>1 DEF Placed
    <2>7. u = [r EXCEPT !.fin = r.fin \/ m.FIN, !.maxAbs = abs, !.reasm = t]
        BY <1>2, <1>8 DEF ReceiverReceive, ReceiveRest
    <2>8. /\ Streams(t, P) /\ WindowEdge(t) = edge /\ ~t.output.error
          /\ t.hasLast => s.finSent
        BY <1>6, <2>5, <2>6
    <2>9. (m.FIN => s.finSent) /\ abs <= P + 2
        BY <1>1, <2>3, <2>6
    <2> HIDE DEF t, abs
    <2>10. /\ u.init = r.init /\ (u.fin <=> r.fin \/ m.FIN) /\ u.rst = r.rst
           /\ u.isn = r.isn /\ u.maxAbs = abs /\ u.reasm = t
        BY <1>5, <2>7 DEF ReceiverType
    <2>11. RecvRight(u, s)
        BY <1>5, <2>2, <2>8, <2>9, <2>10 DEF RecvRight
    <2>12. WindowEdge(r.reasm) <= WindowEdge(u.reasm)
        BY <1>1, <2>8, <2>10
    <2> QED
        BY <2>1, <2>10, <2>11, <2>12 DEF Opens
<1> QED
    BY <1>2, <1>7, <1>8

\* An application that has written nothing and not closed its stream.
Idle(s) == s.input.pushed = 0 /\ ~s.input.closed

\* A sender that takes in an answer of its partner's receiver.  It starts over
\* only with an idle application.
LEMMA SenderReceiveRight ==
    ASSUME NEW s, SenderSound(s), Short(s), NEW r, ReceiverSound(r),
           NEW edge \in Nat, edge = WindowEdge(r.reasm), SendRight(s, edge),
           NEW m \in AckMessage, AckRight(m, r, s), m.hasAck \/ Idle(s),
           NEW t, t = SenderReceive(s, m)
    PROVE  /\ SendRight(t, edge) /\ Advances(s, t)
           /\ t.input = s.input
           /\ \/ m.hasAck /\ r.init /\ t.exp = s.exp
              \/ ~m.hasAck /\ t.exp = 0 /\ t.last = 0 /\ t.ost = {}
<1> DEFINE P == s.input.popped
<1>1. /\ P \in Nat /\ s.exp \in Nat /\ s.last \in Nat /\ s.wnd \in Nat
      /\ s \in SenderType /\ m.window \in Nat /\ s.isn \in Int
      /\ m.hasAck \in BOOLEAN
    BY SenderNumbers DEF SenderSound, AckMessage
<1>2. ~m.RST
    BY DEF AckRight
<1>3. /\ ~s.input.error /\ (s.finAcked => s.finSent) /\ s.last <= s.exp
      /\ s.last + s.wnd <= 1 + edge \/ s.finSent
      /\ s.exp = 0 => s.input.pushed = 0 /\ ~s.input.closed /\ s.last = 0
      /\ s.exp # 0 => s.exp = 1 + P + Flag(s.finSent)
    BY DEF SendRight
<1>4. CASE m.hasAck
    <2>1. r.init
        BY <1>4 DEF AckRight
    <2>2. PICK k \in 0 .. P + 2 : /\ m.ackno = Wrap(k, s.isn)
                                  /\ k + m.window <= 1 + edge \/ s.finSent
        BY <1>4 DEF AckRight
    <2>3. s.last \in 0 .. P + 2
        <3>1. Flag(s.finSent) \in {0, 1}
            BY DEF Flag
        <3> QED
            BY <1>1, <1>3, <3>1
    <2>4. Unwrap(m.ackno, s.isn, s.last) = k
        BY <2>2, <2>3, NumbersRecovered
    <2>5. t = TakeAck(s, k, m.window) /\ k \in Nat
        BY <1>1, <1>2, <1>4, <2>4 DEF SenderReceive
    <2>6. /\ t \in SenderType
          /\ t.input = s.input /\ t.isn = s.isn /\ t.exp = s.exp
          /\ t.finSent = s.finSent
          /\ \/ t = s
             \/ TakenAsNew(s, t, k)
             \/ TakenAsOld(s, t, k)
        <3>1. s \in SenderType /\ k \in Nat /\ m.window \in Nat
            BY <1>1, <2>5
        <3>2. /\ TakeAck(s, k, m.window) \in SenderType
              /\ TakeAck(s, k, m.window).input = s.input
              /\ TakeAck(s, k, m.window).isn = s.isn
              /\ TakeAck(s, k, m.window).exp = s.exp
              /\ TakeAck(s, k, m.window).finSent = s.finSent
            BY <3>1, TakeAckChanges
        <3>3. \/ k > s.exp /\ TakeAck(s, k, m.window) = s
              \/ TakenAsNew(s, TakeAck(s, k, m.window), k)
              \/ TakenAsOld(s, TakeAck(s, k, m.window), k)
            BY <3>1, TakeAckChanges
        <3> QED
            BY <2>5, <3>2, <3>3
    <2>7. EdgeMoved(s, t, k, m.window) /\ (t.finAcked => s.finAcked \/ s.finSent)
        BY <1>1, <2>5, TakeAckMovesEdge
    <2>8. t.last \in Nat /\ t.last <= s.exp /\ (s.exp = 0 => t.last = 0)
        BY <1>1, <1>3, <2>5, <2>6 DEF TakenAsNew, TakenAsOld
    <2>9. t.ost \in SUBSET s.ost
        BY <2>6 DEF TakenAsNew, TakenAsOld, Unacked
    <2>10. t.last + t.wnd <= 1 + edge \/ t.finSent
        <3>1. CASE t.last + t.wnd = k + m.window
            BY <2>2, <2>6, <3>1
        <3>2. CASE t.last = s.last /\ t.wnd \in {0, s.wnd}
            <4>1. t.last + t.wnd <= s.last + s.wnd
                BY <1>1, <3>2
            <4>2. t.wnd \in Nat
                BY <2>6 DEF SenderType
            <4> QED
                BY <1>1, <1>3, <2>6, <2>8, <4>1, <4>2
        <3> QED
            BY <2>7, <3>1, <3>2 DEF EdgeMoved
    <2>11. Advances(s, t)
        BY <1>1, <2>6 DEF Advances
    <2>12. ASSUME NEW x \in t.ost PROVE Sent(x.msg, t, edge)
        <3>1. Sent(x.msg, s, edge)
            BY <2>9 DEF SendRight
        <3> QED
            BY <2>6, <3>1 DEF Sent, Placed
    <2>13. SendRight(t, edge)
        BY <1>3, <2>6, <2>7, <2>8, <2>10, <2>12 DEF SendRight
    <2> QED
        BY <1>4, <2>1, <2>6, <2>11, <2>13
<1>5. CASE ~m.hasAck
    <2> DEFINE o == StartOver(s, m.window)
    <2>1. Idle(s) /\ m.window <= edge
        BY <1>5 DEF AckRight
    <2>2. t = TakeAck(o, 0, m.window)
        BY <1>2, <1>5 DEF SenderReceive
    <2>3. /\ o \in SenderType
          /\ o.input = s.input /\ o.isn = s.isn /\ o.finSent = s.finSent
          /\ o.last = 0 /\ o.exp = 0 /\ o.ost = {}
        BY <1>1, StartOverChanges
    <2>4. o.wnd = m.window /\ o.finAcked = s.finAcked
        BY <1>1 DEF StartOver, SenderType
    <2> HIDE DEF o
    <2>5. /\ t \in SenderType
          /\ t.input = s.input /\ t.isn = s.isn /\ t.exp = 0
          /\ t.finSent = s.finSent
          /\ \/ t = o
             \/ TakenAsNew(o, t, 0)
             \/ TakenAsOld(o, t, 0)
        <3>1. o \in SenderType /\ 0 \in Nat /\ m.window \in Nat
            BY <1>1, <2>3
        <3>2. /\ TakeAck(o, 0, m.window) \in SenderType
              /\ TakeAck(o, 0, m.window).input = o.input
              /\ TakeAck(o, 0, m.window).isn = o.isn
              /\ TakeAck(o, 0, m.window).exp = o.exp
              /\ TakeAck(o, 0, m.window).finSent = o.finSent
            BY <3>1, TakeAckChanges
        <3>3. \/ 0 > o.exp /\ TakeAck(o, 0, m.window) = o
              \/ TakenAsNew(o, TakeAck(o, 0, m.window), 0)
              \/ TakenAsOld(o, TakeAck(o, 0, m.window), 0)
            BY <3>1, TakeAckChanges
        <3> QED
            BY <2>2, <2>3, <3>2, <3>3
    <2>6. EdgeMoved(o, t, 0, m.window) /\ (t.finAcked => o.finAcked \/ o.finSent)
        BY <1>1, <2>2, <2>3, TakeAckMovesEdge
    <2>7. t.last = 0 /\ t.ost = {}
        BY <2>3, <2>5 DEF TakenAsNew, TakenAsOld
    <2>8. t.last + t.wnd <= 1 + edge
        <3>1. t.wnd \in Nat
            BY <2>5 DEF SenderType
        <3> QED
            BY <1>1, <2>1, <2>3, <2>4, <2>6, <2>7, <3>1 DEF EdgeMoved
    <2>9. t.finAcked => t.finSent
        BY <1>3, <2>3, <2>4, <2>5, <2>6
    <2>10. SendRight(t, edge)
        BY <1>3, <2>1, <2>5, <2>7, <2>8, <2>9 DEF SendRight, Idle
    <2>11. Advances(s, t)
        BY <1>1, <2>5 DEF Advances
    <2> QED
        BY <1>5, <2>5, <2>7, <2>10, <2>11
<1> QED
    BY <1>1, <1>4, <1>5

\* What push's loop keeps, from the sender it starts with.
PushRight(x, s, edge) ==
    LET y == x.sender IN
    /\ x \in LoopStates
    /\ SendRight(y, edge) /\ Advances(s, y)
    /\ y.last = s.last /\ s.exp <= y.exp
    /\ y.input.pushed = s.input.pushed /\ y.input.closed = s.input.closed
    /\ \A m \in Members(x.loop.out) : Sent(m, y, edge)
    /\ x.loop.out = << >> => y.exp = s.exp
    /\ Idle(s) => /\ s.exp <= 1 => y.exp <= 1
                  /\ \A m \in Members(x.loop.out) : m.SYN
                  /\ \A z \in y.ost : z \in s.ost \/ z.msg.SYN

\* A turn of the loop.
LEMMA TurnRight ==
    ASSUME NEW s, SenderSound(s), NEW edge \in Nat, NEW x, PushRight(x, s, edge)
    PROVE  PushRight(PushTurn(x), s, edge) /\ (Turns(x.loop) => PushTurn(x).sender.exp # 0)
<1> DEFINE y == x.sender
           l == x.loop
           msg == TurnMessage(y, l)
           n == TurnBytes(y, l)
           t == TurnSender(y, msg)
           k == TurnLoop(y, l, msg)
           P == y.input.popped
<1>1. LoopRight(y, l) /\ l.out \in Seq(Message) /\ SenderSound(y) /\ l.wnd \in Nat
    BY DEF PushRight, LoopStates, LoopRight, SenderSound
<1>2. CASE ~Turns(l)
    BY <1>2 DEF PushTurn
<1>3. CASE Turns(l)
    <2>1. PushTurn(x) = [sender |-> t, loop |-> k]
        BY <1>3 DEF PushTurn
    <2>2. PushTurn(x) \in LoopStates
        BY TurnStays DEF PushRight
    <2>3. /\ msg \in Message
          /\ n \in Nat /\ n <= Buffered(y.input)
          /\ Len(msg.payload) = n
          /\ \A i \in 1 .. n : msg.payload[i] = P + i - 1
          /\ msg.SYN = (y.exp = 0)
          /\ msg.seqno = Wrap(y.exp, y.isn)
          /\ msg.FIN \in BOOLEAN
          /\ msg.FIN => y.input.closed /\ n = Buffered(y.input)
          /\ SequenceLength(msg) = Flag(y.exp = 0) + n + Flag(msg.FIN)
          /\ SequenceLength(msg) <= l.wnd
        BY <1>1, <1>3, TurnSendsSome
    <2>4. Turned(y, l, t, k)
        BY <1>1, <1>3, TurnMoves
    <2>5. LoopRight(t, k)
        BY <1>1, <1>3, TurnKeepsLoop
    <2>6. msg.RST = y.input.error
        BY DEF TurnMessage
    <2> HIDE DEF t, k, msg, n
    <2> DEFINE len == SequenceLength(msg)
               B == Buffered(y.input)
    <2>7. /\ y.input.pushed = P + B /\ P \in Nat /\ B \in Nat /\ y.exp \in Nat
          /\ y.last \in Nat /\ y.finSent \in BOOLEAN /\ y.input.closed \in BOOLEAN
          /\ y.ost \in SUBSET Segment /\ InPlace(y.input) /\ y \in SenderType
        BY <1>1, SenderNumbers DEF SenderSound
    <2>8. /\ SendRight(y, edge) /\ Advances(s, y) /\ y.last = s.last /\ s.exp <= y.exp
          /\ y.input.pushed = s.input.pushed /\ y.input.closed = s.input.closed
          /\ \A m \in Members(l.out) : Sent(m, y, edge)
          /\ Idle(s) => /\ s.exp <= 1 => y.exp <= 1
                        /\ \A m \in Members(l.out) : m.SYN
                        /\ \A z \in y.ost : z \in s.ost \/ z.msg.SYN
        BY DEF PushRight
    <2> HIDE DEF y, l
    <2>9. /\ y.exp = 0 => P = 0 /\ B = 0 /\ ~y.input.closed
          /\ ~y.finSent
          /\ y.exp # 0 => y.exp = 1 + P
          /\ l.wnd > 0
          /\ Idle(s) => y.exp = 0
        <3>1. y.exp = 0 => P = 0 /\ B = 0 /\ ~y.input.closed
            BY <2>7, <2>8 DEF SendRight
        <3>2. y.finSent => y.input.closed /\ B = 0
            BY <1>1 DEF LoopRight
        <3>3. l.data > 0 /\ l.wnd > 0 /\ l.data = LeftToSend(y)
            BY <1>1, <1>3 DEF Turns, LoopRight
        <3>4. LeftToSend(y) = Flag(y.exp = 0) + B + Flag(y.input.closed /\ ~y.finSent)
            BY DEF LeftToSend
        <3>5. /\ y.exp # 0 => Flag(y.exp = 0) = 0
              /\ ~(y.input.closed /\ ~y.finSent) => Flag(y.input.closed /\ ~y.finSent) = 0
            BY DEF Flag
        <3> HIDE DEF B, P
        <3>6. y.exp # 0 => B > 0 \/ (y.input.closed /\ ~y.finSent)
            <4> SUFFICES ASSUME y.exp # 0, ~(y.input.closed /\ ~y.finSent) PROVE B > 0
                BY <2>7
            <4>1. LeftToSend(y) = 0 + B + 0
                BY <3>4, <3>5
            <4> QED
                BY <2>7, <3>3, <4>1
        <3>7. ~y.finSent
            <4>1. CASE y.exp = 0
                BY <3>1, <3>2, <4>1
            <4>2. CASE y.exp # 0
                BY <2>7, <3>2, <3>6, <4>2
            <4> QED
                BY <4>1, <4>2
        <3>8. y.exp # 0 => y.exp = 1 + P
            <4>1. y.exp # 0 => y.exp = 1 + P + Flag(y.finSent)
                BY <2>8 DEF SendRight, P
            <4>2. Flag(y.finSent) = 0
                BY <3>7 DEF Flag
            <4> QED
                BY <2>7, <4>1, <4>2
        <3>9. Idle(s) => y.exp = 0
            <4>1. Idle(s) => B = 0 /\ ~y.input.closed
                BY <2>7, <2>8 DEF Idle
            <4> QED
                BY <2>7, <3>6, <4>1
        <3> QED
            BY <3>1, <3>3, <3>7, <3>8, <3>9
    <2>10. /\ t \in SenderType /\ t.isn = y.isn /\ t.last = y.last /\ t.wnd = y.wnd
           /\ t.exp = y.exp + len
           /\ t.finSent = msg.FIN /\ t.finAcked = y.finAcked
           /\ t.ost = y.ost \cup {[at |-> y.exp, msg |-> msg]}
           /\ k.out = Append(l.out, msg)
           /\ t.input = Pop(y.input, n)
        BY <2>3, <2>4, <2>9 DEF Turned, msg, n
    <2>11. /\ t.input.popped = P + n /\ t.input.pushed = y.input.pushed
           /\ t.input.closed = y.input.closed /\ t.input.error = y.input.error
        BY <2>3, <2>7, <2>10, PopInPlace
    <2>12. SenderSound(t)
        BY <2>5 DEF LoopRight, SenderSound
    <2>13. Sent(msg, t, edge)
        <3>1. ~msg.RST
            BY <2>6, <2>8 DEF SendRight
        <3>2. CASE y.exp = 0
            <4>1. n = 0 /\ ~msg.FIN
                BY <2>3, <2>7, <2>9, <3>2
            <4>2. msg.payload = << >>
                <5>1. msg.payload \in Seq(Nat) /\ Len(msg.payload) = 0
                    BY <2>3, <4>1 DEF Message
                <5> QED
                    BY <5>1, EmptySeq
            <4>3. msg.seqno = Wrap(0, t.isn) /\ msg.SYN
                BY <2>3, <2>10, <3>2
            <4>4. Placed(msg, 0, t, edge)
                BY <4>1, <4>2, <4>3 DEF Placed
            <4>5. 0 \in 0 .. t.input.popped + 2
                BY <2>3, <2>7, <2>11
            <4> QED
                BY <3>1, <4>4, <4>5 DEF Sent
        <3>3. CASE y.exp # 0
            <4> DEFINE a == 1 + P
                       Q == t.input.popped
            <4>1. a \in Nat /\ a # 0 /\ a - 1 = P /\ Q = P + n /\ n \in Nat
                <5>1. Q = P + n /\ n \in Nat /\ P \in Nat
                    BY <2>3, <2>7, <2>11
                <5> HIDE DEF Q, P
                <5> QED
                    BY <5>1
            <4>2. msg.seqno = Wrap(a, t.isn) /\ ~msg.SYN
                BY <2>3, <2>9, <2>10, <3>3
            <4>3. LiesAt(msg.payload, P)
                <5>1. \A i \in 1 .. Len(msg.payload) : msg.payload[i] = P + i - 1
                    BY <2>3
                <5> QED
                    BY <5>1 DEF LiesAt
            <4>4. msg.FIN => t.finSent
                BY <2>10
            <4>5. n <= 1 \/ P + n <= edge
                <5>1. n <= l.wnd
                    <6>1. len = Flag(y.exp = 0) + n + Flag(msg.FIN) /\ len <= l.wnd
                        BY <2>3
                    <6>2. Flag(y.exp = 0) \in {0, 1} /\ Flag(msg.FIN) \in {0, 1}
                        BY DEF Flag
                    <6> HIDE DEF len
                    <6> QED
                        BY <1>1, <2>3, <6>1, <6>2
                <5>2. l.wnd = y.last + Window(y) - y.exp
                    BY <1>1 DEF LoopRight
                <5>3. y.wnd \in Nat /\ Window(y) = IF y.wnd = 0 THEN 1 ELSE y.wnd
                    BY <2>7 DEF Window, SenderType
                <5>4. y.last <= y.exp /\ y.last + y.wnd <= 1 + edge
                    BY <2>8, <2>9 DEF SendRight
                <5>5. y.exp = 1 + P
                    BY <2>9, <3>3
                <5> HIDE DEF P
                <5>6. CASE y.wnd = 0
                    BY SMTT(30), <2>3, <2>7, <5>1, <5>2, <5>3, <5>4, <5>6, <1>1
                <5>7. CASE y.wnd # 0
                    BY SMTT(30), <2>3, <2>7, <5>1, <5>2, <5>3, <5>4, <5>5, <5>7, <1>1
                <5> QED
                    BY <5>6, <5>7
            <4>6. Q <= Q + Flag(t.finSent) /\ a \in 0 .. Q + 2
                <5>1. Flag(t.finSent) \in {0, 1}
                    BY DEF Flag
                <5> HIDE DEF Q
                <5> QED
                    BY <2>7, <4>1, <5>1
            <4>7. Len(msg.payload) = n /\ a - 1 + n = Q
                BY <2>3, <4>1
            <4>8. a - 1 + n <= edge \/ n <= 1
                BY <4>1, <4>5
            <4>9. Q \in Int
                BY <2>7, <4>1
            <4> HIDE DEF a, Q, P
            <4>10. Placed(msg, a, t, edge)
                <5>1. /\ LiesAt(msg.payload, a - 1)
                      /\ a - 1 + Len(msg.payload) <= Q + Flag(t.finSent)
                      /\ a - 1 + Len(msg.payload) <= Q
                      /\ msg.FIN => t.finSent /\ a - 1 + Len(msg.payload) = Q
                      /\ a - 1 + Len(msg.payload) <= edge \/ Len(msg.payload) <= 1
                    BY <4>1, <4>3, <4>4, <4>6, <4>7, <4>8, <4>9
                <5> QED
                    BY <4>1, <4>2, <5>1 DEF Placed, Q
            <4> QED
                BY <3>1, <4>6, <4>10 DEF Sent, Q
        <3> QED
            BY <3>2, <3>3
    <2>14. Advances(y, t) /\ Advances(s, t)
        <3>1. P <= t.input.popped /\ s.input.popped \in Nat
            BY <2>3, <2>7, <2>11, SenderNumbers
        <3>2. Advances(y, t)
            BY <2>9, <2>10, <3>1 DEF Advances
        <3>3. /\ t.isn = s.isn /\ s.input.popped <= P /\ ~s.finSent
            BY <2>8, <2>9, <2>10 DEF Advances
        <3> QED
            BY <2>3, <2>7, <2>11, <3>1, <3>2, <3>3 DEF Advances
    <2>15. ASSUME NEW m \in Message, Sent(m, y, edge) PROVE Sent(m, t, edge)
        BY <1>1, <2>12, <2>14, <2>15, SentStays
    <2>16. /\ Members(k.out) = Members(l.out) \cup {msg} /\ k.out # << >>
           /\ \A m \in Members(l.out) : m \in Message
        <3> DEFINE out == l.out
        <3>1. out \in Seq(Message) /\ msg \in Message /\ k.out = Append(out, msg)
            BY <1>1, <2>3, <2>10
        <3> HIDE DEF out
        <3>2. /\ Append(out, msg) \in Seq(Message) /\ Append(out, msg) # << >>
              /\ Members(Append(out, msg)) = Members(out) \cup {msg}
              /\ \A m \in Members(out) : m \in Message
            BY <3>1, MembersAppend
        <3> QED
            BY <3>1, <3>2 DEF out
    <2>17. /\ \A z \in t.ost : Sent(z.msg, t, edge)
           /\ \A m \in Members(k.out) : Sent(m, t, edge)
        <3>1. ASSUME NEW z \in y.ost PROVE Sent(z.msg, t, edge)
            <4>1. z.msg \in Message /\ Sent(z.msg, y, edge)
                BY <2>7, <2>8 DEF SendRight, Segment
            <4> QED
                BY <2>15, <4>1
        <3> QED
            BY <2>8, <2>10, <2>13, <2>15, <2>16, <3>1
    <2>18. /\ t.exp \in Nat /\ t.exp # 0 /\ y.exp <= t.exp
           /\ t.exp = 1 + t.input.popped + Flag(t.finSent)
           /\ Idle(s) => t.exp = 1 /\ msg.SYN
        <3>1. len = Flag(y.exp = 0) + n + Flag(msg.FIN) /\ n \in Nat
            BY <2>3
        <3>2. Flag(msg.FIN) \in {0, 1} /\ Flag(y.exp = 0) \in {0, 1}
            BY DEF Flag
        <3>3. CASE y.exp = 0
            <4>1. n = 0 /\ ~msg.FIN /\ P = 0 /\ msg.SYN
                <5>1. P = 0 /\ B = 0 /\ ~y.input.closed
                    BY <2>9, <3>3
                <5>2. n <= B
                    BY <2>3
                <5>3. n = 0
                    BY <2>3, <5>1, <5>2
                <5>4. ~msg.FIN /\ msg.SYN
                    BY <2>3, <3>3, <5>1
                <5> QED
                    BY <5>1, <5>3, <5>4
            <4>2. Flag(y.exp = 0) = 1 /\ Flag(msg.FIN) = 0 /\ Flag(t.finSent) = 0
                BY <2>10, <3>3, <4>1 DEF Flag
            <4> HIDE DEF len
            <4>3. t.exp = 1
                BY <2>10, <3>1, <3>3, <4>1, <4>2
            <4> QED
                BY <2>11, <3>3, <4>1, <4>2, <4>3
        <3>4. CASE y.exp # 0
            <4>1. Flag(y.exp = 0) = 0 /\ y.exp = 1 + P /\ Flag(t.finSent) = Flag(msg.FIN)
                BY <2>9, <2>10, <3>4 DEF Flag
            <4>2. ~Idle(s)
                BY <2>9, <3>4
            <4>3. t.exp = y.exp + len /\ t.input.popped = P + n /\ P \in Nat
                BY <2>7, <2>10, <2>11
            <4> HIDE DEF len, P
            <4> QED
                BY <3>1, <3>2, <3>4, <4>1, <4>2, <4>3
        <3> QED
            BY <3>3, <3>4
    <2>19. SendRight(t, edge)
        <3>1. ~t.input.error /\ (t.finAcked => t.finSent)
            BY <2>8, <2>9, <2>10, <2>11 DEF SendRight
        <3>2. t.last <= t.exp
            <4>1. y.last <= y.exp
                BY <2>8 DEF SendRight
            <4> QED
                <5>1. t.last = y.last /\ y.last \in Nat /\ y.exp \in Nat
                    BY <2>7, <2>10
                <5>2. y.exp <= t.exp /\ t.exp \in Nat
                    BY <2>18
                <5> QED
                    BY <4>1, <5>1, <5>2
        <3>3. t.last + t.wnd <= 1 + edge
            BY <2>8, <2>9, <2>10 DEF SendRight
        <3> QED
            BY <2>17, <2>18, <3>1, <3>2, <3>3 DEF SendRight
    <2>20. /\ t.last = s.last /\ s.exp <= t.exp
           /\ t.input.pushed = s.input.pushed /\ t.input.closed = s.input.closed
        <3>1. s.exp \in Nat
            BY SenderNumbers
        <3> QED
            BY <2>7, <2>8, <2>10, <2>11, <2>18, <3>1
    <2>21. Idle(s) => /\ t.exp <= 1
                      /\ \A m \in Members(k.out) : m.SYN
                      /\ \A z \in t.ost : z \in s.ost \/ z.msg.SYN
        BY <2>8, <2>10, <2>16, <2>18
    <2>22. PushTurn(x).sender = t /\ PushTurn(x).loop = k
        BY <2>1
    <2>23. PushRight(PushTurn(x), s, edge)
        BY <2>2, <2>14, <2>16, <2>17, <2>19, <2>20, <2>21, <2>22 DEF PushRight
    <2> QED
        BY <2>18, <2>22, <2>23
<1> QED
    BY <1>2, <1>3

\* push goes on from a right sender to a right one, which has sent its SYN.
LEMMA PushAllRight ==
    ASSUME NEW s, SenderSound(s), NEW edge \in Nat, SendRight(s, edge),
           NEW t, t = PushAll(s).sender, NEW out, out = PushAll(s).out
    PROVE  /\ SendRight(t, edge) /\ Advances(s, t)
           /\ t.exp # 0 /\ s.exp <= t.exp /\ t.last = s.last
           /\ t.input.pushed = s.input.pushed /\ t.input.closed = s.input.closed
           /\ \A m \in Members(out) : Sent(m, t, edge)
           /\ out = << >> => t.exp = s.exp
           /\ Idle(s) => /\ s.exp <= 1 => t.exp <= 1
                         /\ \A m \in Members(out) : m.SYN
                         /\ \A z \in t.ost : z \in s.ost \/ z.msg.SYN
<1>1. /\ s.exp \in Nat /\ s.last \in Nat /\ s.wnd \in Nat
      /\ s.input.popped \in Nat /\ Buffered(s.input) \in Nat
    BY SenderNumbers
<1>2. Advances(s, s)
    BY <1>1 DEF Advances
<1>3. Members(<< >>) = {}
    <2>1. Len(<< >>) = 0
        OBVIOUS
    <2> QED
        BY <2>1 DEF Members
<1>4. s.exp = 0 => /\ s.last = 0 /\ ~s.finSent /\ ~s.finAcked
    BY DEF SendRight, SenderSound
<1>5. Window(s) \in Nat /\ Window(s) > 0
    BY <1>1 DEF Window
<1>6. s.exp = 0 => ~PushReturns(s)
    BY <1>1, <1>4, <1>5 DEF PushReturns
<1>7. CASE PushReturns(s)
    <2>1. t = s /\ out = << >>
        BY <1>7 DEF PushAll
    <2> QED
        BY <1>1, <1>2, <1>3, <1>6, <1>7, <2>1
<1>8. CASE ~PushReturns(s)
    <2> DEFINE x == [sender |-> s, loop |-> PushLoop(s)]
               S == {y \in LoopStates : PushRight(y, s, edge) /\ y.sender.exp # 0}
    <2>1. x \in LoopStates
        BY <1>8, PushStarts
    <2>2. x.sender = s /\ x.loop = PushLoop(s) /\ PushLoop(s).out = << >>
        BY DEF PushLoop
    <2> HIDE DEF x
    <2>3. PushRight(x, s, edge)
        <3>1. \A m \in Members(x.loop.out) : Sent(m, s, edge) /\ m.SYN
            BY <1>3, <2>2
        <3> QED
            BY <1>1, <1>2, <2>1, <2>2, <3>1 DEF PushRight
    <2>4. s.exp = 0 => Turns(x.loop)
        <3> SUFFICES ASSUME s.exp = 0 PROVE Turns(x.loop)
            OBVIOUS
        <3> DEFINE l == x.loop
        <3>1. LoopRight(s, l)
            BY <2>1, <2>2 DEF LoopStates
        <3>2. l.wnd = s.last + Window(s) - s.exp /\ l.data = LeftToSend(s)
            BY <3>1 DEF LoopRight
        <3>3. LeftToSend(s) = 1 + Buffered(s.input)
                                + Flag(s.input.closed /\ ~s.finSent)
            BY DEF LeftToSend, Flag
        <3>4. Flag(s.input.closed /\ ~s.finSent) \in {0, 1}
            BY DEF Flag
        <3>5. l.data > 0
            BY <1>1, <3>2, <3>3, <3>4
        <3>6. l.wnd > 0
            BY <1>1, <1>4, <1>5, <3>2
        <3> QED
            BY <3>5, <3>6 DEF Turns
    <2>5. ASSUME NEW y, PushRight(y, s, edge), y.sender.exp # 0 \/ Turns(y.loop)
          PROVE  PushTurn(y) \in S
        <3>1. PushRight(PushTurn(y), s, edge)
            BY <2>5, TurnRight
        <3>2. Turns(y.loop) => PushTurn(y).sender.exp # 0
            BY <2>5, TurnRight
        <3>3. ~Turns(y.loop) => PushTurn(y) = y
            BY DEF PushTurn
        <3>4. PushTurn(y) \in LoopStates
            BY <3>1 DEF PushRight
        <3> QED
            BY <2>5, <3>1, <3>2, <3>3, <3>4
    <2>6. PushTurn(x) \in S
        BY <2>2, <2>3, <2>4, <2>5
    <2>7. \A y \in S : PushTurn(y) \in S
        BY <2>5
    <2> DEFINE z == PushLoops(s)
    <2>8. z \in S
        <3> HIDE DEF S
        <3> QED
            BY <1>1, <2>6, <2>7, PushLoopsStays DEF x
    <2>9. PushRight(z, s, edge) /\ z.sender.exp # 0
        BY <2>8
    <2>10. t = z.sender /\ out = z.loop.out
        BY <1>8 DEF PushAll
    <2> HIDE DEF z
    <2> QED
        BY <2>9, <2>10 DEF PushRight
<1> QED
    BY <1>7, <1>8

\* So is a sender whose application writes or closes, once it has sent its SYN.
LEMMA InputRight ==
    ASSUME NEW s, SenderSound(s), NEW edge \in Nat, SendRight(s, edge), s.exp # 0,
           NEW f, f.popped = s.input.popped, f.error = s.input.error,
           NEW t, t = [s EXCEPT !.input = f], SenderSound(t)
    PROVE  SendRight(t, edge) /\ Advances(s, t) /\ t.exp = s.exp /\ t.last = s.last
           /\ t.input = f /\ t.ost = s.ost
<1>1. s \in SenderType
    BY DEF SenderSound
<1>2. /\ t.input = f /\ t.isn = s.isn /\ t.last = s.last /\ t.exp = s.exp
      /\ t.wnd = s.wnd /\ t.finSent = s.finSent /\ t.ost = s.ost
      /\ t.finAcked = s.finAcked
    BY <1>1 DEF SenderType
<1>3. Advances(s, t)
    BY <1>2, SenderNumbers DEF Advances
<1>4. ASSUME NEW m, Sent(m, s, edge) PROVE Sent(m, t, edge)
    BY <1>2, <1>4 DEF Sent, Placed
<1>5. SendRight(t, edge)
    BY <1>2, <1>4 DEF SendRight
<1> QED
    BY <1>2, <1>3, <1>5

\* So is a receiver whose application reads.
LEMMA ReadRight ==
    ASSUME NEW s, SenderSound(s), NEW r, ReceiverSound(r), RecvRight(r, s),
           NEW n \in Nat, n <= Buffered(r.reasm.output),
           NEW u, u = [r EXCEPT !.reasm =
                          [r.reasm EXCEPT !.output = Pop(r.reasm.output, n)]]
    PROVE  RecvRight(u, s) /\ Opens(r, u) /\ u.init = r.init
<1> DEFINE a == [r.reasm EXCEPT !.output = Pop(r.reasm.output, n)]
<1>1. PICK b \in Nat : Typed(r.reasm, RecvCapacity, b)
    BY DEF ReceiverSound
<1>2. RecvCapacity \in Nat /\ s.input.popped \in Nat /\ WindowEdge(r.reasm) \in Nat
      /\ r \in ReceiverType
    BY ConnectionConstants, SenderNumbers, ReceiverNumbers DEF ReceiverSound
<1>3. Streams(r.reasm, s.input.popped)
    BY DEF RecvRight
<1>4. /\ Streams(a, s.input.popped)
      /\ a.output.closed = r.reasm.output.closed
      /\ a.output.error = r.reasm.output.error
    BY <1>1, <1>2, <1>3, PopStreams
<1>5. /\ Typed(a, RecvCapacity, b)
      /\ a.hasLast = r.reasm.hasLast /\ WindowEdge(a) = WindowEdge(r.reasm) + n
    BY <1>1, <1>2, PopTyped
<1>6. u = [r EXCEPT !.reasm = a]
    OBVIOUS
<1> HIDE DEF a
<1>7. /\ u.reasm = a /\ u.isn = r.isn /\ u.maxAbs = r.maxAbs /\ u.init = r.init
      /\ u.fin = r.fin /\ u.rst = r.rst
    BY <1>2, <1>6 DEF ReceiverType
<1>8. RecvRight(u, s)
    BY <1>4, <1>5, <1>7 DEF RecvRight
<1>9. WindowEdge(r.reasm) <= WindowEdge(u.reasm)
    BY <1>2, <1>5, <1>7
<1> QED
    BY <1>7, <1>8, <1>9 DEF Opens

\* So are the two that have just been made.
LEMMA NewRight ==
    ASSUME NEW isn \in 0 .. Modulus - 1,
           NEW s, s = NewSender(SendCapacity, isn),
           NEW r, r = NewReceiver(RecvCapacity)
    PROVE  /\ SendRight(s, WindowEdge(r.reasm)) /\ RecvRight(r, s)
           /\ Idle(s) /\ s.exp = 0 /\ s.last = 0 /\ s.ost = {} /\ ~r.init
<1>1. SendCapacity \in Nat /\ RecvCapacity \in Nat
    BY ConnectionConstants
<1>2. /\ s.input = NewFifo(SendCapacity) /\ s.isn = isn /\ s.last = 0 /\ s.exp = 0
      /\ s.finSent = FALSE /\ s.finAcked = FALSE /\ s.wnd = 1 /\ s.ost = {}
    BY DEF NewSender
<1>3. /\ r.reasm = NewReassembler(RecvCapacity) /\ r.maxAbs = 0
      /\ ~r.init /\ ~r.fin /\ ~r.rst
    BY DEF NewReceiver
<1>4. /\ s.input.pushed = 0 /\ s.input.popped = 0
      /\ ~s.input.closed /\ ~s.input.error
    BY <1>2 DEF NewFifo
<1>5. /\ r.reasm.segs = {} /\ r.reasm.next = 0 /\ ~r.reasm.hasLast
      /\ r.reasm.output = NewFifo(RecvCapacity)
    BY <1>3 DEF NewReassembler
<1>6. /\ ~r.reasm.output.closed /\ ~r.reasm.output.error
      /\ r.reasm.output.pushed = 0 /\ Available(r.reasm.output) = RecvCapacity
    <2>1. Len(<< >>) = 0
        OBVIOUS
    <2> QED
        BY <1>1, <1>5, <2>1 DEF NewFifo, Available
<1>7. InPlace(r.reasm.output)
    BY <1>1, <1>5, NewFifoInPlace
<1>8. WindowEdge(r.reasm) = RecvCapacity
    BY <1>1, <1>5, <1>6 DEF WindowEdge
<1>9. Streams(r.reasm, 0)
    BY <1>5, <1>6, <1>7 DEF Streams
<1>10. RecvRight(r, s)
    BY <1>3, <1>4, <1>5, <1>6, <1>9 DEF RecvRight
<1>11. SendRight(s, WindowEdge(r.reasm))
    BY <1>1, <1>2, <1>4, <1>8 DEF SendRight
<1> QED
    BY <1>2, <1>3, <1>4, <1>10, <1>11 DEF Idle

-----------------------------------------------------------------------------
(***************************************************************************)
(* A sender and its partner's receiver, with the datagrams there and those *)
(* back.                                                                   *)
(***************************************************************************)
Agree(s, r, there, back, supply) ==
    /\ SendRight(s, WindowEdge(r.reasm)) /\ RecvRight(r, s)
    /\ \A d \in there : Sent(d.sender, s, WindowEdge(r.reasm))
    /\ \A d \in back : AckRight(d.receiver, r, s)
    /\ s.input.pushed <= supply

\* They go on agreeing while the sender goes on, and sends what is right.
LEMMA SenderGoesOn ==
    ASSUME NEW s, SenderSound(s), NEW t, SenderSound(t), Advances(s, t),
           NEW r, ReceiverSound(r), NEW supply,
           NEW there \in SUBSET Datagram, NEW back \in SUBSET Datagram,
           Agree(s, r, there, back, supply),
           SendRight(t, WindowEdge(r.reasm)), t.input.pushed <= supply,
           NEW new, \A d \in new : Sent(d.sender, t, WindowEdge(r.reasm)),
           NEW there2 \in SUBSET (there \cup new), NEW back2 \in SUBSET back
    PROVE  Agree(t, r, there2, back2, supply)
<1> DEFINE edge == WindowEdge(r.reasm)
<1>1. edge \in Nat
    BY ReceiverNumbers
<1>2. RecvRight(r, t)
    BY RecvStays DEF Agree
<1>3. ASSUME NEW d \in there PROVE Sent(d.sender, t, edge)
    <2>1. Sent(d.sender, s, edge) /\ d.sender \in Message
        BY DEF Agree, Datagram
    <2> HIDE DEF edge
    <2> QED
        BY <1>1, <2>1, SentStays
<1>4. ASSUME NEW d \in back PROVE AckRight(d.receiver, r, t)
    <2>1. AckRight(d.receiver, r, s) /\ d.receiver \in AckMessage
        BY DEF Agree, Datagram, Answer
    <2>2. Opens(r, r)
        BY <1>1 DEF Opens
    <2> QED
        BY <2>1, <2>2, AckStays
<1> QED
    BY <1>2, <1>3, <1>4 DEF Agree

\* And while the receiver goes on, and says what is right.
LEMMA ReceiverGoesOn ==
    ASSUME NEW s, SenderSound(s), NEW r, ReceiverSound(r),
           NEW u, ReceiverSound(u), Opens(r, u), NEW supply,
           NEW there \in SUBSET Datagram, NEW back \in SUBSET Datagram,
           Agree(s, r, there, back, supply), RecvRight(u, s),
           NEW new, \A d \in new : d.receiver = ReceiverSend(u),
           NEW there2 \in SUBSET there, NEW back2 \in SUBSET (back \cup new)
    PROVE  Agree(s, u, there2, back2, supply)
<1> DEFINE edge == WindowEdge(r.reasm)
           wide == WindowEdge(u.reasm)
<1>1. edge \in Nat /\ wide \in Nat /\ edge <= wide
    BY ReceiverNumbers DEF Opens
<1>2. Advances(s, s)
    BY SenderNumbers DEF Advances
<1>3. SendRight(s, edge)
    BY DEF Agree
<1>4. ASSUME NEW d \in there PROVE Sent(d.sender, s, edge) /\ d.sender \in Message
    BY DEF Agree, Datagram
<1> HIDE DEF edge, wide
<1>5. SendRight(s, wide)
    BY <1>1, <1>3, SendStays
<1>6. \A d \in there : Sent(d.sender, s, wide)
    BY <1>1, <1>2, <1>4, SentStays
<1>7. ASSUME NEW d \in back PROVE AckRight(d.receiver, u, s)
    <2>1. AckRight(d.receiver, r, s) /\ d.receiver \in AckMessage
        BY DEF Agree, Datagram, Answer
    <2> QED
        BY <1>2, <2>1, AckStays
<1>8. ASSUME NEW d \in new PROVE AckRight(d.receiver, u, s)
    BY ReceiverSendRight
<1> QED
    BY <1>5, <1>6, <1>7, <1>8 DEF Agree, wide

\* Until a receiver has the SYN of its partner's sender, the sender sends only
\* that; an application that is not connected has written nothing; and a sender
\* that has not started to send has nothing under way.
Young(s, r, there, linked, started) ==
    /\ ~linked => Idle(s)
    /\ ~r.init => /\ s.exp <= 1 /\ s.last = 0 /\ ~linked
                  /\ \A d \in there : d.sender.SYN
                  /\ \A x \in s.ost : x.msg.SYN
    /\ started => s.exp # 0
    /\ ~started => s.exp = 0 /\ s.ost = {} /\ there = {} /\ ~r.init

\* The client starts with connect, the server with the client's SYN.
Started(p) == p = Client \/ peer[p].receiver.init

Right(p) ==
    LET q == Other(p)
    IN  Agree(peer[p].sender, peer[q].receiver, Members(net[q]), Members(net[p]),
              Supply[p])

Opening(p) ==
    LET q == Other(p)
    IN  Young(peer[p].sender, peer[q].receiver, Members(net[q]), p \in connected,
              Started(p))

Inv == TypeInv /\ \A p \in Peers : Right(p) /\ Opening(p)

\* A step of peer p: it becomes y, and the datagrams new are under way to its
\* partner.
Passes(p, y, new) ==
    /\ peer' = [peer EXCEPT ![p] = y]
    /\ net' \in [Peers -> Seq(Datagram)]
    /\ Members(net'[p]) \in SUBSET Members(net[p])
    /\ Members(net'[Other(p)]) \in SUBSET (Members(net[Other(p)]) \cup new)
    /\ connected' = connected

GoesOn(p, y, new) ==
    LET q    == Other(p)
        edge == WindowEdge(peer[q].receiver.reasm)
    IN  /\ PeerSound(y)
        /\ SendRight(y.sender, edge) /\ Advances(peer[p].sender, y.sender)
        /\ y.sender.input.pushed <= Supply[p]
        /\ RecvRight(y.receiver, peer[q].sender)
        /\ Opens(peer[p].receiver, y.receiver)
        /\ ~Started(q) => ~y.receiver.init
        /\ \A d \in new : /\ Sent(d.sender, y.sender, edge)
                          /\ d.receiver = ReceiverSend(y.receiver)
        /\ Young(y.sender, peer[q].receiver, Members(net[q]) \cup new,
                 p \in connected, p = Client \/ y.receiver.init)

\* The peers before and after such a step.
LEMMA PassesPeers ==
    ASSUME Inv, NEW p \in Peers, NEW y, NEW new, Passes(p, y, new), PeerSound(y),
           NEW q, q = Other(p)
    PROVE  /\ q \in Peers /\ q # p /\ Other(q) = p
           /\ peer'[p] = y /\ peer'[q] = peer[q]
           /\ PeerSound(peer[p]) /\ PeerSound(peer[q])
           /\ Members(net[p]) \in SUBSET Datagram
           /\ Members(net[q]) \in SUBSET Datagram
           /\ \A z \in Peers : z = p \/ z = q
<1>1. q \in Peers /\ q # p /\ Other(q) = p /\ \A z \in Peers : z = p \/ z = q
    BY TwoPeers
<1>2. /\ peer \in [Peers -> PeerType] /\ PeerSound(peer[p]) /\ PeerSound(peer[q])
      /\ net[p] \in Seq(Datagram) /\ net[q] \in Seq(Datagram)
    BY <1>1 DEF Inv, TypeInv
<1>3. peer'[p] = y /\ peer'[q] = peer[q]
    BY <1>1, <1>2 DEF Passes
<1>4. \A n \in Seq(Datagram) : Members(n) \in SUBSET Datagram
    <2> SUFFICES ASSUME NEW n \in Seq(Datagram), NEW i \in 1 .. Len(n)
                 PROVE  n[i] \in Datagram
        BY DEF Members
    <2> QED
        BY ElementOfSeq
<1> QED
    BY <1>1, <1>2, <1>3, <1>4

\* Such a step keeps what peers, receivers and datagrams say of one another.
LEMMA PassesRight ==
    ASSUME Inv, NEW p \in Peers, NEW y, NEW new, Passes(p, y, new), GoesOn(p, y, new)
    PROVE  \A z \in Peers : Right(z)'
<1> DEFINE q == Other(p)
           s == peer[p].sender
           r == peer[q].receiver
           v == peer[q].sender
           g == peer[p].receiver
           there == Members(net[q])
           back == Members(net[p])
           there2 == Members(net'[q])
           back2 == Members(net'[p])
<1>1. PeerSound(y)
    BY DEF GoesOn
<1>2. /\ q \in Peers /\ q # p /\ Other(q) = p
      /\ peer'[p] = y /\ peer'[q] = peer[q]
      /\ PeerSound(peer[p]) /\ PeerSound(peer[q])
      /\ back \in SUBSET Datagram /\ there \in SUBSET Datagram
      /\ \A z \in Peers : z = p \/ z = q
    BY <1>1, PassesPeers
<1>3. /\ SenderSound(s) /\ SenderSound(y.sender) /\ SenderSound(v)
      /\ ReceiverSound(r) /\ ReceiverSound(y.receiver) /\ ReceiverSound(g)
    BY <1>1, <1>2 DEF PeerSound
<1>4. back2 \in SUBSET back /\ there2 \in SUBSET (there \cup new)
    BY DEF Passes
<1>5. /\ Agree(s, r, there, back, Supply[p])
      /\ Agree(v, g, back, there, Supply[q])
    BY <1>2 DEF Inv, Right
<1>6. /\ SendRight(y.sender, WindowEdge(r.reasm)) /\ Advances(s, y.sender)
      /\ y.sender.input.pushed <= Supply[p]
      /\ RecvRight(y.receiver, v) /\ Opens(g, y.receiver)
      /\ \A d \in new : Sent(d.sender, y.sender, WindowEdge(r.reasm))
      /\ \A d \in new : d.receiver = ReceiverSend(y.receiver)
    BY DEF GoesOn
<1>7. Right(p)' <=> Agree(y.sender, r, there2, back2, Supply[p])
    BY <1>2 DEF Right
<1>8. Right(q)' <=> Agree(v, y.receiver, back2, there2, Supply[q])
    BY <1>2 DEF Right
<1> HIDE DEF q, s, r, v, g, there, back, there2, back2
<1>9. Agree(y.sender, r, there2, back2, Supply[p])
    <2> DEFINE t == y.sender
               supply == Supply[p]
    <2>1. /\ SenderSound(s) /\ SenderSound(t) /\ Advances(s, t) /\ ReceiverSound(r)
          /\ there \in SUBSET Datagram /\ back \in SUBSET Datagram
          /\ Agree(s, r, there, back, supply)
          /\ SendRight(t, WindowEdge(r.reasm)) /\ t.input.pushed <= supply
          /\ \A d \in new : Sent(d.sender, t, WindowEdge(r.reasm))
          /\ there2 \in SUBSET (there \cup new) /\ back2 \in SUBSET back
        BY <1>2, <1>3, <1>4, <1>5, <1>6
    <2> HIDE DEF t, supply
    <2>2. Agree(t, r, there2, back2, supply)
        BY <2>1, SenderGoesOn
    <2> QED
        BY <2>2 DEF t, supply
<1>10. Agree(v, y.receiver, back2, there2, Supply[q])
    BY ZenonT(30), <1>2, <1>3, <1>4, <1>5, <1>6, ReceiverGoesOn
<1> QED
    BY <1>2, <1>7, <1>8, <1>9, <1>10

\* And what they say while the connection opens.
LEMMA PassesOpening ==
    ASSUME Inv, NEW p \in Peers, NEW y, NEW new, Passes(p, y, new), GoesOn(p, y, new)
    PROVE  \A z \in Peers : Opening(z)'
<1> DEFINE q == Other(p)
           r == peer[q].receiver
           v == peer[q].sender
           g == peer[p].receiver
           there == Members(net[q])
           back == Members(net[p])
           there2 == Members(net'[q])
           back2 == Members(net'[p])
<1>1. PeerSound(y)
    BY DEF GoesOn
<1>2. /\ q \in Peers /\ q # p /\ Other(q) = p
      /\ peer'[p] = y /\ peer'[q] = peer[q]
      /\ \A z \in Peers : z = p \/ z = q
    BY <1>1, PassesPeers
<1>3. /\ back2 \in SUBSET back /\ there2 \in SUBSET (there \cup new)
      /\ connected' = connected
    BY DEF Passes
<1>4. Young(v, g, back, q \in connected, Started(q))
    BY <1>2 DEF Inv, Opening
<1>5. /\ ~Started(q) => ~y.receiver.init
      /\ g.init => y.receiver.init
      /\ Young(y.sender, r, there \cup new, p \in connected, p = Client \/ y.receiver.init)
    BY DEF GoesOn, Opens
<1>6. Opening(p)' <=> Young(y.sender, r, there2, p \in connected, p = Client \/ y.receiver.init)
    BY <1>2, <1>3 DEF Opening, Started
<1>7. Opening(q)' <=> Young(v, y.receiver, back2, q \in connected, Started(q))
    BY <1>2, <1>3 DEF Opening, Started
<1> HIDE DEF q, r, v, g, there, back, there2, back2
<1>8. Young(y.sender, r, there2, p \in connected, p = Client \/ y.receiver.init)
    BY <1>3, <1>5 DEF Young
<1>9. Young(v, y.receiver, back2, q \in connected, Started(q))
    BY <1>3, <1>4, <1>5 DEF Young
<1> QED
    BY <1>2, <1>6, <1>7, <1>8, <1>9

\* What the invariant says of a peer and its partner.
LEMMA InvSays ==
    ASSUME Inv, NEW p \in Peers, NEW q, q = Other(p), NEW x, x = peer[p],
           NEW z, z = peer[q], NEW edge, edge = WindowEdge(z.receiver.reasm)
    PROVE  /\ PeerSound(x) /\ PeerSound(z) /\ edge \in Nat
           /\ SenderSound(x.sender) /\ SenderSound(z.sender)
           /\ ReceiverSound(x.receiver) /\ ReceiverSound(z.receiver)
           /\ SendRight(x.sender, edge) /\ RecvRight(z.receiver, x.sender)
           /\ RecvRight(x.receiver, z.sender)
           /\ x.sender.input.pushed <= Supply[p]
           /\ Young(x.sender, z.receiver, Members(net[q]), p \in connected,
                    p = Client \/ x.receiver.init)
           /\ ~Started(q) => /\ Members(net[p]) = {} /\ ~x.receiver.init
           /\ ~x.receiver.init => \A d \in Members(net[p]) : d.sender.SYN
           /\ \A d \in Members(net[p]) : /\ d \in Datagram
                                         /\ AckRight(d.receiver, z.receiver, x.sender)
                                         /\ Sent(d.sender, z.sender,
                                                 WindowEdge(x.receiver.reasm))
<1>1. q \in Peers /\ Other(q) = p
    BY TwoPeers
<1>2. PeerSound(x) /\ PeerSound(z) /\ net[p] \in Seq(Datagram)
    BY <1>1 DEF Inv, TypeInv
<1>3. /\ SenderSound(x.sender) /\ SenderSound(z.sender)
      /\ ReceiverSound(x.receiver) /\ ReceiverSound(z.receiver)
    BY <1>2 DEF PeerSound
<1>4. edge \in Nat
    BY <1>3, ReceiverNumbers
<1>5. /\ Right(p) /\ Right(q) /\ Opening(p) /\ Opening(q)
    BY <1>1 DEF Inv
<1>6. /\ Agree(x.sender, z.receiver, Members(net[q]), Members(net[p]), Supply[p])
      /\ Agree(z.sender, x.receiver, Members(net[p]), Members(net[q]), Supply[q])
    BY <1>1, <1>5 DEF Right
<1>7. /\ Young(x.sender, z.receiver, Members(net[q]), p \in connected,
               p = Client \/ x.receiver.init)
      /\ Young(z.sender, x.receiver, Members(net[p]), q \in connected, Started(q))
    BY <1>1, <1>5 DEF Opening, Started
<1>8. \A d \in Members(net[p]) : d \in Datagram
    BY <1>2, ElementOfSeq DEF Members
<1>9. /\ SendRight(x.sender, edge) /\ RecvRight(z.receiver, x.sender)
      /\ RecvRight(x.receiver, z.sender) /\ x.sender.input.pushed <= Supply[p]
      /\ \A d \in Members(net[p]) :
            /\ AckRight(d.receiver, z.receiver, x.sender)
            /\ Sent(d.sender, z.sender, WindowEdge(x.receiver.reasm))
    BY <1>6 DEF Agree
<1>10. /\ ~Started(q) => Members(net[p]) = {} /\ ~x.receiver.init
       /\ ~x.receiver.init => \A d \in Members(net[p]) : d.sender.SYN
    BY <1>7 DEF Young
<1> QED
    BY <1>2, <1>3, <1>4, <1>7, <1>8, <1>9, <1>10

\* A step in which p sends nothing and its sender does nothing.
LEMMA QuietGoesOn ==
    ASSUME Inv, NEW p \in Peers, NEW y, PeerSound(y), y.sender = peer[p].sender,
           RecvRight(y.receiver, peer[Other(p)].sender),
           Opens(peer[p].receiver, y.receiver),
           y.receiver.init = peer[p].receiver.init
    PROVE  GoesOn(p, y, {})
<1> DEFINE q == Other(p)
           x == peer[p]
           z == peer[q]
           edge == WindowEdge(z.receiver.reasm)
<1>1. /\ SenderSound(x.sender) /\ SendRight(x.sender, edge)
      /\ x.sender.input.pushed <= Supply[p]
      /\ Young(x.sender, z.receiver, Members(net[q]), p \in connected,
               p = Client \/ x.receiver.init)
      /\ ~Started(q) => /\ Members(net[p]) = {} /\ ~x.receiver.init
    BY InvSays
<1>2. Advances(x.sender, x.sender)
    BY <1>1, SenderNumbers DEF Advances
<1>3. Members(net[q]) \cup {} = Members(net[q])
    OBVIOUS
<1> QED
    BY <1>1, <1>2, <1>3 DEF GoesOn

\* The timer of p expires.
LEMMA TickGoesOn ==
    ASSUME Inv, NEW p \in Peers
    PROVE  /\ GoesOn(p, PeerTick(peer[p]).peer, Members(PeerTick(peer[p]).out))
           /\ PeerTick(peer[p]).peer.sender.last = peer[p].sender.last
<1> DEFINE q == Other(p)
           x == peer[p]
           z == peer[q]
           edge == WindowEdge(z.receiver.reasm)
           y == PeerTick(x).peer
           new == Members(PeerTick(x).out)
           s == x.sender
           t == y.sender
<1>1. /\ PeerSound(x) /\ edge \in Nat /\ SenderSound(s) /\ ReceiverSound(x.receiver)
      /\ SendRight(s, edge)
      /\ RecvRight(x.receiver, z.sender)
      /\ s.input.pushed <= Supply[p]
      /\ Young(s, z.receiver, Members(net[q]), p \in connected,
               p = Client \/ x.receiver.init)
      /\ ~Started(q) => /\ Members(net[p]) = {} /\ ~x.receiver.init
    BY InvSays
<1>2. /\ PeerSound(y) /\ t = TickExpires(s) /\ y.receiver = x.receiver
      /\ Carry(PeerTick(x).out, Members(TickTransmits(s)), ReceiverSend(x.receiver))
    BY <1>1, PeerTickSound DEF StepSound
<1> HIDE DEF y
<1>3. /\ SendRight(t, edge) /\ Advances(s, t)
      /\ t.input = s.input /\ t.exp = s.exp /\ t.last = s.last /\ t.ost = s.ost
      /\ \A m \in Members(TickTransmits(s)) :
            Sent(m, t, edge) /\ \E e \in s.ost : m = e.msg
    <2> HIDE DEF edge, s
    <2> QED
        BY <1>1, <1>2, TickRight
<1>4. \A d \in new : /\ Sent(d.sender, t, edge) /\ d.receiver = ReceiverSend(y.receiver)
                     /\ \E e \in s.ost : d.sender = e.msg
    BY <1>2, <1>3 DEF Carry
<1>5. Opens(x.receiver, y.receiver)
    <2>1. WindowEdge(x.receiver.reasm) \in Nat
        BY <1>1, ReceiverNumbers
    <2> QED
        BY <1>2, <2>1 DEF Opens
<1> DEFINE there == Members(net[q])
<1> HIDE DEF t, s, x, z, new, edge, q, there
<1>6. Young(t, z.receiver, there \cup new, p \in connected, p = Client \/ y.receiver.init)
    <2>1. Young(s, z.receiver, there, p \in connected, p = Client \/ x.receiver.init)
        BY <1>1 DEF there
    <2>2. Idle(s) => Idle(t)
        BY <1>3 DEF Idle
    <2>3. ~z.receiver.init => \A d \in new : d.sender.SYN
        BY <1>4, <2>1 DEF Young
    <2>4. s.ost = {} => new = {}
        BY <1>4
    <2> QED
        BY <1>2, <1>3, <2>1, <2>2, <2>3, <2>4 DEF Young
<1>7. GoesOn(p, y, new)
    BY <1>1, <1>2, <1>3, <1>4, <1>5, <1>6 DEF GoesOn, t, x, z, q, edge, s, there
<1>8. t.last = s.last
    BY <1>3
<1> QED
    BY <1>7, <1>8 DEF y, new, x, t, s

\* The application of p, which is connected, has written or closed; p pushes.
LEMMA PushGoesOn ==
    ASSUME Inv, NEW p \in Peers, p \in connected, ~peer[p].sender.finSent,
           NEW f, InPlace(f), f.popped = peer[p].sender.input.popped,
           f.error = peer[p].sender.input.error, f.pushed <= Supply[p]
    PROVE  /\ GoesOn(p, PeerPush(WithInput(p, f)).peer,
                     Members(PeerPush(WithInput(p, f)).out))
           /\ PeerPush(WithInput(p, f)).peer.sender.last = peer[p].sender.last
<1> DEFINE q == Other(p)
           x == peer[p]
           z == peer[q]
           edge == WindowEdge(z.receiver.reasm)
           w == [x EXCEPT !.sender.input = f]
           step == PeerPush(w)
           new == Members(step.out)
           s == x.sender
           g == w.sender
           t == PushAll(g).sender
           out == PushAll(g).out
           there == Members(net[q])
<1>1. /\ PeerSound(x) /\ edge \in Nat /\ SenderSound(s) /\ ReceiverSound(x.receiver)
      /\ SendRight(s, edge)
      /\ RecvRight(x.receiver, z.sender)
      /\ Young(s, z.receiver, there, p \in connected, p = Client \/ x.receiver.init)
      /\ ~Started(q) => /\ Members(net[p]) = {} /\ ~x.receiver.init
    BY InvSays
<1>2. PeerSound(w) /\ g = [s EXCEPT !.input = f] /\ w.receiver = x.receiver
    BY <1>1, InputChanges
<1>3. WithInput(p, f) = w
    BY DEF WithInput
<1> HIDE DEF w
<1>4. SenderSound(g)
    BY <1>2 DEF PeerSound
<1>5. /\ StepSound(step) /\ step.peer.sender = t /\ step.peer.receiver = x.receiver
      /\ Carry(step.out, Members(out), ReceiverSend(x.receiver))
    BY <1>2, PeerPushSound
<1>6. z.receiver.init /\ (p = Client \/ x.receiver.init) /\ s.exp # 0
    BY <1>1 DEF Young
<1> HIDE DEF x, z, edge, step, s, g, there, q
<1>7. f.popped = s.input.popped /\ f.error = s.input.error
    BY DEF s, x
<1>8. SendRight(g, edge) /\ Advances(s, g) /\ g.exp = s.exp /\ g.last = s.last
      /\ g.input = f
    BY <1>1, <1>2, <1>4, <1>6, <1>7, InputRight
<1>9. /\ SendRight(t, edge) /\ Advances(g, t) /\ t.exp # 0
      /\ t.input.pushed = g.input.pushed /\ t.last = g.last
      /\ \A m \in Members(out) : Sent(m, t, edge)
    BY <1>1, <1>4, <1>8, PushAllRight
<1> HIDE DEF t, out
<1>10. SenderSound(t)
    BY <1>5 DEF StepSound, PeerSound
<1>11. Advances(s, t)
    <2>1. s.input.popped \in Nat /\ g.input.popped \in Nat /\ t.input.popped \in Nat
        BY <1>1, <1>4, <1>10, SenderNumbers
    <2> QED
        BY <1>8, <1>9, <2>1 DEF Advances
<1>12. \A d \in new : Sent(d.sender, t, edge) /\ d.receiver = ReceiverSend(x.receiver)
    BY <1>5, <1>9 DEF Carry
<1>13. Opens(x.receiver, x.receiver)
    <2>1. WindowEdge(x.receiver.reasm) \in Nat
        BY <1>1, ReceiverNumbers
    <2> QED
        BY <2>1 DEF Opens
<1>14. Young(t, z.receiver, there \cup new, p \in connected, p = Client \/ x.receiver.init)
    BY <1>6, <1>9 DEF Young
<1>15. t.input.pushed <= Supply[p]
    BY <1>8, <1>9
<1> HIDE DEF new
<1>16. GoesOn(p, step.peer, new)
    <2>1. PeerSound(step.peer)
        BY <1>5 DEF StepSound
    <2> QED
        BY <1>1, <1>5, <1>9, <1>11, <1>12, <1>13, <1>14, <1>15, <2>1
        DEF GoesOn, x, z, q, edge, s, there
<1>17. step.peer.sender.last = s.last
    BY <1>5, <1>8, <1>9
<1> QED
    BY <1>3, <1>16, <1>17 DEF step, new, s, x

\* p receives a datagram.  The SYN of a partner comes late when p is connected
\* and a datagram without an ackno is still under way to it.
NoLateSyn ==
    \A p \in Peers :
        (\E i \in DOMAIN net[p] : ~net[p][i].receiver.hasAck) => p \notin connected

SupplyIsShort == \A p \in Peers : Supply[p] + 2 < Half

LEMMA ReceiveGoesOn ==
    ASSUME Inv, SupplyIsShort, NEW p \in Peers, NEW d \in Members(net[p]),
           d.receiver.hasAck \/ p \notin connected
    PROVE  /\ GoesOn(p, PeerReceive(peer[p], d).peer,
                     Members(PeerReceive(peer[p], d).out))
           /\ \/ PeerReceive(peer[p], d).peer.sender.last
                    \in {0, peer[p].sender.last}
              \/ d.receiver.hasAck
<1> DEFINE q == Other(p)
           x == peer[p]
           z == peer[q]
           edge == WindowEdge(z.receiver.reasm)
           wide == WindowEdge(x.receiver.reasm)
           step == PeerReceive(x, d)
           new == Members(step.out)
           s == x.sender
           a == d.receiver
           g == SenderReceive(s, a)
           u == ReceiverReceive(x.receiver, d.sender)
           t == PushAll(g).sender
           out == PushAll(g).out
           there == Members(net[q])
           v == z.sender
           r == z.receiver
           h == x.receiver
           m == d.sender
<1>1. /\ PeerSound(x) /\ PeerSound(z) /\ edge \in Nat
      /\ SenderSound(s) /\ SenderSound(v)
      /\ ReceiverSound(h) /\ ReceiverSound(r)
      /\ SendRight(s, edge) /\ RecvRight(r, s)
      /\ RecvRight(h, v) /\ s.input.pushed <= Supply[p]
      /\ Young(s, r, there, p \in connected, p = Client \/ h.init)
    BY InvSays
<1>2. /\ ~Started(q) => /\ Members(net[p]) = {} /\ ~h.init
      /\ ~h.init => \A e \in Members(net[p]) : e.sender.SYN
      /\ \A e \in Members(net[p]) : /\ e \in Datagram
                                    /\ AckRight(e.receiver, r, s)
                                    /\ Sent(e.sender, v, wide)
    BY InvSays
<1>3. /\ d \in Datagram /\ AckRight(a, r, s) /\ Sent(m, v, wide)
      /\ Started(q) /\ (h.init \/ m.SYN)
    BY <1>2
<1>4. m \in Message /\ a \in AckMessage /\ a.hasAck \in BOOLEAN
    BY <1>3 DEF Datagram, Answer, AckMessage
<1>5. Short(s) /\ Short(v)
    <2>1. q \in Peers /\ Other(q) = p
        BY TwoPeers
    <2>2. v.input.pushed <= Supply[q]
        BY <2>1 DEF Inv, Right, Agree
    <2>3. \A e : SenderSound(e) =>
              /\ e.input.popped \in Nat /\ e.input.pushed \in Nat
              /\ e.input.popped <= e.input.pushed
        BY SenderNumbers
    <2>4. Supply[p] \in Nat /\ Supply[q] \in Nat /\ Half \in Nat
        BY <2>1, ConnectionConstants, ModulusType
    <2>5. \A e, n : SenderSound(e) /\ e.input.pushed <= n /\ n \in Nat /\ n + 2 < Half
              => Short(e)
        BY <2>3, <2>4 DEF Short
    <2> QED
        BY <1>1, <2>1, <2>2, <2>4, <2>5 DEF SupplyIsShort
<1>6. CASE ~Active(x)
    <2>1. step.peer = x /\ step.out = << >>
        BY <1>1, <1>3, <1>6, PeerReceiveSound
    <2>2. new = {}
        <3>1. Len(<< >>) = 0
            OBVIOUS
        <3> QED
            BY <2>1, <3>1 DEF Members
    <2>3. Opens(h, h)
        BY <1>1, ReceiverNumbers DEF Opens
    <2>4. GoesOn(p, x, {})
        BY <1>1, <2>3, QuietGoesOn
    <2> QED
        BY <2>1, <2>2, <2>4
<1>7. CASE Active(x)
    <2>1. /\ StepSound(step) /\ step.peer.sender = t /\ step.peer.receiver = u
          /\ Carry(step.out, Replies(PushAll(g)), ReceiverSend(u))
        BY <1>1, <1>3, <1>7, PeerReceiveSound
    <2>2. SenderSound(g)
        BY <1>1, <1>4, SenderReceiveSound
    <2>3. Replies(PushAll(g)) = Members(out) \cup {e \in {EmptyMessage(t)} : out = << >>}
        BY DEF Replies
    <2> HIDE DEF x, z, step, s, a, g, u, t, out, there, v, r, h, m, wide, q
    <2>4. RecvRight(u, v) /\ Opens(h, u) /\ u.init
        <3>1. Sent(m, v, WindowEdge(h.reasm)) /\ u = ReceiverReceive(h, m)
            BY <1>3 DEF wide, h, u, m
        <3> QED
            BY <1>1, <1>3, <1>4, <1>5, <3>1, ReceiverReceiveRight
    <2>5. a.hasAck \/ Idle(s)
        <3>1. a.hasAck \/ p \notin connected
            BY DEF a
        <3> QED
            BY <1>1, <3>1 DEF Young
    <2>6. /\ SendRight(g, edge) /\ Advances(s, g)
          /\ g.input = s.input
          /\ \/ a.hasAck /\ r.init /\ g.exp = s.exp
             \/ ~a.hasAck /\ g.exp = 0 /\ g.last = 0 /\ g.ost = {}
        <3>1. edge = WindowEdge(r.reasm) /\ g = SenderReceive(s, a)
            BY DEF r, g
        <3> HIDE DEF edge
        <3> QED
            BY <1>1, <1>3, <1>4, <1>5, <2>5, <3>1, SenderReceiveRight
    <2> HIDE DEF edge
    <2>7. /\ SendRight(t, edge) /\ Advances(g, t)
          /\ t.exp # 0 /\ g.exp <= t.exp /\ t.last = g.last
          /\ t.input.pushed = g.input.pushed /\ t.input.closed = g.input.closed
          /\ \A e \in Members(out) : Sent(e, t, edge)
          /\ out = << >> => t.exp = g.exp
          /\ Idle(g) => /\ g.exp <= 1 => t.exp <= 1
                        /\ \A e \in Members(out) : e.SYN
                        /\ \A e \in t.ost : e \in g.ost \/ e.msg.SYN
        <3>1. t = PushAll(g).sender /\ out = PushAll(g).out
            BY DEF t, out
        <3> QED
            BY SMTT(30), <1>1, <2>2, <2>6, <3>1, PushAllRight
    <2>8. SenderSound(t)
        BY <2>1 DEF StepSound, PeerSound
    <2>9. Advances(s, t)
        <3>1. s.input.popped \in Nat /\ g.input.popped \in Nat /\ t.input.popped \in Nat
            BY <1>1, <2>2, <2>8, SenderNumbers
        <3> QED
            BY <2>6, <2>7, <3>1 DEF Advances
    <2>10. Sent(EmptyMessage(t), t, edge)
        BY <1>1, <2>7, <2>8, EmptyMessageRight
    <2>11. \A e \in new : Sent(e.sender, t, edge) /\ e.receiver = ReceiverSend(u)
        BY <2>1, <2>3, <2>7, <2>10 DEF Carry
    <2>12. ASSUME ~r.init
           PROVE  /\ t.exp <= 1 /\ t.last = 0 /\ p \notin connected
                  /\ \A e \in new : e.sender.SYN
                  /\ \A e \in t.ost : e.msg.SYN
        <3>1. ~a.hasAck /\ g.exp = 0 /\ g.last = 0 /\ g.ost = {}
            BY <2>6, <2>12
        <3>2. p \notin connected /\ Idle(s)
            BY <1>1, <2>12 DEF Young
        <3>3. Idle(g)
            BY <2>6, <3>2 DEF Idle
        <3>4. out # << >>
            BY <2>7, <3>1
        <3>5. Replies(PushAll(g)) = Members(out)
            BY <2>3, <3>4
        <3>6. \A e \in Members(out) : e.SYN
            BY <2>7, <3>3
        <3>7. \A e \in new : e.sender.SYN
            BY <2>1, <3>5, <3>6 DEF Carry
        <3> QED
            BY <2>7, <3>1, <3>2, <3>3, <3>7
    <2>13. p \notin connected => Idle(t)
        BY <1>1, <2>6, <2>7 DEF Young, Idle
    <2>14. ~r.init => \A e \in there : e.sender.SYN
        BY <1>1 DEF Young
    <2>15. Young(t, r, there \cup new, p \in connected, p = Client \/ u.init)
        BY <2>4, <2>7, <2>12, <2>13, <2>14 DEF Young
    <2>16. t.input.pushed <= Supply[p]
        BY <1>1, <2>6, <2>7
    <2> HIDE DEF new
    <2>17. PeerSound(step.peer)
        BY <2>1 DEF StepSound
    <2>18. GoesOn(p, step.peer, new)
        BY <1>3, <2>1, <2>4, <2>7, <2>9, <2>11, <2>15, <2>16, <2>17
        DEF GoesOn, x, z, q, edge, s, there, r, h, v
    <2>19. step.peer.sender.last = 0 \/ a.hasAck
        BY <2>1, <2>6, <2>7
    <2> QED
        BY <2>18, <2>19 DEF step, new, x, a
<1> QED
    BY <1>6, <1>7

-----------------------------------------------------------------------------
(***************************************************************************)
(* The invariant, step by step.                                            *)
(***************************************************************************)
LEMMA StepKeeps ==
    ASSUME Inv, TypeInv', NEW p \in Peers, NEW y, NEW new,
           Passes(p, y, new), GoesOn(p, y, new)
    PROVE  Inv'
BY PassesRight, PassesOpening DEF Inv

LEMMA DoesPasses ==
    ASSUME Inv, TypeInv', NEW p \in Peers, NEW step, StepSound(step),
           Does(p, step), connected' = connected
    PROVE  Passes(p, step.peer, Members(step.out))
<1> DEFINE q == Other(p)
<1>1. q \in Peers /\ q # p
    BY TwoPeers
<1>2. /\ net \in [Peers -> Seq(Datagram)] /\ net[q] \in Seq(Datagram)
      /\ net' \in [Peers -> Seq(Datagram)] /\ step.out \in Seq(Datagram)
    BY <1>1 DEF Inv, TypeInv, StepSound
<1>3. net'[p] = net[p] /\ net'[q] = net[q] \o step.out
    BY <1>1, <1>2 DEF Does
<1>4. Members(net'[q]) = Members(net[q]) \cup Members(step.out)
    BY <1>2, <1>3, MembersOfBoth
<1> QED
    BY <1>2, <1>3, <1>4 DEF Does, Passes

\* A peer that returns from connect or listen_and_accept knows that its SYN has
\* arrived.
LEMMA ConnectsKeeps ==
    ASSUME Inv, TypeInv', NEW p \in Peers, Connects(p)
    PROVE  Inv'
<1> DEFINE q == Other(p)
           s == peer[p].sender
           r == peer[q].receiver
           there == Members(net[q])
           started == p = Client \/ peer[p].receiver.init
<1>1. /\ peer' = peer /\ net' = net /\ connected' = connected \cup {p}
      /\ MayConnect(p)
    BY DEF Connects
<1>2. Young(s, r, there, p \in connected, started) /\ SenderSound(s)
    BY InvSays
<1>3. started /\ InFlight(s) # 1
    <2>1. CASE p = Client
        BY <1>1, <2>1 DEF MayConnect
    <2>2. CASE p # Client
        <3>1. peer[p].receiver.init
            BY <1>1, <2>2 DEF MayConnect, HasAckno, ReceiverSend
        <3>2. InFlight(s) = 0
            BY <1>1, <2>2 DEF MayConnect
        <3> QED
            BY <3>1, <3>2
    <2> QED
        BY <2>1, <2>2
<1>4. r.init
    <2> SUFFICES ASSUME ~r.init PROVE FALSE
        OBVIOUS
    <2>1. s.exp <= 1 /\ s.last = 0 /\ s.exp # 0
        BY <1>2, <1>3 DEF Young
    <2>2. s.exp \in Nat
        BY <1>2, SenderNumbers
    <2>3. InFlight(s) = 1
        BY <2>1, <2>2 DEF InFlight
    <2> QED
        BY <1>3, <2>3
<1>5. Opening(p)' <=> Young(s, r, there, TRUE, started)
    BY <1>1 DEF Opening, Started
<1>6. Opening(p)'
    <2> HIDE DEF s, r, there, started
    <2> QED
        BY <1>2, <1>3, <1>4, <1>5 DEF Young
<1>7. ASSUME NEW z \in Peers, z # p PROVE Opening(z)'
    <2>1. Opening(z)
        BY DEF Inv
    <2>2. z \in connected' <=> z \in connected
        BY <1>1, <1>7
    <2> QED
        BY <1>1, <2>1, <2>2 DEF Opening, Started, Young
<1>8. \A z \in Peers : Right(z)'
    <2>1. \A z \in Peers : Right(z)
        BY DEF Inv
    <2> QED
        BY <1>1, <2>1 DEF Right
<1>9. \A z \in Peers : Opening(z)'
    BY <1>6, <1>7
<1> QED
    BY <1>8, <1>9 DEF Inv

LEMMA NextInv ==
    ASSUME SupplyIsShort, Inv, [Next]_vars, NoLateSyn
    PROVE  Inv'
<1>0. TypeInv /\ TypeInv'
    BY NextTypeInv DEF Inv
<1>1. /\ peer \in [Peers -> PeerType] /\ \A p \in Peers : PeerSound(peer[p])
      /\ \A p \in Peers : net[p] \in Seq(Datagram)
      /\ net' \in [Peers -> Seq(Datagram)] /\ net \in [Peers -> Seq(Datagram)]
    BY <1>0 DEF TypeInv
<1>2. ASSUME NEW p \in Peers, Deliver(p) PROVE Inv'
    <2> DEFINE d == Head(net[p])
               step == PeerReceive(peer[p], d)
               q == Other(p)
               new == Members(step.out)
    <2>1. /\ d \in Datagram /\ d \in Members(net[p]) /\ q \in Peers /\ q # p
          /\ Members(Tail(net[p])) \in SUBSET Members(net[p])
        BY <1>1, <1>2, NetWithoutFirst, TwoPeers DEF Deliver, MayDeliver
    <2>2. d.receiver.hasAck \/ p \notin connected
        <3>1. PICK i \in 1 .. Len(net[p]) : d = net[p][i]
            BY <2>1 DEF Members
        <3>2. i \in DOMAIN net[p]
            BY <1>1, LenProperties
        <3> QED
            BY <3>1, <3>2 DEF NoLateSyn
    <2>3. GoesOn(p, step.peer, new)
        <3> HIDE DEF d
        <3> QED
            BY <2>1, <2>2, ReceiveGoesOn
    <2>4. StepSound(step)
        BY <1>1, <2>1, PeerReceiveSound
    <2>5. /\ peer' = [peer EXCEPT ![p] = step.peer]
          /\ net' = [net EXCEPT ![p] = Tail(@), ![q] = @ \o step.out]
          /\ connected' = connected
        BY <1>2 DEF Deliver
    <2> HIDE DEF d, step, q
    <2>6. net'[p] = Tail(net[p]) /\ net'[q] = net[q] \o step.out
        BY <1>1, <2>1, <2>5
    <2>7. Members(net'[q]) = Members(net[q]) \cup new
        <3>1. net[q] \in Seq(Datagram) /\ step.out \in Seq(Datagram)
            BY <1>1, <2>1, <2>4 DEF StepSound
        <3> QED
            BY <2>6, <3>1, MembersOfBoth
    <2>8. Passes(p, step.peer, new)
        BY <1>1, <2>1, <2>5, <2>6, <2>7 DEF Passes, q
    <2> HIDE DEF new
    <2> QED
        BY <1>0, <2>3, <2>8, StepKeeps
<1>3. ASSUME NEW p \in Peers, NEW n \in 1 .. SendCapacity, Write(p, n) PROVE Inv'
    <2> DEFINE f == peer[p].sender.input
               x == WithInput(p, Written(f, n))
               step == PeerPush(x)
    <2>1. /\ ~f.closed /\ p \in connected /\ Does(p, step) /\ connected' = connected
          /\ f.pushed + n <= Supply[p]
        BY <1>3 DEF Write, MayWrite, Written
    <2>2. InPlace(f) /\ ~peer[p].sender.finSent /\ PeerSound(x)
        BY <1>0, <2>1, WriterSound
    <2>3. StepSound(step)
        BY <2>2, PeerPushSound
    <2>4. /\ InPlace(Written(f, n)) /\ Written(f, n).popped = f.popped
          /\ Written(f, n).error = f.error /\ Written(f, n).pushed <= f.pushed + n
        BY <2>2, WrittenInPlace
    <2>5. Written(f, n).pushed <= Supply[p]
        <3>1. Written(f, n).pushed \in Nat /\ f.pushed \in Nat /\ Supply[p] \in Nat
            BY <2>2, <2>4, InPlaceNumbers, ConnectionConstants
        <3> DEFINE k == Written(f, n).pushed
                   m == f.pushed
        <3>2. k \in Nat /\ m \in Nat /\ k <= m + n /\ m + n <= Supply[p]
            BY <2>1, <2>4, <3>1
        <3> HIDE DEF k, m
        <3>3. k <= Supply[p]
            BY <3>1, <3>2
        <3> QED
            BY <3>3 DEF k
    <2>6. GoesOn(p, step.peer, Members(step.out))
        <3> DEFINE w == Written(f, n)
        <3>1. /\ InPlace(w) /\ w.popped = peer[p].sender.input.popped
              /\ w.error = peer[p].sender.input.error /\ w.pushed <= Supply[p]
            BY <2>4, <2>5
        <3> HIDE DEF w
        <3>2. /\ GoesOn(p, PeerPush(WithInput(p, w)).peer,
                        Members(PeerPush(WithInput(p, w)).out))
              /\ PeerPush(WithInput(p, w)).peer.sender.last = peer[p].sender.last
            BY <2>1, <2>2, <3>1, PushGoesOn
        <3> QED
            BY <3>2 DEF w
    <2> HIDE DEF step
    <2>7. Passes(p, step.peer, Members(step.out))
        BY <1>0, <2>1, <2>3, DoesPasses
    <2> QED
        BY <1>0, <2>6, <2>7, StepKeeps
<1>4. ASSUME NEW p \in Peers, CloseOutbound(p) PROVE Inv'
    <2> DEFINE f == peer[p].sender.input
               w == Close(f)
               x == WithInput(p, w)
               step == PeerPush(x)
    <2>1. /\ ~f.closed /\ p \in connected /\ Does(p, step) /\ connected' = connected
        BY <1>4 DEF CloseOutbound, MayClose, MayWrite
    <2>2. InPlace(f) /\ ~peer[p].sender.finSent /\ PeerSound(x)
        BY <1>0, <2>1, WriterSound
    <2>3. StepSound(step)
        BY <2>2, PeerPushSound
    <2>4. /\ InPlace(w) /\ w.popped = f.popped
          /\ w.error = f.error /\ w.pushed = f.pushed
        BY <2>2, MarksInPlace
    <2>5. w.pushed <= Supply[p]
        BY <2>4, InvSays
    <2> HIDE DEF w
    <2>6. GoesOn(p, step.peer, Members(step.out))
        BY <2>1, <2>2, <2>4, <2>5, PushGoesOn
    <2> HIDE DEF step
    <2>7. Passes(p, step.peer, Members(step.out))
        BY <1>0, <2>1, <2>3, DoesPasses
    <2> QED
        BY <1>0, <2>6, <2>7, StepKeeps
<1>5. ASSUME NEW p \in Peers, NEW y, peer' = [peer EXCEPT ![p] = y], net' = net,
             connected' = connected, GoesOn(p, y, {})
      PROVE  Inv'
    <2>1. Passes(p, y, {})
        BY <1>1, <1>5 DEF Passes
    <2> QED
        BY <1>0, <1>5, <2>1, StepKeeps
<1>6. ASSUME NEW p \in Peers, Read(p) PROVE Inv'
    <2>1. PICK n \in 1 .. Buffered(Inbound(peer[p])) :
              peer' = [peer EXCEPT ![p].receiver.reasm.output = Pop(@, n)]
        BY <1>6 DEF Read
    <2> DEFINE x == peer[p]
               y == [x EXCEPT !.receiver.reasm.output = Pop(@, n)]
               v == peer[Other(p)].sender
    <2>2. peer' = [peer EXCEPT ![p] = y]
        BY <1>1, <2>1
    <2>3. /\ n \in Nat /\ n <= Buffered(Inbound(x))
          /\ n <= Buffered(x.receiver.reasm.output)
        BY <2>1 DEF Inbound
    <2> HIDE DEF y
    <2>4. /\ PeerSound(y) /\ y.sender = x.sender
          /\ y.receiver = [x.receiver EXCEPT !.reasm =
                [x.receiver.reasm EXCEPT !.output = Pop(x.receiver.reasm.output, n)]]
        BY <1>1, <2>3, ReadSound DEF y
    <2>5. /\ SenderSound(v) /\ ReceiverSound(x.receiver) /\ RecvRight(x.receiver, v)
        BY InvSays
    <2>6. /\ RecvRight(y.receiver, v) /\ Opens(x.receiver, y.receiver)
          /\ y.receiver.init = x.receiver.init
        <3> DEFINE r == x.receiver
                   u == y.receiver
        <3>1. /\ ReceiverSound(r) /\ RecvRight(r, v)
              /\ n <= Buffered(r.reasm.output)
              /\ u = [r EXCEPT !.reasm =
                        [r.reasm EXCEPT !.output = Pop(r.reasm.output, n)]]
            BY <2>3, <2>4, <2>5
        <3> HIDE DEF r, u, v
        <3>2. RecvRight(u, v) /\ Opens(r, u) /\ u.init = r.init
            BY <2>3, <2>5, <3>1, ReadRight
        <3> QED
            BY <3>2 DEF r, u
    <2>7. GoesOn(p, y, {})
        BY <2>4, <2>6, QuietGoesOn
    <2> QED
        BY <1>5, <1>6, <2>2, <2>7 DEF Read
<1>7. ASSUME NEW p \in Peers, Does(p, PeerTick(peer[p])), connected' = connected PROVE Inv'
    <2> DEFINE step == PeerTick(peer[p])
    <2>1. StepSound(step)
        BY <1>1, PeerTickSound
    <2>2. GoesOn(p, step.peer, Members(step.out))
        BY TickGoesOn
    <2> HIDE DEF step
    <2>3. Passes(p, step.peer, Members(step.out))
        BY <1>0, <1>7, <2>1, DoesPasses DEF step
    <2> QED
        BY <1>0, <2>2, <2>3, StepKeeps
<1>8. ASSUME NEW p \in Peers, NEW y, PeerSound(y), y.sender = peer[p].sender,
             y.receiver = peer[p].receiver
      PROVE  GoesOn(p, y, {})
    <2>1. /\ ReceiverSound(peer[p].receiver)
          /\ RecvRight(peer[p].receiver, peer[Other(p)].sender)
        BY InvSays
    <2>2. Opens(peer[p].receiver, peer[p].receiver)
        BY <2>1, ReceiverNumbers DEF Opens
    <2> QED
        BY <1>8, <2>1, <2>2, QuietGoesOn
<1>9. ASSUME NEW p \in Peers, LingerExpires(p) PROVE Inv'
    <2> DEFINE x == peer[p]
               y == [x EXCEPT !.quiet = TRUE]
    <2>1. peer' = [peer EXCEPT ![p] = y] /\ net' = net /\ connected' = connected
        BY <1>9 DEF LingerExpires
    <2>2. y \in PeerType /\ y.sender = x.sender /\ y.receiver = x.receiver
        BY <1>1 DEF PeerType
    <2> HIDE DEF y
    <2>3. PeerSound(y)
        BY <1>1, <2>2 DEF PeerSound
    <2> QED
        BY <1>5, <1>8, <2>1, <2>2, <2>3
<1>10. ASSUME NEW p \in Peers, peer' = peer, connected' = connected,
              net'[Other(p)] = net[Other(p)],
              Members(net'[p]) \in SUBSET Members(net[p])
       PROVE  Inv'
    <2>1. GoesOn(p, peer[p], {})
        BY <1>1, <1>8
    <2>2. peer' = [peer EXCEPT ![p] = peer[p]]
        BY <1>1, <1>10
    <2>3. Passes(p, peer[p], {})
        BY <1>1, <1>10, <2>2 DEF Passes
    <2> QED
        BY <1>0, <2>1, <2>3, StepKeeps
<1>11. ASSUME NEW p \in Peers, Lose(p) \/ Delay(p) PROVE Inv'
    <2> DEFINE n == net[p]
    <2>1. n \in Seq(Datagram) /\ n # << >>
        BY <1>1, <1>11, EmptySeq DEF Lose, Delay
    <2>2. net'[p] \in {Tail(n), Append(Tail(n), Head(n))}
        BY <1>1, <1>11 DEF Lose, Delay
    <2>3. net'[Other(p)] = net[Other(p)] /\ peer' = peer /\ connected' = connected
        BY <1>1, <1>11, TwoPeers DEF Lose, Delay
    <2> HIDE DEF n
    <2>4. Members(net'[p]) \in SUBSET Members(n)
        BY <2>1, <2>2, NetWithoutFirst
    <2> QED
        BY <1>10, <2>3, <2>4 DEF n
<1>12. CASE UNCHANGED vars
    <2>1. peer' = peer /\ net' = net /\ connected' = connected
        BY <1>12 DEF vars
    <2>2. \A z \in Peers : Right(z) /\ Opening(z)
        BY DEF Inv
    <2>3. \A z \in Peers : Right(z)' /\ Opening(z)'
        BY <2>1, <2>2 DEF Right, Opening, Started
    <2> QED
        BY <1>0, <2>3 DEF Inv
<1>13. ASSUME NEW p \in Peers, Connects(p) PROVE Inv'
    BY <1>0, <1>13, ConnectsKeeps
<1>14. ASSUME NEW p \in Peers, Tick(p) \/ EarlyTick(p) PROVE Inv'
    BY <1>7, <1>14 DEF Tick, EarlyTick, TimerRunsOut
<1> QED
    BY <1>2, <1>3, <1>4, <1>6, <1>9, <1>11, <1>12, <1>13, <1>14 DEF Next, Done

LEMMA InitInv == Init => Inv
<1> SUFFICES ASSUME Init PROVE Inv
    OBVIOUS
<1> DEFINE fresh == [p \in Peers |-> NewPeer(SendCapacity, RecvCapacity, ISN[p])]
           c == Client
           q == Other(c)
           x == fresh[c]
           z == fresh[q]
           step == PeerPush(x)
           y == step.peer
           new == Members(step.out)
           s == x.sender
           v == z.sender
           r == z.receiver
           t == PushAll(s).sender
           out == PushAll(s).out
<1>0. TypeInv
    BY InitTypeInv
<1>1. /\ c \in Peers /\ q \in Peers /\ q # c /\ Other(q) = c
      /\ \A p \in Peers : p = c \/ p = q
    BY ConnectionConstants, TwoPeers
<1>2. /\ peer = [fresh EXCEPT ![c] = y]
      /\ net = [p \in Peers |-> IF p = c THEN << >> ELSE step.out]
      /\ connected = {}
    BY DEF Init
<1>3. peer[c] = y /\ peer[q] = z /\ net[c] = << >> /\ net[q] = step.out
    BY <1>1, <1>2
<1>4. /\ ISN[c] \in 0 .. Modulus - 1 /\ ISN[q] \in 0 .. Modulus - 1
      /\ Supply[c] \in Nat /\ Supply[q] \in Nat
    BY <1>1, ConnectionConstants
<1>5. /\ s = NewSender(SendCapacity, ISN[c]) /\ x.receiver = NewReceiver(RecvCapacity)
      /\ v = NewSender(SendCapacity, ISN[q]) /\ r = NewReceiver(RecvCapacity)
    BY <1>1 DEF NewPeer
<1>6. PeerSound(x) /\ PeerSound(z)
    BY <1>1, <1>4, NewPeerSound
<1>7. /\ StepSound(step) /\ y.sender = t /\ y.receiver = x.receiver
      /\ Carry(step.out, Members(out), ReceiverSend(x.receiver))
    BY <1>6, PeerPushSound
<1> HIDE DEF fresh, q, step, x, z, s, v, r, t, out
<1>8. /\ SenderSound(s) /\ SenderSound(t) /\ SenderSound(v)
      /\ ReceiverSound(r) /\ y.receiver = r
    BY <1>5, <1>6, <1>7 DEF PeerSound, StepSound, s, v, r
<1>9. /\ SendRight(s, WindowEdge(r.reasm)) /\ RecvRight(r, s)
      /\ Idle(s) /\ s.exp = 0 /\ s.last = 0 /\ s.ost = {} /\ ~r.init
    BY <1>4, <1>5, NewRight
<1>10. /\ SendRight(v, WindowEdge(r.reasm)) /\ RecvRight(r, v)
       /\ Idle(v) /\ v.exp = 0 /\ v.last = 0 /\ v.ost = {} /\ ~r.init
    BY <1>4, <1>5, NewRight
<1>11. Members(<< >>) = {}
    <2>1. Len(<< >>) = 0
        OBVIOUS
    <2> QED
        BY <2>1 DEF Members
<1> DEFINE edge == WindowEdge(r.reasm)
<1>12. edge \in Nat
    BY <1>8, ReceiverNumbers
<1> HIDE DEF edge
<1>13. /\ SendRight(t, edge) /\ Advances(s, t) /\ t.exp # 0 /\ t.last = s.last
       /\ t.input.pushed = s.input.pushed /\ t.input.closed = s.input.closed
       /\ \A m \in Members(out) : Sent(m, t, edge)
       /\ Idle(s) => /\ s.exp <= 1 => t.exp <= 1
                     /\ \A m \in Members(out) : m.SYN
                     /\ \A e \in t.ost : e \in s.ost \/ e.msg.SYN
    <2>1. t = PushAll(s).sender /\ out = PushAll(s).out /\ SendRight(s, edge)
        BY <1>9 DEF t, out, edge
    <2> QED
        BY <1>8, <1>12, <2>1, PushAllRight
<1>14. \A d \in new : /\ Sent(d.sender, t, edge) /\ d.sender.SYN
                      /\ d.receiver = ReceiverSend(r)
    BY <1>7, <1>8, <1>9, <1>13 DEF Carry
<1> HIDE DEF new, y
<1>15. Right(c)
    <2>1. RecvRight(r, t)
        BY <1>8, <1>9, <1>13, RecvStays
    <2>2. Agree(t, r, new, {}, Supply[c])
        BY <1>4, <1>9, <1>13, <1>14, <2>1 DEF Agree, Idle, edge
    <2> QED
        BY <1>3, <1>7, <1>11, <2>2 DEF Right, new, q, r
<1>16. Right(q)
    <2>1. \A d \in new : AckRight(d.receiver, r, v)
        BY <1>8, <1>10, <1>14, ReceiverSendRight
    <2>2. Agree(v, r, {}, new, Supply[q])
        BY <1>4, <1>10, <2>1 DEF Agree, Idle
    <2> QED
        BY <1>1, <1>3, <1>8, <1>11, <2>2 DEF Right, new, v
<1>17. Opening(c)
    <2>1. Young(t, r, new, FALSE, TRUE)
        BY <1>9, <1>13, <1>14 DEF Young, Idle
    <2> QED
        BY <1>2, <1>3, <1>7, <2>1 DEF Opening, Started, Young, new, q, r
<1>18. Opening(q)
    <2>1. Young(v, r, {}, FALSE, FALSE)
        BY <1>10 DEF Young
    <2>2. q # Client /\ ~peer[q].receiver.init
        BY <1>1, <1>3, <1>10 DEF r
    <2> QED
        BY <1>1, <1>2, <1>3, <1>8, <1>11, <2>1, <2>2
        DEF Opening, Started, Young, v
<1> QED
    BY <1>0, <1>1, <1>15, <1>16, <1>17, <1>18 DEF Inv

-----------------------------------------------------------------------------
(***************************************************************************)
(* What follows from it.                                                   *)
(***************************************************************************)
\* The invariant holds as long as no SYN comes late.
LEMMA SpecInv ==
    ASSUME SupplyIsShort
    PROVE  Spec /\ []NoLateSyn => []Inv
<1>1. Inv /\ [Next]_vars /\ NoLateSyn => Inv'
    BY NextInv
<1> QED
    BY <1>1, InitInv, PTL DEF Spec

\* A reader gets the partner's stream byte for byte, whatever is lost, sent
\* again or overtaken, and its stream is closed only at the end of the
\* partner's.  Assumed are streams short enough for their numbers to be told
\* apart, and that no SYN comes late, as in DelayedSyn.
THEOREM ReaderSafe ==
    ASSUME SupplyIsShort
    PROVE  Spec /\ []NoLateSyn => []ReaderGetsTheStream
<1>1. Inv => ReaderGetsTheStream
    <2> SUFFICES ASSUME Inv, NEW p \in Peers
                 PROVE  LET in  == Inbound(peer[p])
                            sent == peer[Other(p)].sender.input
                        IN  /\ in.pushed <= sent.popped
                            /\ in.buf = [i \in 1 .. in.pushed - in.popped |->
                                            in.popped + i - 1]
                            /\ in.closed => sent.closed /\ in.pushed = sent.pushed
        BY DEF ReaderGetsTheStream
    <2> DEFINE in == Inbound(peer[p])
               r == peer[p].receiver
               s == peer[Other(p)].sender
    <2>1. SenderSound(s) /\ RecvRight(r, s) /\ in = r.reasm.output
        BY InvSays DEF Inbound
    <2>2. /\ InPlace(in) /\ in.pushed = r.reasm.next
          /\ r.reasm.next <= s.input.popped
          /\ in.closed => r.reasm.hasLast /\ r.reasm.next = s.input.popped
          /\ r.reasm.hasLast => s.finSent
        BY <2>1 DEF RecvRight, Streams
    <2>3. s.finSent => s.input.closed /\ s.input.pushed = s.input.popped
        <3>1. s.finSent => s.input.closed /\ Buffered(s.input) = 0
            BY <2>1 DEF SenderSound
        <3>2. s.input.pushed = s.input.popped + Buffered(s.input) /\ s.input.popped \in Nat
            BY <2>1, SenderNumbers
        <3> QED
            BY <3>1, <3>2
    <2> HIDE DEF in, r, s
    <2>4. in.buf = [i \in 1 .. in.pushed - in.popped |-> in.popped + i - 1]
        <3>1. /\ in.buf \in Seq(Nat) /\ in.popped \in Nat /\ Len(in.buf) \in Nat
              /\ in.pushed = in.popped + Len(in.buf)
            BY <2>2, InPlaceNumbers DEF Buffered
        <3>2. \A i \in 1 .. Len(in.buf) : in.buf[i] = in.popped + i - 1
            BY <2>2 DEF InPlace
        <3>3. in.pushed - in.popped = Len(in.buf)
            BY <3>1
        <3>4. in.buf = [i \in 1 .. Len(in.buf) |-> in.buf[i]]
            BY <3>1, LenProperties
        <3> QED
            BY <3>2, <3>3, <3>4
    <2> QED
        BY <2>2, <2>3, <2>4 DEF in, s
<1> QED
    BY <1>1, SpecInv, PTL

\* Nothing that waits in a reassembler has been cut at the window's edge: a
\* partner never sends beyond a window it has been told.
THEOREM NothingCut ==
    ASSUME SupplyIsShort
    PROVE  Spec /\ []NoLateSyn => []NothingWaitsCut
<1>1. Inv => NothingWaitsCut
    <2> SUFFICES ASSUME Inv, NEW p \in Peers, NEW x \in peer[p].receiver.reasm.segs
                 PROVE  x.end - x.begin = Len(x.data)
        BY DEF NothingWaitsCut
    <2> DEFINE r == peer[p].receiver
               s == peer[Other(p)].sender
    <2>1. RecvRight(r, s) /\ ReceiverSound(r)
        BY InvSays
    <2>2. x.end = x.begin + Len(x.data)
        BY <2>1 DEF RecvRight, Streams, SegRight
    <2>3. x \in SegType
        BY <2>1 DEF ReceiverSound, ReceiverType, ReassemblerType
    <2>4. x.begin \in Nat /\ Len(x.data) \in Nat
        BY <2>3, LenProperties DEF SegType
    <2> QED
        BY <2>2, <2>4
<1> QED
    BY <1>1, SpecInv, PTL

-----------------------------------------------------------------------------
(***************************************************************************)
(* A network that loses but keeps the order: no SYN comes late there.  The *)
(* client answers without an ackno until it has the server's SYN, and with *)
(* one ever after; the server connects only with an answer of the second   *)
(* kind, so all those of the first are gone by then.                       *)
(***************************************************************************)
Acked(n) == \A d \in Members(n) : d.receiver.hasAck

AckedLast(n) ==
    \A i, j \in 1 .. Len(n) : i < j /\ n[i].receiver.hasAck => n[j].receiver.hasAck

OrderHolds ==
    LET server == Other(Client)
    IN  /\ budget.delay = 0
        /\ Acked(net[Client])
        /\ AckedLast(net[server])
        /\ peer[server].sender.last > 0 \/ server \in connected => Acked(net[server])

\* The first of them is gone.
LEMMA AckedTail ==
    ASSUME NEW n \in Seq(Datagram), n # << >>
    PROVE  /\ Acked(n) => Acked(Tail(n))
           /\ AckedLast(n) => AckedLast(Tail(n))
           /\ AckedLast(n) /\ Head(n).receiver.hasAck => Acked(Tail(n))
<1>1. Len(n) \in Nat /\ Len(n) > 0
    BY EmptySeq, LenProperties
<1>2. Head(n) = n[1] /\ Tail(n) \in Seq(Datagram)
      /\ Len(Tail(n)) = Len(n) - 1
      /\ \A i \in 1 .. Len(Tail(n)) : Tail(n)[i] = n[i + 1]
    BY <1>1, HeadTailProperties
<1> DEFINE t == Tail(n)
           h == Head(n)
           len == Len(n)
<1>3. /\ len \in Nat /\ len > 0 /\ h = n[1] /\ Len(t) = len - 1
      /\ \A i \in 1 .. len - 1 : t[i] = n[i + 1]
    BY <1>1, <1>2
<1>4. Members(t) = {t[i] : i \in 1 .. len - 1} /\ Members(n) = {n[i] : i \in 1 .. len}
    BY <1>3 DEF Members
<1>5. AckedLast(t) <=> \A i, j \in 1 .. len - 1 :
            i < j /\ t[i].receiver.hasAck => t[j].receiver.hasAck
    BY <1>3 DEF AckedLast
<1>6. AckedLast(n) <=> \A i, j \in 1 .. len :
            i < j /\ n[i].receiver.hasAck => n[j].receiver.hasAck
    BY DEF AckedLast
<1> HIDE DEF t, h, len
<1>7. \A i \in 1 .. len - 1 : i + 1 \in 1 .. len /\ 1 < i + 1
    BY <1>3
<1>8. Acked(n) => Acked(t)
    BY <1>3, <1>4, <1>7 DEF Acked
<1>9. ASSUME AckedLast(n) PROVE AckedLast(t)
    <2> SUFFICES ASSUME NEW i \in 1 .. len - 1, NEW j \in 1 .. len - 1, i < j,
                        t[i].receiver.hasAck
                 PROVE  t[j].receiver.hasAck
        BY <1>5
    <2>1. i + 1 < j + 1 /\ i + 1 \in 1 .. len /\ j + 1 \in 1 .. len
        BY <1>7
    <2> QED
        BY <1>3, <1>6, <1>9, <2>1
<1>10. ASSUME AckedLast(n), h.receiver.hasAck PROVE Acked(t)
    <2> SUFFICES ASSUME NEW i \in 1 .. len - 1 PROVE t[i].receiver.hasAck
        BY <1>4 DEF Acked
    <2>1. 1 \in 1 .. len /\ i + 1 \in 1 .. len /\ 1 < i + 1
        BY <1>3, <1>7
    <2> QED
        BY <1>3, <1>6, <1>10, <2>1
<1> QED
    BY <1>8, <1>9, <1>10 DEF t, h

\* More have come.
LEMMA AckedMore ==
    ASSUME NEW n \in Seq(Datagram), NEW out \in Seq(Datagram), AckedLast(n),
           Acked(out) \/ \A d \in Members(n) \cup Members(out) : ~d.receiver.hasAck
    PROVE  AckedLast(n \o out)
<1> DEFINE c == n \o out
           a == Len(n)
           b == Len(out)
<1>1. a \in Nat /\ b \in Nat
    BY LenProperties
<1>2. /\ Len(c) = a + b
      /\ \A i \in 1 .. a + b : c[i] = IF i <= a THEN n[i] ELSE out[i - a]
    BY ConcatProperties
<1>3. \A i \in 1 .. a : n[i] \in Members(n)
    BY DEF Members
<1>4. \A i \in 1 .. b : out[i] \in Members(out)
    BY DEF Members
<1>5. \A i, j \in 1 .. a : i < j /\ n[i].receiver.hasAck => n[j].receiver.hasAck
    BY DEF AckedLast
<1> HIDE DEF c, a, b
<1> SUFFICES ASSUME NEW i \in 1 .. a + b, NEW j \in 1 .. a + b, i < j,
                    c[i].receiver.hasAck
             PROVE  c[j].receiver.hasAck
    BY <1>2 DEF AckedLast, c
<1>6. CASE j <= a
    <2>1. i \in 1 .. a /\ j \in 1 .. a /\ c[i] = n[i] /\ c[j] = n[j]
        BY <1>1, <1>2, <1>6
    <2> QED
        BY <1>5, <2>1
<1>7. CASE ~(j <= a)
    <2>1. j - a \in 1 .. b /\ c[j] = out[j - a]
        BY <1>1, <1>2, <1>7
    <2>2. c[j] \in Members(out)
        BY <1>4, <2>1
    <2>3. c[i] \in Members(n) \cup Members(out)
        <3>1. CASE i <= a
            <4>1. i \in 1 .. a /\ c[i] = n[i]
                BY <1>1, <1>2, <3>1
            <4> QED
                BY <1>3, <4>1
        <3>2. CASE ~(i <= a)
            <4>1. i - a \in 1 .. b /\ c[i] = out[i - a]
                BY <1>1, <1>2, <3>2
            <4> QED
                BY <1>4, <4>1
        <3> QED
            BY <3>1, <3>2
    <2> QED
        BY <2>2, <2>3 DEF Acked
<1> QED
    BY <1>6, <1>7

\* A step of peer p keeps the order.
LEMMA OrderKept ==
    ASSUME Inv, Inv', OrderHolds, NEW p \in Peers, NEW out \in Seq(Datagram),
           NEW q, q = Other(p), peer'[q] = peer[q], connected' = connected,
           budget'.delay = 0,
           \A d \in Members(out) : d.receiver.hasAck = peer'[p].receiver.init,
           net'[q] = net[q] \o out,
           \/ /\ net'[p] = net[p]
              /\ peer'[p].sender.last \in {0, peer[p].sender.last}
           \/ /\ net[p] # << >> /\ net'[p] = Tail(net[p])
              /\ \/ peer'[p].sender.last \in {0, peer[p].sender.last}
                 \/ Head(net[p]).receiver.hasAck
    PROVE  OrderHolds'
<1> DEFINE x == peer[p].sender
           y == peer'[p].sender
           n == net[p]
           m == net[q]
           u == peer'[p].receiver
<1>1. q \in Peers /\ q # p /\ Other(q) = p /\ Client \in Peers
    BY ConnectionConstants, TwoPeers
<1>2. n \in Seq(Datagram) /\ m \in Seq(Datagram)
    BY <1>1 DEF Inv, TypeInv
<1>3. Members(m \o out) = Members(m) \cup Members(out)
    BY <1>2, MembersOfBoth
<1>4. u.init \in BOOLEAN /\ SenderSound(x) /\ SenderSound(y)
    BY <1>1 DEF Inv, TypeInv, PeerSound, PeerType, ReceiverType
<1>5. x.last \in Nat /\ y.last \in Nat
    BY <1>4, SenderNumbers
<1>6. u.init => Acked(out)
    BY DEF Acked
<1>7. ~u.init => \A d \in Members(m \o out) : ~d.receiver.hasAck
    <2>1. Right(q)'
        BY <1>1 DEF Inv
    <2>2. \A d \in Members(net'[q]) : AckRight(d.receiver, u, peer'[q].sender)
        BY <1>1, <2>1 DEF Right, Agree
    <2>3. \A d \in Members(m \o out) : d.receiver.hasAck => u.init
        BY <2>2 DEF AckRight
    <2> QED
        BY <2>3
<1>8. CASE p = Client
    <2>1. q = Other(Client)
        BY <1>8
    <2>2. /\ Acked(n) /\ AckedLast(m)
          /\ peer[q].sender.last > 0 \/ q \in connected => Acked(m)
        BY <1>8, <2>1 DEF OrderHolds
    <2>3. Acked(net'[p])
        BY <1>2, <2>2, AckedTail
    <2>4. AckedLast(net'[q])
        <3>1. Acked(out) \/ \A d \in Members(m) \cup Members(out) : ~d.receiver.hasAck
            BY <1>3, <1>6, <1>7
        <3> HIDE DEF m
        <3>2. AckedLast(m \o out)
            BY <1>2, <2>2, <3>1, AckedMore
        <3> QED
            BY <3>2 DEF m
    <2>5. ASSUME peer[q].sender.last > 0 \/ q \in connected
          PROVE  Acked(net'[q])
        <3>1. Opening(q)'
            BY <1>1 DEF Inv
        <3>2. u.init
            <4>1. ~u.init => peer'[q].sender.last = 0 /\ q \notin connected'
                BY <1>1, <3>1 DEF Opening, Young
            <4> QED
                BY <2>5, <4>1
        <3> QED
            BY <1>3, <1>6, <2>2, <2>5, <3>2 DEF Acked
    <2> QED
        BY <1>8, <2>1, <2>3, <2>4, <2>5 DEF OrderHolds
<1>9. CASE p # Client
    <2>1. q = Client /\ p = Other(Client)
        BY <1>1, <1>9, TwoPeers
    <2>2. /\ Acked(m) /\ AckedLast(n)
          /\ x.last > 0 \/ p \in connected => Acked(n)
        BY <2>1 DEF OrderHolds
    <2>3. Acked(net'[q])
        <3>1. CASE u.init
            BY <1>3, <1>6, <2>2, <3>1 DEF Acked
        <3>2. CASE ~u.init
            <4>1. Opening(p)'
                BY DEF Inv
            <4>2. Members(net'[q]) = {}
                BY <1>9, <3>2, <4>1 DEF Opening, Young, Started
            <4> QED
                BY <4>2 DEF Acked
        <3> QED
            BY <3>1, <3>2
    <2>4. AckedLast(net'[p])
        BY <1>2, <2>2, AckedTail
    <2>5. ASSUME y.last > 0 \/ p \in connected
          PROVE  Acked(net'[p])
        <3>1. CASE x.last > 0 \/ p \in connected
            BY <1>2, <2>2, <3>1, AckedTail
        <3>2. CASE ~(x.last > 0 \/ p \in connected)
            <4>1. y.last \notin {0, x.last}
                BY <1>5, <2>5, <3>2
            <4>2. n # << >> /\ net'[p] = Tail(n) /\ Head(n).receiver.hasAck
                BY <4>1
            <4> QED
                BY <1>2, <2>2, <4>2, AckedTail
        <3> QED
            BY <3>1, <3>2
    <2> QED
        BY <2>1, <2>3, <2>4, <2>5 DEF OrderHolds
<1> QED
    BY <1>8, <1>9

LEMMA InOrderOpens == Inv /\ OrderHolds => NoLateSyn
<1> SUFFICES ASSUME Inv, OrderHolds, NEW p \in Peers, NEW i \in DOMAIN net[p],
                    ~net[p][i].receiver.hasAck
             PROVE  p \notin connected
    BY DEF NoLateSyn
<1>1. net[p] \in Seq(Datagram)
    BY DEF Inv, TypeInv
<1>2. net[p][i] \in Members(net[p])
    BY <1>1, LenProperties DEF Members
<1>3. ~Acked(net[p])
    BY <1>2 DEF Acked
<1> QED
    BY <1>3, TwoPeers, ConnectionConstants DEF OrderHolds

\* What p says has an ackno once its receiver has the SYN.
LEMMA SaysAckno ==
    ASSUME NEW p, NEW y, NEW out, GoesOn(p, y, Members(out)),
           peer'[p] = y
    PROVE  \A d \in Members(out) : d.receiver.hasAck = peer'[p].receiver.init
BY DEF GoesOn, ReceiverSend

\* What p does, with the other peer left alone.
LEMMA DoesInOrder ==
    ASSUME Inv, Inv', OrderHolds, NEW p \in Peers, NEW step, StepSound(step),
           Does(p, step), connected' = connected, budget'.delay = 0,
           GoesOn(p, step.peer, Members(step.out)),
           step.peer.sender.last = peer[p].sender.last
    PROVE  OrderHolds'
<1> DEFINE q == Other(p)
<1>1. q \in Peers /\ q # p
    BY TwoPeers
<1>2. peer \in [Peers -> PeerType] /\ net \in [Peers -> Seq(Datagram)]
    BY DEF Inv, TypeInv
<1>3. /\ peer'[p] = step.peer /\ peer'[q] = peer[q]
      /\ net'[p] = net[p] /\ net'[q] = net[q] \o step.out
    BY <1>1, <1>2 DEF Does
<1>4. \A d \in Members(step.out) : d.receiver.hasAck = peer'[p].receiver.init
    BY <1>3, SaysAckno
<1>5. step.out \in Seq(Datagram)
    BY DEF StepSound
<1> HIDE DEF q
<1>6. q = Other(p)
    BY DEF q
<1>7. peer'[p].sender.last \in {0, peer[p].sender.last}
    BY <1>3
<1> QED
    BY <1>3, <1>4, <1>5, <1>6, <1>7, OrderKept

\* Or nothing is sent.
LEMMA QuietInOrder ==
    ASSUME Inv, Inv', OrderHolds, NEW p \in Peers, connected' = connected,
           budget'.delay = 0, peer'[Other(p)] = peer[Other(p)],
           net'[Other(p)] = net[Other(p)],
           peer'[p].sender.last = peer[p].sender.last,
           net'[p] = net[p] \/ (net[p] # << >> /\ net'[p] = Tail(net[p]))
    PROVE  OrderHolds'
<1> DEFINE q == Other(p)
           none == << >>
<1>1. q \in Peers /\ net[q] \in Seq(Datagram)
    <2>1. q \in Peers
        BY TwoPeers
    <2>2. TypeInv
        BY DEF Inv
    <2>3. net \in [Peers -> Seq(Datagram)]
        BY <2>2 DEF TypeInv
    <2> HIDE DEF q
    <2> QED
        BY <2>1, <2>3
<1>2. net[q] \o none = net[q] /\ none \in Seq(Datagram)
    BY <1>1, ConcatEmptySeq
<1>3. Members(none) = {}
    <2>1. Len(none) = 0
        OBVIOUS
    <2> HIDE DEF none
    <2> QED
        BY <2>1 DEF Members
<1>4. /\ peer'[q] = peer[q] /\ net'[q] = net[q] \o none /\ q = Other(p)
      /\ peer'[p].sender.last \in {0, peer[p].sender.last}
    BY <1>2
<1> HIDE DEF none, q
<1>5. \A d \in Members(none) : d.receiver.hasAck = peer'[p].receiver.init
    BY <1>3
<1> QED
    BY <1>2, <1>4, <1>5, OrderKept

LEMMA NextInOrder ==
    ASSUME SupplyIsShort, Inv, OrderHolds, [Next]_vars
    PROVE  Inv' /\ OrderHolds'
<1>0. NoLateSyn /\ Inv'
    BY InOrderOpens, NextInv
<1>1. /\ peer \in [Peers -> PeerType] /\ \A p \in Peers : PeerSound(peer[p])
      /\ \A p \in Peers : net[p] \in Seq(Datagram)
      /\ net' \in [Peers -> Seq(Datagram)] /\ net \in [Peers -> Seq(Datagram)]
      /\ TypeInv /\ budget \in BudgetType
    BY <1>0 DEF Inv, TypeInv
<1>2. budget.delay = 0
    BY DEF OrderHolds
<1>3. ASSUME NEW p \in Peers, Deliver(p) PROVE OrderHolds'
    <2> DEFINE d == Head(net[p])
               step == PeerReceive(peer[p], d)
               q == Other(p)
               out == step.out
    <2>1. /\ d \in Datagram /\ d \in Members(net[p]) /\ q \in Peers /\ q # p
          /\ net[p] # << >>
        BY <1>1, <1>3, NetWithoutFirst, TwoPeers DEF Deliver, MayDeliver
    <2>2. d.receiver.hasAck \/ p \notin connected
        <3>1. PICK i \in 1 .. Len(net[p]) : d = net[p][i]
            BY <2>1 DEF Members
        <3>2. i \in DOMAIN net[p]
            BY <1>1, LenProperties
        <3> QED
            BY <1>0, <3>1, <3>2 DEF NoLateSyn
    <2>3. /\ GoesOn(p, step.peer, Members(out))
          /\ step.peer.sender.last \in {0, peer[p].sender.last} \/ d.receiver.hasAck
        <3> HIDE DEF d
        <3> QED
            BY <2>1, <2>2, ReceiveGoesOn
    <2>4. StepSound(step)
        BY <1>1, <2>1, PeerReceiveSound
    <2>5. /\ peer' = [peer EXCEPT ![p] = step.peer]
          /\ net' = [net EXCEPT ![p] = Tail(@), ![q] = @ \o step.out]
          /\ connected' = connected /\ budget' = budget
        BY <1>3 DEF Deliver
    <2> HIDE DEF step, q
    <2>6. /\ net'[p] = Tail(net[p]) /\ net'[q] = net[q] \o out
          /\ peer'[p] = step.peer /\ peer'[q] = peer[q] /\ q = Other(p)
        BY <1>1, <2>1, <2>5 DEF q
    <2>7. \A e \in Members(out) : e.receiver.hasAck = peer'[p].receiver.init
        BY <2>3, <2>6, SaysAckno
    <2>8. out \in Seq(Datagram)
        BY <2>4 DEF StepSound
    <2>9. \/ peer'[p].sender.last \in {0, peer[p].sender.last}
          \/ Head(net[p]).receiver.hasAck
        BY <2>3, <2>6
    <2> HIDE DEF out, d
    <2>10. budget'.delay = 0
        BY <1>2, <2>5
    <2> QED
        BY ZenonT(30), <1>0, <2>1, <2>5, <2>6, <2>7, <2>8, <2>9, <2>10, OrderKept
<1>4. ASSUME NEW p \in Peers, NEW n \in 1 .. SendCapacity, Write(p, n) PROVE OrderHolds'
    <2> DEFINE f == peer[p].sender.input
               w == Written(f, n)
               step == PeerPush(WithInput(p, w))
    <2>1. /\ ~f.closed /\ p \in connected /\ Does(p, step) /\ connected' = connected
          /\ f.pushed + n <= Supply[p] /\ budget' = budget
        BY <1>4 DEF Write, MayWrite, Written
    <2>2. InPlace(f) /\ ~peer[p].sender.finSent /\ PeerSound(WithInput(p, w))
        BY <1>1, <2>1, WriterSound
    <2>3. StepSound(step)
        BY <2>2, PeerPushSound
    <2>4. /\ InPlace(w) /\ w.popped = f.popped
          /\ w.error = f.error /\ w.pushed <= f.pushed + n
        BY <2>2, WrittenInPlace
    <2>5. w.pushed <= Supply[p]
        <3> DEFINE k == w.pushed
                   m == f.pushed
        <3>1. k \in Nat /\ m \in Nat /\ Supply[p] \in Nat
            BY <2>2, <2>4, InPlaceNumbers, ConnectionConstants
        <3>2. k <= m + n /\ m + n <= Supply[p]
            BY <2>1, <2>4
        <3> HIDE DEF k, m
        <3>3. k <= Supply[p]
            BY <3>1, <3>2
        <3> QED
            BY <3>3 DEF k
    <2> HIDE DEF w
    <2>6. /\ GoesOn(p, step.peer, Members(step.out))
          /\ step.peer.sender.last = peer[p].sender.last
        BY <2>1, <2>2, <2>4, <2>5, PushGoesOn
    <2> HIDE DEF step
    <2> QED
        BY <1>0, <1>2, <2>1, <2>3, <2>6, DoesInOrder
<1>5. ASSUME NEW p \in Peers, CloseOutbound(p) PROVE OrderHolds'
    <2> DEFINE f == peer[p].sender.input
               w == Close(f)
               step == PeerPush(WithInput(p, w))
    <2>1. /\ ~f.closed /\ p \in connected /\ Does(p, step) /\ connected' = connected
          /\ budget' = budget
        BY <1>5 DEF CloseOutbound, MayClose, MayWrite
    <2>2. InPlace(f) /\ ~peer[p].sender.finSent /\ PeerSound(WithInput(p, w))
        BY <1>1, <2>1, WriterSound
    <2>3. StepSound(step)
        BY <2>2, PeerPushSound
    <2>4. /\ InPlace(w) /\ w.popped = f.popped
          /\ w.error = f.error /\ w.pushed = f.pushed
        BY <2>2, MarksInPlace
    <2>5. w.pushed <= Supply[p]
        BY <2>4, InvSays
    <2> HIDE DEF w
    <2>6. /\ GoesOn(p, step.peer, Members(step.out))
          /\ step.peer.sender.last = peer[p].sender.last
        BY <2>1, <2>2, <2>4, <2>5, PushGoesOn
    <2> HIDE DEF step
    <2> QED
        BY <1>0, <1>2, <2>1, <2>3, <2>6, DoesInOrder
<1>6. ASSUME NEW p \in Peers, Tick(p) \/ EarlyTick(p) PROVE OrderHolds'
    <2> DEFINE step == PeerTick(peer[p])
    <2>1. Does(p, step) /\ connected' = connected
        BY <1>6 DEF Tick, EarlyTick, TimerRunsOut
    <2>2. budget'.delay = 0
        BY <1>1, <1>2, <1>6 DEF Tick, EarlyTick, BudgetType
    <2>3. StepSound(step)
        BY <1>1, PeerTickSound
    <2>4. /\ GoesOn(p, step.peer, Members(step.out))
          /\ step.peer.sender.last = peer[p].sender.last
        BY TickGoesOn
    <2> HIDE DEF step
    <2> QED
        BY <1>0, <2>1, <2>2, <2>3, <2>4, DoesInOrder
<1>7. ASSUME NEW p \in Peers, Read(p) \/ LingerExpires(p) PROVE OrderHolds'
    <2> DEFINE q == Other(p)
    <2>1. q \in Peers /\ q # p
        BY TwoPeers
    <2>2. net' = net /\ connected' = connected /\ budget' = budget
        BY <1>7 DEF Read, LingerExpires
    <2>3. peer'[p].sender = peer[p].sender /\ peer'[q] = peer[q]
        <3>1. CASE Read(p)
            <4>1. PICK n \in 1 .. Buffered(Inbound(peer[p])) :
                      peer' = [peer EXCEPT ![p].receiver.reasm.output = Pop(@, n)]
                BY <3>1 DEF Read
            <4> QED
                BY <1>1, <2>1, <4>1 DEF PeerType
        <3>2. CASE LingerExpires(p)
            BY <1>1, <2>1, <3>2 DEF LingerExpires, PeerType
        <3> QED
            BY <1>7, <3>1, <3>2
    <2>4. /\ connected' = connected /\ budget'.delay = 0
          /\ peer'[Other(p)] = peer[Other(p)] /\ net'[Other(p)] = net[Other(p)]
          /\ peer'[p].sender.last = peer[p].sender.last
          /\ net'[p] = net[p] \/ (net[p] # << >> /\ net'[p] = Tail(net[p]))
        BY <1>2, <2>2, <2>3
    <2> HIDE DEF q
    <2> USE <1>0, <2>4
    <2>5. Inv /\ Inv' /\ OrderHolds /\ p \in Peers
        OBVIOUS
    <2> QED
        BY <2>4, <2>5, QuietInOrder
<1>8. ASSUME NEW p \in Peers, Lose(p) PROVE OrderHolds'
    <2>1. /\ peer' = peer /\ connected' = connected /\ net[p] # << >>
          /\ net' = [net EXCEPT ![p] = Tail(@)]
          /\ budget' = [budget EXCEPT !.loss = @ - 1]
        BY <1>8 DEF Lose
    <2>2. budget'.delay = 0
        BY <1>1, <1>2, <2>1 DEF BudgetType
    <2>3. net'[p] = Tail(net[p]) /\ net'[Other(p)] = net[Other(p)]
        BY <1>1, <2>1, TwoPeers
    <2> QED
        BY <1>0, <2>1, <2>2, <2>3, QuietInOrder
<1>9. ASSUME NEW p \in Peers, Delay(p) PROVE FALSE
    BY <1>2, <1>9 DEF Delay
<1>10. ASSUME NEW p \in Peers, Connects(p) PROVE OrderHolds'
    <2> DEFINE q == Other(Client)
               s == peer[q].sender
    <2>1. /\ peer' = peer /\ net' = net /\ budget' = budget
          /\ connected' = connected \cup {p} /\ MayConnect(p)
        BY <1>10 DEF Connects
    <2>2. q \in Peers /\ q # Client
        BY TwoPeers, ConnectionConstants
    <2>3. ASSUME p = q PROVE s.last > 0
        <3>1. InFlight(s) = 0 /\ peer[q].receiver.init
            BY <2>1, <2>2, <2>3 DEF MayConnect, HasAckno, ReceiverSend
        <3>2. s.exp # 0
            BY <2>2, <3>1 DEF Inv, Opening, Young, Started
        <3>3. SenderSound(s)
            BY <1>1, <2>2 DEF PeerSound
        <3> HIDE DEF s
        <3>4. s.exp \in Nat /\ s.last \in Nat
            BY <3>3, SenderNumbers
        <3> QED
            BY <3>1, <3>2, <3>4 DEF InFlight
    <2>4. /\ Acked(net[Client]) /\ AckedLast(net[q])
          /\ s.last > 0 \/ q \in connected => Acked(net[q])
        BY DEF OrderHolds
    <2>5. s.last > 0 \/ q \in connected' => Acked(net[q])
        BY <2>1, <2>3, <2>4
    <2> QED
        BY <1>2, <2>1, <2>4, <2>5 DEF OrderHolds
<1>11. ASSUME UNCHANGED vars PROVE OrderHolds'
    <2>1. peer' = peer /\ net' = net /\ connected' = connected /\ budget' = budget
        BY <1>11 DEF vars
    <2> QED
        BY <2>1 DEF OrderHolds
<1> QED
    BY <1>0, <1>3, <1>4, <1>5, <1>6, <1>7, <1>8, <1>9, <1>10, <1>11 DEF Next, Done

\* A network that keeps the order: no budget lets a datagram be overtaken.
NothingOvertakes == \A b \in Budgets : b.delay = 0

LEMMA InitInOrder == ASSUME NothingOvertakes PROVE Init => OrderHolds
<1> SUFFICES ASSUME Init PROVE OrderHolds
    OBVIOUS
<1> DEFINE q == Other(Client)
           n == net[q]
<1>1. Inv /\ q \in Peers /\ q # Client /\ Client \in Peers /\ Other(q) = Client
    BY InitInv, TwoPeers, ConnectionConstants
<1>2. budget.delay = 0 /\ connected = {}
    BY DEF Init, NothingOvertakes
<1>3. net[Client] = << >> /\ Members(<< >>) = {}
    <2>1. Len(<< >>) = 0
        OBVIOUS
    <2> QED
        BY <1>1, <2>1 DEF Init, Members
<1>4. ~peer[Client].receiver.init
    <2>1. peer[Client].receiver = NewReceiver(RecvCapacity)
        <3> DEFINE isn == ISN[Client]
                   x == NewPeer(SendCapacity, RecvCapacity, isn)
        <3>1. isn \in 0 .. Modulus - 1
            BY <1>1, ConnectionConstants
        <3> HIDE DEF isn
        <3>2. PeerSound(x) /\ x.receiver = NewReceiver(RecvCapacity)
            BY <3>1, NewPeerSound DEF NewPeer
        <3> HIDE DEF x
        <3>3. PeerPush(x).peer.receiver = x.receiver
            BY <3>2, PeerPushSound
        <3>4. peer[Client] = PeerPush(x).peer
            BY <1>1 DEF Init, x, isn
        <3> QED
            BY <3>2, <3>3, <3>4
    <2> QED
        BY <2>1 DEF NewReceiver
<1>5. Right(q) /\ Opening(q) /\ n \in Seq(Datagram)
    BY <1>1 DEF Inv, TypeInv
<1>6. \A d \in Members(n) : ~d.receiver.hasAck
    BY <1>1, <1>4, <1>5 DEF Right, Agree, AckRight
<1>7. peer[q].sender.last = 0
    BY <1>1, <1>4, <1>5 DEF Opening, Young
<1>8. AckedLast(n)
    BY <1>6 DEF AckedLast, Members
<1> QED
    BY <1>2, <1>3, <1>7, <1>8 DEF OrderHolds, Acked

\* In a network that keeps the order a reader gets the partner's stream, with
\* nothing assumed of the SYN: whatever is lost, and however early the timers
\* expire.
THEOREM ReaderSafeInOrder ==
    ASSUME SupplyIsShort, NothingOvertakes
    PROVE  Spec => []ReaderGetsTheStream
<1>1. Init => Inv /\ OrderHolds
    BY InitInv, InitInOrder
<1>2. (Inv /\ OrderHolds) /\ [Next]_vars => (Inv /\ OrderHolds)'
    BY NextInOrder
<1>3. Inv /\ OrderHolds => NoLateSyn
    BY InOrderOpens
<1>4. Spec => []NoLateSyn
    BY <1>1, <1>2, <1>3, PTL DEF Spec
<1> QED
    BY <1>4, ReaderSafe, PTL

-----------------------------------------------------------------------------
(***************************************************************************)
(* What the acknowledgements promise.  Applications close only what is     *)
(* acknowledged (CloseOnlyIdle): then the FIN finds all bytes arrived, and *)
(* closes the partner's stream when it comes.                              *)
(***************************************************************************)

(***************************************************************************)
(* What a sender and its partner's receiver promise one another.           *)
(***************************************************************************)
\* The sequence numbers a receiver has got: Received, of a record.
Got(r) == IF r.init THEN 1 + r.reasm.next + Flag(r.reasm.output.closed) ELSE 0

\* A message with the FIN carries nothing else.
Bare(m) == m.FIN => m.payload = << >>

\* An answer acknowledges nothing that the receiver has not got.
Acks(m, r, s) == m.hasAck => \E k \in 0 .. Got(r) : m.ackno = Wrap(k, s.isn)

\* A receiver has the FIN if and only if it has closed its stream, and what it
\* holds lies beyond the next byte it needs.
Tidy(r) ==
    /\ r.fin <=> r.reasm.output.closed
    /\ r.reasm.hasLast => r.reasm.output.closed
    /\ AllLater(r.reasm)

\* A sender sends the FIN with the close, when all else has arrived; and takes
\* nothing as acknowledged that has not.
Ends(s, r) ==
    /\ s.input.closed => s.finSent
    /\ s.finSent => r.init /\ r.reasm.next = s.input.popped /\ s.last > 0
    /\ s.last <= Got(r)
    /\ s.finAcked => r.reasm.output.closed
    /\ \A x \in s.ost : Bare(x.msg)

\* How a receiver goes on.
Moves(r, u) ==
    /\ r.init => u.init
    /\ r.reasm.next <= u.reasm.next
    /\ r.reasm.output.closed => u.reasm.output.closed

\* The numbers a receiver has got are numbers of the stream.
LEMMA GotNumbers ==
    ASSUME NEW s, SenderSound(s), NEW r, ReceiverSound(r), RecvRight(r, s)
    PROVE  /\ Got(r) \in Nat /\ Got(r) <= s.input.popped + 2
           /\ r.reasm.next \in Nat /\ r.reasm.next <= s.input.popped
           /\ r.reasm.output.closed \in BOOLEAN
           /\ r.init => Got(r) = 1 + r.reasm.next + Flag(r.reasm.output.closed)
           /\ ~r.init => Got(r) = 0
           /\ r.reasm.output.closed => s.finSent /\ r.reasm.next = s.input.popped
<1>1. s.input.popped \in Nat /\ r.reasm.next \in Nat /\ r.init \in BOOLEAN
    BY SenderNumbers, ReceiverNumbers
<1>2. /\ r.reasm.next <= s.input.popped /\ InPlace(r.reasm.output)
      /\ r.reasm.output.closed => r.reasm.hasLast /\ r.reasm.next = s.input.popped
      /\ r.reasm.hasLast => s.finSent
    BY DEF RecvRight, Streams
<1>3. r.reasm.output.closed \in BOOLEAN
    BY <1>2, InPlaceNumbers
<1>4. Flag(r.reasm.output.closed) \in {0, 1}
    BY DEF Flag
<1> QED
    BY <1>1, <1>2, <1>3, <1>4 DEF Got

\* A receiver that goes on has got no less.
LEMMA GotGrows ==
    ASSUME NEW s, SenderSound(s), NEW r, ReceiverSound(r), RecvRight(r, s),
           NEW u, ReceiverSound(u), RecvRight(u, s), Moves(r, u)
    PROVE  Got(r) <= Got(u)
<1>1. /\ Got(r) \in Nat /\ Got(u) \in Nat /\ r.reasm.next \in Nat /\ u.reasm.next \in Nat
      /\ r.init => Got(r) = 1 + r.reasm.next + Flag(r.reasm.output.closed)
      /\ ~r.init => Got(r) = 0
      /\ u.init => Got(u) = 1 + u.reasm.next + Flag(u.reasm.output.closed)
    BY GotNumbers
<1>2. Flag(r.reasm.output.closed) <= Flag(u.reasm.output.closed)
      /\ Flag(r.reasm.output.closed) \in {0, 1} /\ Flag(u.reasm.output.closed) \in {0, 1}
    BY DEF Flag, Moves
<1> QED
    BY <1>1, <1>2 DEF Moves

\* What a sender promises holds while the receiver goes on.
LEMMA EndsStay ==
    ASSUME NEW s, SenderSound(s), NEW r, ReceiverSound(r), RecvRight(r, s),
           NEW u, ReceiverSound(u), RecvRight(u, s), Moves(r, u), Ends(s, r)
    PROVE  Ends(s, u)
<1>1. Got(r) <= Got(u) /\ Got(r) \in Nat /\ Got(u) \in Nat
    BY GotGrows, GotNumbers
<1>2. /\ u.reasm.next \in Nat /\ u.reasm.next <= s.input.popped
      /\ r.reasm.next \in Nat /\ s.input.popped \in Nat
    BY GotNumbers, SenderNumbers
<1>3. s.last \in Nat
    BY SenderNumbers
<1>4. s.finSent => u.reasm.next = s.input.popped
    BY <1>2 DEF Ends, Moves
<1>5. s.last <= Got(u)
    BY <1>1, <1>3 DEF Ends
<1> QED
    BY <1>4, <1>5 DEF Ends, Moves

\* So does what an answer acknowledges.
LEMMA AcksStay ==
    ASSUME NEW s, SenderSound(s), NEW t, Advances(s, t),
           NEW r, ReceiverSound(r), RecvRight(r, s),
           NEW u, ReceiverSound(u), RecvRight(u, s), Moves(r, u),
           NEW m, Acks(m, r, s)
    PROVE  Acks(m, u, t)
<1>1. Got(r) <= Got(u) /\ Got(r) \in Nat /\ Got(u) \in Nat
    BY GotGrows, GotNumbers
<1>2. 0 .. Got(r) \in SUBSET (0 .. Got(u))
    BY <1>1
<1>3. t.isn = s.isn
    BY DEF Advances
<1> QED
    BY <1>2, <1>3 DEF Acks

\* What a tidy receiver says it needs next is what it needs next: with the FIN,
\* none of the bytes it holds is left to be read.
LEMMA SaysGot ==
    ASSUME NEW s, SenderSound(s), NEW r, ReceiverSound(r), RecvRight(r, s), Tidy(r)
    PROVE  /\ ReceiverSend(r).hasAck = r.init
           /\ r.init => ReceiverSend(r).ackno = Wrap(Got(r), s.isn)
<1>1. ReceiverSend(r).hasAck = r.init
    BY ReceiverSendType
<1>2. PICK b \in Nat : Typed(r.reasm, RecvCapacity, b)
    BY DEF ReceiverSound
<1>3. RecvCapacity \in Nat /\ r.reasm.next \in Nat /\ s.input.popped \in Nat
    BY ConnectionConstants, ReceiverNumbers, SenderNumbers
<1>4. ASSUME r.reasm.output.closed PROVE BytesPending(r.reasm) = 0
    <2>1. r.reasm.next = s.input.popped
        BY <1>4, GotNumbers
    <2>2. \A x \in r.reasm.segs : x.begin = x.end
        <3> SUFFICES ASSUME NEW x \in r.reasm.segs PROVE x.begin = x.end
            OBVIOUS
        <3>1. x.begin > r.reasm.next
            BY DEF Tidy, AllLater
        <3>2. x.begin \in Nat /\ x.end \in Nat /\ x.begin <= x.end
            <4>1. x \in SegType
                BY <1>2, <1>3, TypedFields
            <4>2. KeysRight(x, b)
                BY <1>2 DEF Typed
            <4> QED
                BY <4>1, <4>2 DEF SegType, KeysRight
        <3>3. x.begin < x.end => x.end <= s.input.popped
            BY DEF RecvRight, Streams, SegRight
        <3> QED
            BY <1>3, <2>1, <3>1, <3>2, <3>3
    <2> QED
        BY <1>2, <1>3, <2>2, NonePending
<1>5. AckFIN(r) <=> r.reasm.output.closed
    BY <1>4 DEF AckFIN, Tidy
<1>6. Flag(AckFIN(r)) = Flag(r.reasm.output.closed)
    BY <1>5 DEF Flag
<1>7. ASSUME r.init PROVE ReceiverSend(r).ackno = Wrap(Got(r), s.isn)
    <2>1. ReceiverSend(r).ackno = Wrap(r.reasm.next + 1 + Flag(AckFIN(r)), r.isn)
        BY <1>7 DEF ReceiverSend
    <2>2. r.isn = s.isn
        BY <1>7 DEF RecvRight
    <2>3. Got(r) = 1 + r.reasm.next + Flag(r.reasm.output.closed)
        BY <1>7 DEF Got
    <2>4. Flag(r.reasm.output.closed) \in {0, 1}
        BY DEF Flag
    <2>5. r.reasm.next + 1 + Flag(AckFIN(r)) = Got(r)
        BY <1>3, <1>6, <2>3, <2>4
    <2> QED
        BY <2>1, <2>2, <2>5
<1> QED
    BY <1>1, <1>7

-----------------------------------------------------------------------------
(***************************************************************************)
(* What the operations of a sender do to its promises.                     *)
(***************************************************************************)
\* push's loop goes on: it sends the FIN with the last of a closed stream, and
\* alone when there is nothing else to send.
Tells(x, s) ==
    LET y == x.sender IN
    /\ y.finAcked = s.finAcked /\ y.input.closed = s.input.closed
    /\ s.finSent => y.finSent
    /\ Buffered(s.input) = 0 => Buffered(y.input) = 0
    /\ s.input.closed => Buffered(s.input) = 0 /\ y.exp # 0
    /\ \A z \in y.ost : Bare(z.msg)
    /\ \A m \in Members(x.loop.out) : Bare(m)

LEMMA TurnTells ==
    ASSUME NEW s, SenderSound(s), NEW x \in LoopStates, Tells(x, s)
    PROVE  /\ Tells(PushTurn(x), s)
           /\ x.sender.finSent => PushTurn(x).sender.finSent
           /\ Turns(x.loop) /\ s.input.closed => PushTurn(x).sender.finSent
<1> DEFINE y == x.sender
           l == x.loop
           msg == TurnMessage(y, l)
           n == TurnBytes(y, l)
           t == TurnSender(y, msg)
           k == TurnLoop(y, l, msg)
<1>1. LoopRight(y, l) /\ l.out \in Seq(Message)
    BY DEF LoopStates
<1>2. InPlace(y.input) /\ Buffered(s.input) \in Nat /\ Buffered(y.input) \in Nat
    BY <1>1, SenderNumbers, InPlaceNumbers DEF LoopRight
<1>3. CASE Turns(l)
    <2>1. PushTurn(x) = [sender |-> t, loop |-> k]
        BY <1>3 DEF PushTurn
    <2>2. /\ msg \in Message /\ n \in Nat /\ n <= Buffered(y.input)
          /\ Len(msg.payload) = n
          /\ msg.FIN => y.input.closed
          /\ msg.FIN \in BOOLEAN
        BY <1>1, <1>3, TurnSendsSome
    <2>3. Turned(y, l, t, k)
        BY <1>1, <1>3, TurnMoves
    <2>4. /\ t.input = Pop(y.input, n) /\ t.finSent = (y.finSent \/ msg.FIN)
          /\ t.finAcked = y.finAcked /\ k.out = Append(l.out, msg)
          /\ t.ost = y.ost \cup {[at |-> y.exp, msg |-> msg]}
        BY <2>3 DEF Turned
    <2>5. /\ Buffered(t.input) = Buffered(y.input) - n
          /\ t.input.closed = y.input.closed
        BY <1>2, <2>2, <2>4, PopInPlace
    <2>6. Members(k.out) = Members(l.out) \cup {msg}
        BY <1>1, <2>2, <2>4, MembersAppend
    <2>7. s.input.closed => n = 0 /\ Buffered(y.input) = 0
        BY <1>2, <2>2 DEF Tells
    <2>8. s.input.closed => msg.payload = << >>
        <3>1. msg.payload \in Seq(Nat)
            BY <2>2 DEF Message
        <3> QED
            BY <2>2, <2>7, <3>1, EmptySeq
    <2>9. Bare(msg)
        BY <2>2, <2>8 DEF Bare, Tells
    <2>10. s.input.closed => t.finSent
        <3> SUFFICES ASSUME s.input.closed, ~y.finSent PROVE msg.FIN
            BY <2>2, <2>4
        <3>1. y.input.closed /\ Buffered(y.input) = 0 /\ n = 0
            BY <2>7 DEF Tells
        <3>2. SequenceLength(msg) > 0 /\ SequenceLength(msg) <= l.wnd /\ l.wnd \in Nat
              /\ SequenceLength(msg) = Flag(y.exp = 0) + n + Flag(msg.FIN)
            BY <1>1, <1>3, TurnSendsSome DEF LoopRight
        <3>3. Flag(y.exp = 0) = 0
            BY DEF Flag, Tells
        <3> DEFINE e == SequenceLength(msg)
                   f == Flag(msg.FIN)
                   g == Flag(y.exp = 0)
        <3>4. f \in {0, 1} /\ (f = 1 => msg.FIN)
            BY DEF Flag
        <3>5. e > 0 /\ e = g + n + f /\ n = 0 /\ g = 0
            BY <3>1, <3>2, <3>3
        <3> HIDE DEF e, f, g, n, msg, l
        <3> QED
            BY <3>4, <3>5
    <2>11. s.input.closed => t.exp # 0
        <3>1. t.exp = y.exp + SequenceLength(msg) /\ SequenceLength(msg) \in Nat
              /\ SequenceLength(msg) > 0 /\ y.exp \in Nat
            BY <1>1, <1>3, <2>3, TurnSendsSome DEF Turned, LoopRight, SenderType
        <3> QED
            BY <3>1
    <2>12. /\ t.finAcked = s.finAcked /\ t.input.closed = s.input.closed
           /\ s.finSent => t.finSent
           /\ s.input.closed => Buffered(s.input) = 0
        BY <2>4, <2>5 DEF Tells
    <2>13. Buffered(s.input) = 0 => Buffered(t.input) = 0
        BY <1>2, <2>2, <2>5 DEF Tells
    <2>14. /\ \A z \in t.ost : Bare(z.msg)
           /\ \A m \in Members(k.out) : Bare(m)
        BY <2>4, <2>6, <2>9 DEF Tells
    <2>15. PushTurn(x).sender = t /\ PushTurn(x).loop = k
        BY <2>1
    <2>16. y.finSent => t.finSent
        BY <2>4
    <2> HIDE DEF l, msg, n, t, k
    <2> QED
        BY <2>10, <2>11, <2>12, <2>13, <2>14, <2>15, <2>16 DEF Tells
<1>4. CASE ~Turns(l)
    <2>1. PushTurn(x) = x
        BY <1>4 DEF PushTurn
    <2> QED
        BY <1>4, <2>1
<1> QED
    BY <1>3, <1>4

\* What a push finds: an open stream, one whose FIN is sent, or one that has
\* just been closed, with nothing on its way.
MayEnd(s) ==
    s.input.closed => /\ Buffered(s.input) = 0 /\ s.exp # 0
                      /\ s.finSent \/ (s.last = s.exp /\ ~s.finAcked)

LEMMA PushAllTells ==
    ASSUME NEW s, SenderSound(s), MayEnd(s), \A x \in s.ost : Bare(x.msg),
           NEW t, t = PushAll(s).sender, NEW out, out = PushAll(s).out
    PROVE  /\ t.input.closed => t.finSent
           /\ t.finAcked = s.finAcked
           /\ t.input.closed = s.input.closed
           /\ Buffered(s.input) = 0 => Buffered(t.input) = 0
           /\ \A x \in t.ost : Bare(x.msg)
           /\ \A m \in Members(out) : Bare(m)
<1>1. /\ s.exp \in Nat /\ s.last \in Nat /\ s.wnd \in Nat
      /\ Buffered(s.input) \in Nat
    BY SenderNumbers
<1>2. Members(<< >>) = {}
    BY EmptySeq DEF Members
<1>3. Window(s) \in Nat /\ Window(s) > 0
    BY <1>1 DEF Window
<1>4. CASE PushReturns(s)
    <2>1. t = s /\ out = << >>
        BY <1>4 DEF PushAll
    <2>2. s.input.closed => s.finSent
        BY <1>1, <1>3, <1>4 DEF PushReturns, MayEnd
    <2> QED
        BY <1>2, <2>1, <2>2
<1>5. CASE ~PushReturns(s)
    <2> DEFINE x == [sender |-> s, loop |-> PushLoop(s)]
               S == {y \in LoopStates : Tells(y, s) /\ (s.input.closed => y.sender.finSent)}
    <2>1. x \in LoopStates
        BY <1>5, PushStarts
    <2>2. x.sender = s /\ x.loop = PushLoop(s) /\ PushLoop(s).out = << >>
        BY DEF PushLoop
    <2> HIDE DEF x
    <2>3. Tells(x, s)
        BY <1>2, <2>2 DEF Tells, MayEnd
    <2>4. s.input.closed => s.finSent \/ Turns(x.loop)
        <3> SUFFICES ASSUME s.input.closed, ~s.finSent PROVE Turns(x.loop)
            OBVIOUS
        <3> DEFINE l == x.loop
        <3>1. LoopRight(s, l)
            BY <2>1, <2>2 DEF LoopStates
        <3>2. l.wnd = s.last + Window(s) - s.exp /\ l.data = LeftToSend(s)
            BY <3>1 DEF LoopRight
        <3>3. s.last = s.exp /\ Buffered(s.input) = 0 /\ s.exp # 0
            BY DEF MayEnd
        <3>4. LeftToSend(s) = 1
            BY <3>3 DEF LeftToSend, Flag
        <3>5. l.wnd > 0 /\ l.data > 0
            BY <1>1, <1>3, <3>2, <3>3, <3>4
        <3> QED
            BY <3>5 DEF Turns
    <2>5. ASSUME NEW y \in LoopStates, Tells(y, s),
                 s.input.closed => y.sender.finSent \/ Turns(y.loop)
          PROVE  PushTurn(y) \in S
        <3>1. /\ Tells(PushTurn(y), s)
              /\ y.sender.finSent => PushTurn(y).sender.finSent
              /\ Turns(y.loop) /\ s.input.closed => PushTurn(y).sender.finSent
            BY <2>5, TurnTells
        <3>2. PushTurn(y) \in LoopStates
            BY TurnStays
        <3> QED
            BY <2>5, <3>1, <3>2
    <2>6. PushTurn(x) \in S
        BY <2>1, <2>2, <2>3, <2>4, <2>5
    <2>7. \A y \in S : PushTurn(y) \in S
        BY <2>5
    <2> DEFINE z == PushLoops(s)
    <2>8. z \in S
        <3> HIDE DEF S
        <3> QED
            BY <1>1, <2>6, <2>7, PushLoopsStays DEF x
    <2>9. Tells(z, s) /\ (s.input.closed => z.sender.finSent)
        BY <2>8
    <2>10. t = z.sender /\ out = z.loop.out
        BY <1>5 DEF PushAll
    <2> HIDE DEF z
    <2> QED
        BY <2>9, <2>10 DEF Tells
<1> QED
    BY <1>4, <1>5

\* An answer is taken for what has really arrived: so are what it acknowledges
\* and, with the number after the FIN, the end of the stream.
LEMMA SenderReceiveEnds ==
    ASSUME NEW s, SenderSound(s), Short(s), NEW r, ReceiverSound(r), RecvRight(r, s),
           SendRight(s, WindowEdge(r.reasm)), Ends(s, r),
           NEW m \in AckMessage, AckRight(m, r, s), Acks(m, r, s), m.hasAck \/ Idle(s),
           NEW t, t = SenderReceive(s, m)
    PROVE  /\ Ends(t, r)
           /\ t.finSent = s.finSent /\ t.input = s.input
           /\ m.hasAck => s.last <= t.last
           /\ m.hasAck /\ m.ackno = Wrap(s.exp, s.isn) => t.last = s.exp /\ t.exp = s.exp
<1> DEFINE P == s.input.popped
           g == Got(r)
<1>1. /\ P \in Nat /\ s.exp \in Nat /\ s.last \in Nat
      /\ s \in SenderType /\ m.window \in Nat
      /\ m.hasAck \in BOOLEAN /\ s.finSent \in BOOLEAN
    BY SenderNumbers DEF SenderSound, AckMessage
<1>2. ~m.RST
    BY DEF AckRight
<1>3. /\ s.finAcked => s.finSent
      /\ s.last <= s.exp
      /\ s.exp = 0 => ~s.input.closed
      /\ s.exp # 0 => s.exp = 1 + P + Flag(s.finSent)
    BY DEF SendRight
<1>4. /\ g \in Nat /\ g <= P + 2 /\ r.reasm.next \in Nat /\ r.reasm.next <= P
      /\ r.reasm.output.closed \in BOOLEAN
      /\ r.init => g = 1 + r.reasm.next + Flag(r.reasm.output.closed)
    BY GotNumbers
<1>5. s.finSent => s.input.closed
    BY DEF SenderSound
<1>6. /\ s.input.closed => s.finSent
      /\ s.finSent => r.init /\ r.reasm.next = P /\ s.last > 0
      /\ s.last <= g
      /\ s.finAcked => r.reasm.output.closed
      /\ \A x \in s.ost : Bare(x.msg)
    BY DEF Ends
<1>7. s.exp \in 0 .. P + 2 /\ s.last \in 0 .. P + 2
    <2>1. Flag(s.finSent) \in {0, 1}
        BY DEF Flag
    <2> QED
        BY <1>1, <1>3, <2>1
<1>8. CASE m.hasAck
    <2>1. PICK k \in 0 .. g : m.ackno = Wrap(k, s.isn)
        BY <1>8 DEF Acks
    <2>2. k \in 0 .. P + 2 /\ k \in Nat /\ k <= g
        BY <1>1, <1>4, <2>1
    <2>3. Unwrap(m.ackno, s.isn, s.last) = k
        BY <1>7, <2>1, <2>2, NumbersRecovered
    <2>4. t = TakeAck(s, k, m.window)
        BY <1>2, <1>8, <2>3 DEF SenderReceive
    <2>5. /\ t.input = s.input /\ t.exp = s.exp /\ t.finSent = s.finSent
          /\ \/ k > s.exp /\ t = s
             \/ TakenAsNew(s, t, k)
             \/ TakenAsOld(s, t, k)
        <3>1. /\ TakeAck(s, k, m.window).input = s.input
              /\ TakeAck(s, k, m.window).exp = s.exp
              /\ TakeAck(s, k, m.window).finSent = s.finSent
            BY <1>1, <2>2, TakeAckChanges
        <3>2. \/ k > s.exp /\ TakeAck(s, k, m.window) = s
              \/ TakenAsNew(s, TakeAck(s, k, m.window), k)
              \/ TakenAsOld(s, TakeAck(s, k, m.window), k)
            BY <1>1, <2>2, TakeAckChanges
        <3> QED
            BY <2>4, <3>1, <3>2
    <2>6. EdgeMoved(s, t, k, m.window)
          /\ (t.finAcked => s.finAcked \/ (s.finSent /\ k = s.exp))
        BY <1>1, <2>2, <2>4, TakeAckMovesEdge
    <2>7. t.last \in {s.last, k} /\ s.last <= t.last
        BY <1>1, <2>2, <2>5 DEF TakenAsNew, TakenAsOld
    <2>8. t.ost \in SUBSET s.ost
        BY <2>5 DEF TakenAsNew, TakenAsOld, Unacked
    <2>9. ASSUME s.finSent, k = s.exp PROVE r.reasm.output.closed
        <3>1. s.exp # 0 /\ Flag(s.finSent) = 1
            BY <1>3, <1>5, <2>9 DEF Flag
        <3>2. k = 2 + P
            <4>1. k = 1 + P + Flag(s.finSent)
                BY <1>3, <2>9, <3>1
            <4> QED
                BY <1>1, <3>1, <4>1
        <3>3. g = 1 + P + Flag(r.reasm.output.closed)
            BY <1>4, <1>6, <2>9
        <3>4. r.reasm.output.closed \/ Flag(r.reasm.output.closed) = 0
            BY DEF Flag
        <3> HIDE DEF g, P
        <3> QED
            BY <1>1, <1>4, <2>2, <3>2, <3>3, <3>4
    <2>10. t.finAcked => r.reasm.output.closed
        BY <1>6, <2>6, <2>9
    <2>11. t.last <= g /\ (s.finSent => t.last > 0)
        <3> HIDE DEF g, P
        <3> QED
            BY <1>1, <1>4, <1>6, <2>2, <2>7
    <2>12. Ends(t, r)
        BY <1>6, <2>5, <2>8, <2>10, <2>11 DEF Ends
    <2>13. ASSUME m.ackno = Wrap(s.exp, s.isn) PROVE t.last = s.exp
        <3>1. Unwrap(m.ackno, s.isn, s.last) = s.exp
            BY <1>7, <2>13, NumbersRecovered
        <3>2. k = s.exp
            BY <2>3, <3>1
        <3> QED
            BY <1>1, <1>3, <2>5, <3>2 DEF TakenAsNew, TakenAsOld
    <2> QED
        BY <1>8, <2>5, <2>7, <2>12, <2>13
<1>9. CASE ~m.hasAck
    <2> DEFINE o == StartOver(s, m.window)
    <2>1. ~s.input.closed /\ ~s.finSent
        BY <1>5, <1>9 DEF Idle
    <2>2. t = TakeAck(o, 0, m.window)
        BY <1>2, <1>9 DEF SenderReceive
    <2>3. /\ o \in SenderType
          /\ o.input = s.input /\ o.finSent = s.finSent
          /\ o.last = 0 /\ o.exp = 0 /\ o.ost = {}
        BY <1>1, StartOverChanges
    <2>4. o.finAcked = s.finAcked
        BY <1>1 DEF StartOver, SenderType
    <2> HIDE DEF o
    <2>5. /\ t.input = s.input /\ t.finSent = s.finSent
          /\ \/ t = o
             \/ TakenAsNew(o, t, 0)
             \/ TakenAsOld(o, t, 0)
        <3>1. o \in SenderType /\ 0 \in Nat /\ m.window \in Nat
            BY <1>1, <2>3
        <3>2. /\ TakeAck(o, 0, m.window) \in SenderType
              /\ TakeAck(o, 0, m.window).input = o.input
              /\ TakeAck(o, 0, m.window).isn = o.isn
              /\ TakeAck(o, 0, m.window).exp = o.exp
              /\ TakeAck(o, 0, m.window).finSent = o.finSent
            BY <3>1, TakeAckChanges
        <3>3. \/ 0 > o.exp /\ TakeAck(o, 0, m.window) = o
              \/ TakenAsNew(o, TakeAck(o, 0, m.window), 0)
              \/ TakenAsOld(o, TakeAck(o, 0, m.window), 0)
            BY <3>1, TakeAckChanges
        <3> QED
            BY <2>2, <2>3, <3>2, <3>3
    <2>6. EdgeMoved(o, t, 0, m.window)
          /\ (t.finAcked => o.finAcked \/ (o.finSent /\ 0 = o.exp))
        BY <1>1, <2>2, <2>3, TakeAckMovesEdge
    <2>7. t.last = 0 /\ t.ost = {}
        BY <2>3, <2>5 DEF TakenAsNew, TakenAsOld
    <2>8. ~t.finAcked
        BY <1>3, <2>1, <2>3, <2>4, <2>6
    <2>9. t.last <= g
        <3> HIDE DEF g
        <3> QED
            BY <1>4, <2>7
    <2>10. Ends(t, r)
        BY <2>1, <2>5, <2>7, <2>8, <2>9 DEF Ends
    <2> QED
        BY <1>9, <2>5, <2>10
<1> QED
    BY <1>1, <1>8, <1>9

\* A tick and a push promise no more than before: push sends the FIN of a
\* stream that has just been closed.
LEMMA TickEnds ==
    ASSUME NEW s, SenderSound(s), NEW r, Ends(s, r), NEW t, t = TickExpires(s)
    PROVE  Ends(t, r) /\ \A m \in Members(TickTransmits(s)) : Bare(m)
<1>1. s \in SenderType
    BY DEF SenderSound
<1>2. /\ t.input = s.input /\ t.last = s.last /\ t.finSent = s.finSent
      /\ t.ost = s.ost /\ t.finAcked = s.finAcked
    BY <1>1, TickChanges
<1>3. ASSUME NEW m \in Members(TickTransmits(s)) PROVE Bare(m)
    <2>1. CASE s.ost = {}
        <3>1. Members(<< >>) = {}
            BY EmptySeq DEF Members
        <3> QED
            BY <1>3, <2>1, <3>1 DEF TickTransmits
    <2>2. CASE s.ost # {}
        <3>1. Oldest(s.ost) \in s.ost
            BY <1>1, <2>2, OldestIsOne
        <3>2. TickTransmits(s) = << Oldest(s.ost).msg >>
            BY <2>2 DEF TickTransmits
        <3>3. m = Oldest(s.ost).msg
            BY <1>3, <3>2 DEF Members
        <3> QED
            BY <3>1, <3>3 DEF Ends
    <2> QED
        BY <2>1, <2>2
<1> QED
    BY <1>2, <1>3 DEF Ends

LEMMA PushEnds ==
    ASSUME NEW s, SenderSound(s), NEW r, ReceiverSound(r), RecvRight(r, s),
           SendRight(s, WindowEdge(r.reasm)), MayEnd(s),
           s.finSent => Ends(s, r), s.last <= Got(r),
           ~s.finAcked \/ r.reasm.output.closed,
           \A x \in s.ost : Bare(x.msg),
           NEW t, t = PushAll(s).sender, NEW out, out = PushAll(s).out
    PROVE  /\ Ends(t, r)
           /\ s.finSent => t.exp = s.exp
           /\ \A m \in Members(out) : Bare(m)
<1> DEFINE edge == WindowEdge(r.reasm)
           P == s.input.popped
<1>1. /\ P \in Nat /\ s.exp \in Nat /\ s.last \in Nat /\ s.input.pushed \in Nat
      /\ s.input.pushed = P + Buffered(s.input)
      /\ s.input.closed \in BOOLEAN /\ s.finSent \in BOOLEAN
      /\ edge \in Nat
    BY SenderNumbers, ReceiverNumbers
<1>2. /\ SendRight(t, edge) /\ Advances(s, t)
      /\ t.exp # 0 /\ t.last = s.last
      /\ t.input.pushed = s.input.pushed /\ t.input.closed = s.input.closed
    <2> HIDE DEF edge
    <2>1. SendRight(s, edge)
        BY DEF edge
    <2> QED
        BY <1>1, <2>1, PushAllRight
<1>3. /\ t.input.closed => t.finSent
      /\ t.finAcked = s.finAcked
      /\ Buffered(s.input) = 0 => Buffered(t.input) = 0
      /\ \A x \in t.ost : Bare(x.msg)
      /\ \A m \in Members(out) : Bare(m)
    BY PushAllTells
<1>4. SenderSound(t)
    BY PushAllSound
<1>5. /\ t.input.popped \in Nat /\ t.input.pushed = t.input.popped + Buffered(t.input)
      /\ t.exp \in Nat
    BY <1>4, SenderNumbers
<1>6. t.finSent => t.input.closed
    BY <1>4 DEF SenderSound
<1>7. ASSUME t.finSent PROVE r.init /\ r.reasm.next = t.input.popped /\ s.last > 0
    <2>1. s.input.closed
        BY <1>2, <1>6, <1>7
    <2>2. Buffered(s.input) = 0 /\ s.exp # 0
        BY <2>1 DEF MayEnd
    <2>3. t.input.popped = P
        BY <1>1, <1>2, <1>3, <1>5, <2>2
    <2>4. CASE s.finSent
        BY <2>3, <2>4 DEF Ends
    <2>5. CASE ~s.finSent
        <3>1. s.last = s.exp
            BY <2>1, <2>5 DEF MayEnd
        <3>2. s.exp = 1 + P
            <4>1. Flag(s.finSent) = 0
                BY <2>5 DEF Flag
            <4> QED
                BY <1>1, <2>2, <4>1 DEF SendRight
        <3>3. /\ Got(r) \in Nat /\ r.reasm.next \in Nat /\ r.reasm.next <= P
              /\ r.init => Got(r) = 1 + r.reasm.next + Flag(r.reasm.output.closed)
              /\ ~r.init => Got(r) = 0
              /\ r.reasm.output.closed => s.finSent
            BY GotNumbers
        <3>4. Flag(r.reasm.output.closed) = 0
            BY <2>5, <3>3 DEF Flag
        <3> HIDE DEF P
        <3> QED
            BY <1>1, <2>3, <3>1, <3>2, <3>3, <3>4
    <2> QED
        BY <2>4, <2>5
<1>8. s.finSent => t.exp = s.exp
    <2> SUFFICES ASSUME s.finSent PROVE t.exp = s.exp
        OBVIOUS
    <2>1. t.finSent /\ t.input.popped = P
        BY <1>2 DEF Advances
    <2>2. s.exp # 0
        BY DEF SendRight, SenderSound
    <2>3. s.exp = 1 + P + Flag(s.finSent) /\ t.exp = 1 + t.input.popped + Flag(t.finSent)
        BY <1>2, <2>2 DEF SendRight
    <2>4. Flag(s.finSent) = 1 /\ Flag(t.finSent) = 1
        BY <2>1 DEF Flag
    <2> QED
        BY <2>1, <2>3, <2>4
<1>9. Ends(t, r)
    BY <1>2, <1>3, <1>7 DEF Ends
<1> QED
    BY <1>3, <1>8, <1>9

-----------------------------------------------------------------------------
(***************************************************************************)
(* How a receiver goes on.                                                 *)
(***************************************************************************)
\* The FIN comes with nothing else when all else has arrived, and closes the
\* stream.  A SYN must not come again after it.
LEMMA ReceiverReceiveMoves ==
    ASSUME NEW s, SenderSound(s), Short(s),
           NEW r, ReceiverSound(r), RecvRight(r, s), Ends(s, r), Tidy(r),
           NEW m \in Message, Sent(m, s, WindowEdge(r.reasm)), r.init \/ m.SYN,
           Bare(m), m.SYN => ~r.fin,
           NEW u, u = ReceiverReceive(r, m)
    PROVE  /\ Tidy(u) /\ Moves(r, u)
           /\ m.FIN => u.reasm.output.closed
           /\ ~m.FIN => (u.reasm.output.closed <=> r.reasm.output.closed)
<1> DEFINE P == s.input.popped
           edge == WindowEdge(r.reasm)
           data == m.payload
<1>1. P \in Nat /\ r.maxAbs \in Nat /\ r.maxAbs <= P + 2 /\ edge \in Nat
    BY SenderNumbers, ReceiverNumbers DEF RecvRight
<1>2. ~m.RST /\ m.SYN \in BOOLEAN /\ m.FIN \in BOOLEAN /\ data \in Seq(Nat)
      /\ Len(data) \in Nat
    BY LenProperties DEF Sent, Message
<1>3. PICK a \in 0 .. P + 2 : Placed(m, a, s, edge)
    BY DEF Sent
<1>4. PICK b \in Nat : Typed(r.reasm, RecvCapacity, b)
    BY DEF ReceiverSound
<1>5. /\ Streams(r.reasm, P) /\ RecvCapacity \in Nat /\ r \in ReceiverType
      /\ r.reasm.next \in Nat
    BY ConnectionConstants, ReceiverNumbers DEF RecvRight, ReceiverSound
<1>6. /\ r.fin <=> r.reasm.output.closed
      /\ r.reasm.hasLast => r.reasm.output.closed
      /\ AllLater(r.reasm)
      /\ s.finSent => r.reasm.next = P
    BY DEF Tidy, Ends
<1>7. ASSUME NEW first \in Nat, LiesAt(data, first),
             Len(data) = 0 \/ first + Len(data) <= P,
             m.FIN => s.finSent /\ first + Len(data) = P,
             first + Len(data) <= edge \/ Len(data) <= 1
      PROVE  LET t == Insert(r.reasm, first, data, m.FIN) IN
             /\ r.reasm.next <= t.next /\ AllLater(t)
             /\ r.reasm.output.closed \/ m.FIN => t.output.closed
             /\ t.hasLast \/ t.output.closed => r.reasm.output.closed \/ m.FIN
    <2> DEFINE t == Insert(r.reasm, first, data, m.FIN)
               wide == b + (first + Len(data))
    <2>1. wide \in Nat /\ b <= wide /\ first + Len(data) <= wide
        BY <1>2
    <2> HIDE DEF wide, t
    <2>2. Typed(r.reasm, RecvCapacity, wide)
        BY <1>4, <1>5, <2>1, TypedWidens
    <2>3. (m.FIN => first + Len(data) = P) /\ t = Insert(r.reasm, first, data, m.FIN)
        BY <1>7 DEF t
    <2>4. m.FIN => Len(data) = 0
        BY EmptySeq DEF Bare
    <2> HIDE DEF data, P, edge
    <2>5. first + Len(data) <= WindowEdge(r.reasm) \/ Len(data) <= 1
        BY <1>7 DEF edge
    <2>6. /\ RecvCapacity \in Nat /\ P \in Nat
          /\ data \in Seq(Nat) /\ m.FIN \in BOOLEAN
          /\ Streams(r.reasm, P) /\ LiesAt(data, first)
          /\ Len(data) = 0 \/ first + Len(data) <= P
        BY <1>1, <1>2, <1>5, <1>7
    <2>7. /\ Typed(t, RecvCapacity, wide) /\ Streams(t, P)
          /\ WindowEdge(t) = WindowEdge(r.reasm)
          /\ t.output.error = r.reasm.output.error
          /\ t.hasLast => r.reasm.hasLast \/ m.FIN
        BY SMTT(60), <2>1, <2>2, <2>3, <2>5, <2>6, InsertStreams
    <2>8. /\ r.reasm.next <= t.next
          /\ r.reasm.output.closed => t.output.closed
          /\ AllLater(r.reasm) => AllLater(t)
          /\ m.FIN /\ Len(data) = 0 /\ r.reasm.next = P => t.output.closed
        BY SMTT(30), <2>1, <2>2, <2>3, <2>5, <2>6, InsertMoves
    <2>9. t.output.closed => t.hasLast
        BY <2>7 DEF Streams
    <2>10. m.FIN => s.finSent
        BY <1>7
    <2> QED
        BY <1>6, <2>4, <2>7, <2>8, <2>9, <2>10 DEF t
<1>8. CASE m.SYN
    <2> DEFINE t == Insert(r.reasm, 0, data, m.FIN)
    <2>1. a = 0 /\ data = << >> /\ ~m.FIN
        BY <1>3, <1>8 DEF Placed
    <2>2. Len(data) = 0 /\ LiesAt(data, 0)
        BY <2>1, EmptySeq DEF LiesAt
    <2>3. /\ r.reasm.next <= t.next /\ AllLater(t)
          /\ r.reasm.output.closed \/ m.FIN => t.output.closed
          /\ t.hasLast \/ t.output.closed => r.reasm.output.closed \/ m.FIN
        BY <1>7, <2>1, <2>2
    <2>4. ~r.fin /\ ~r.reasm.output.closed
        BY <1>6, <1>8
    <2>5. u = [r EXCEPT !.init = TRUE, !.fin = m.FIN, !.rst = FALSE,
                        !.isn = m.seqno, !.maxAbs = 0, !.reasm = t]
        BY <1>2, <1>8 DEF ReceiverReceive, ReceiveSYN
    <2> HIDE DEF t
    <2>6. u.init /\ u.fin = m.FIN /\ u.reasm = t
        BY <1>5, <2>5 DEF ReceiverType
    <2>7. Tidy(u)
        BY <2>1, <2>3, <2>4, <2>6 DEF Tidy
    <2>8. Moves(r, u)
        BY <2>3, <2>6 DEF Moves
    <2> QED
        BY <2>1, <2>3, <2>4, <2>6, <2>7, <2>8
<1>9. CASE ~m.SYN
    <2> DEFINE abs == Unwrap(m.seqno, r.isn, r.maxAbs)
               t == Insert(r.reasm, StreamIndex(abs), data, m.FIN)
    <2>1. a # 0 /\ a \in Nat /\ r.init
        BY <1>1, <1>3, <1>9 DEF Placed
    <2>2. r.isn = s.isn /\ m.seqno = Wrap(a, s.isn)
        BY <1>3, <2>1 DEF RecvRight, Placed
    <2>3. abs = a
        <3>1. r.maxAbs \in 0 .. P + 2
            BY <1>1
        <3> QED
            BY <2>2, <3>1, NumbersRecovered
    <2>4. a < Modulus
        BY <1>1, ModulusType DEF Short
    <2>5. StreamIndex(abs) = a - 1 /\ a - 1 \in Nat
        BY <2>1, <2>3, <2>4, StreamIndexType
    <2>6. /\ LiesAt(data, a - 1)
          /\ Len(data) = 0 \/ a - 1 + Len(data) <= P
          /\ m.FIN => s.finSent /\ a - 1 + Len(data) = P
          /\ a - 1 + Len(data) <= edge \/ Len(data) <= 1
        BY <1>3, <2>1 DEF Placed
    <2>7. u = [r EXCEPT !.fin = r.fin \/ m.FIN, !.maxAbs = abs, !.reasm = t]
        BY <1>2, <1>9 DEF ReceiverReceive, ReceiveRest
    <2>8. /\ r.reasm.next <= t.next /\ AllLater(t)
          /\ r.reasm.output.closed \/ m.FIN => t.output.closed
          /\ t.hasLast \/ t.output.closed => r.reasm.output.closed \/ m.FIN
        BY <1>7, <2>5, <2>6
    <2> HIDE DEF t, abs
    <2>9. u.init = r.init /\ (u.fin <=> r.fin \/ m.FIN) /\ u.reasm = t
        BY <1>5, <2>7 DEF ReceiverType
    <2>10. Tidy(u)
        BY <1>6, <2>8, <2>9 DEF Tidy
    <2>11. Moves(r, u)
        BY <2>8, <2>9 DEF Moves
    <2> QED
        BY <2>8, <2>9, <2>10, <2>11
<1> QED
    BY <1>2, <1>8, <1>9

\* A read takes nothing back.
LEMMA ReadMoves ==
    ASSUME NEW r, ReceiverSound(r), Tidy(r), InPlace(r.reasm.output),
           NEW n \in Nat, n <= Buffered(r.reasm.output),
           NEW u, u = [r EXCEPT !.reasm =
                          [r.reasm EXCEPT !.output = Pop(r.reasm.output, n)]]
    PROVE  Tidy(u) /\ Moves(r, u)
<1> DEFINE f == Pop(r.reasm.output, n)
           k == [r.reasm EXCEPT !.output = f]
<1>1. r \in ReceiverType /\ r.reasm \in ReassemblerType /\ r.reasm.next \in Nat
    BY ReceiverNumbers DEF ReceiverSound, ReceiverType
<1>2. f.closed = r.reasm.output.closed
    BY PopInPlace
<1> HIDE DEF f
<1>3. k.output = f /\ k.next = r.reasm.next /\ k.hasLast = r.reasm.hasLast
      /\ k.segs = r.reasm.segs
    BY <1>1 DEF ReassemblerType
<1>4. u = [r EXCEPT !.reasm = k]
    BY DEF f
<1> HIDE DEF k
<1>5. u.reasm = k /\ u.fin = r.fin /\ u.init = r.init
    BY <1>1, <1>4 DEF ReceiverType
<1>6. AllLater(k) <=> AllLater(r.reasm)
    BY <1>3 DEF AllLater
<1>7. Tidy(u)
    BY <1>2, <1>3, <1>5, <1>6 DEF Tidy
<1>8. Moves(r, u)
    BY <1>1, <1>2, <1>3, <1>5 DEF Moves
<1> QED
    BY <1>7, <1>8

-----------------------------------------------------------------------------
(***************************************************************************)
(* The promises, step by step.                                             *)
(***************************************************************************)
Promise(p) ==
    LET q == Other(p) IN
    /\ peer[p].sender.isn = ISN[p]
    /\ Ends(peer[p].sender, peer[q].receiver)
    /\ Tidy(peer[q].receiver)
    /\ \A d \in Members(net[q]) : Bare(d.sender)
    /\ \A d \in Members(net[p]) : Acks(d.receiver, peer[q].receiver, peer[p].sender)

Promises == \A p \in Peers : Promise(p)

\* A sender that has sent all has nothing more to send, and forgets no answer.
Lasts(s, t) == s.finSent => t.exp = s.exp /\ s.last <= t.last

\* A receiver that closes its stream has got a FIN; with an answer to all that
\* was sent, nothing is left in flight.
Finishes(p, y) ==
    \/ Inbound(y).closed <=> Inbound(peer[p]).closed
    \/ \E d \in Members(net[p]) :
          /\ d.sender.FIN
          /\ LET s == peer[p].sender
                 m == d.receiver
             IN  s.finSent /\ m.hasAck /\ m.ackno = Wrap(s.exp, s.isn)
                     => InFlight(y.sender) = 0

\* No more datagrams are lost and timers early than ten timeouts can bear.
FewFaults == \A b \in Budgets : b.loss + b.early <= 3

\* A peer stops lingering when its input has ended before its output, and is
\* quiet when its partner has nothing in flight, unless too much is lost.
Lingers(p, y) ==
    LET x == peer[p] IN
    /\ ~x.linger => ~y.linger
    /\ ~y.linger => ~x.linger \/ (Inbound(x).closed /\ ~y.sender.finSent)
    /\ y.quiet => \/ x.quiet
                  \/ /\ Inbound(x).closed
                     /\ FewFaults => InFlight(peer[Other(p)].sender) = 0

\* What a step of p, that becomes y, does to the promises.
Keeps(p, y, new) ==
    /\ Ends(y.sender, peer[Other(p)].receiver)
    /\ Tidy(y.receiver) /\ Moves(peer[p].receiver, y.receiver)
    /\ \A d \in new : Bare(d.sender)
    /\ Lasts(peer[p].sender, y.sender)
    /\ Finishes(p, y)
    /\ Lingers(p, y)

\* What the promises say of a peer and its partner.
LEMMA PromisesSay ==
    ASSUME Promises, NEW p \in Peers, NEW q, q = Other(p), NEW x, x = peer[p],
           NEW z, z = peer[q]
    PROVE  /\ Ends(x.sender, z.receiver) /\ Tidy(z.receiver)
           /\ Ends(z.sender, x.receiver) /\ Tidy(x.receiver)
           /\ \A d \in Members(net[p]) : /\ Bare(d.sender)
                                         /\ Acks(d.receiver, z.receiver, x.sender)
           /\ \A d \in Members(net[q]) : /\ Bare(d.sender)
                                         /\ Acks(d.receiver, x.receiver, z.sender)
<1>1. q \in Peers /\ Other(q) = p
    BY TwoPeers
<1> QED
    BY <1>1 DEF Promises, Promise

\* Such a step keeps them.
LEMMA PassesPromises ==
    ASSUME Inv, Promises, NEW p \in Peers, NEW y, NEW new,
           Passes(p, y, new), GoesOn(p, y, new), Keeps(p, y, new)
    PROVE  Promises'
<1> DEFINE q == Other(p)
           s == peer[p].sender
           r == peer[q].receiver
           v == peer[q].sender
           h == peer[p].receiver
           t == y.sender
           u == y.receiver
<1>1. PeerSound(y)
    BY DEF GoesOn
<1>2. /\ q \in Peers /\ q # p /\ Other(q) = p
      /\ peer'[p] = y /\ peer'[q] = peer[q]
      /\ PeerSound(peer[p]) /\ PeerSound(peer[q])
      /\ \A z \in Peers : z = p \/ z = q
    BY <1>1, PassesPeers
<1>3. /\ SenderSound(s) /\ SenderSound(t) /\ SenderSound(v)
      /\ ReceiverSound(r) /\ ReceiverSound(u) /\ ReceiverSound(h)
    BY <1>1, <1>2 DEF PeerSound
<1>4. /\ Members(net'[p]) \in SUBSET Members(net[p])
      /\ Members(net'[q]) \in SUBSET (Members(net[q]) \cup new)
    BY DEF Passes
<1>5. RecvRight(r, s) /\ RecvRight(h, v)
    BY InvSays
<1>6. /\ Advances(s, t) /\ RecvRight(u, v)
      /\ \A d \in new : d.receiver = ReceiverSend(u)
    BY DEF GoesOn
<1>7. /\ Ends(s, r) /\ Tidy(r) /\ Ends(v, h)
      /\ \A d \in Members(net[p]) : Bare(d.sender) /\ Acks(d.receiver, r, s)
      /\ \A d \in Members(net[q]) : Bare(d.sender) /\ Acks(d.receiver, h, v)
    BY PromisesSay
<1>8. /\ Ends(t, r) /\ Tidy(u) /\ Moves(h, u)
      /\ \A d \in new : Bare(d.sender)
    BY DEF Keeps
<1>20. s.isn = ISN[p] /\ v.isn = ISN[q] /\ t.isn = s.isn
    BY <1>2, <1>6 DEF Promises, Promise, Advances
<1>9. Promise(p)' <=> /\ t.isn = ISN[p] /\ Ends(t, r) /\ Tidy(r)
                      /\ \A d \in Members(net'[q]) : Bare(d.sender)
                      /\ \A d \in Members(net'[p]) : Acks(d.receiver, r, t)
    BY <1>2 DEF Promise
<1>10. Promise(q)' <=> /\ v.isn = ISN[q] /\ Ends(v, u) /\ Tidy(u)
                       /\ \A d \in Members(net'[p]) : Bare(d.sender)
                       /\ \A d \in Members(net'[q]) : Acks(d.receiver, u, v)
    BY <1>2 DEF Promise
<1> HIDE DEF q, s, r, v, h, t, u
<1>11. RecvRight(r, t)
    BY <1>3, <1>5, <1>6, RecvStays
<1>12. Moves(r, r)
    BY <1>3, ReceiverNumbers DEF Moves
<1>13. ASSUME NEW d \in Members(net[p]) PROVE Acks(d.receiver, r, t)
    <2>1. Acks(d.receiver, r, s)
        BY <1>7
    <2> QED
        BY <1>3, <1>5, <1>6, <1>12, <2>1, AcksStay
<1>14. Ends(v, u)
    BY <1>3, <1>5, <1>6, <1>7, <1>8, EndsStay
<1>15. Advances(v, v)
    BY <1>3, SenderNumbers DEF Advances
<1>16. ASSUME NEW d \in Members(net[q]) PROVE Acks(d.receiver, u, v)
    <2>1. Acks(d.receiver, h, v)
        BY <1>7
    <2> QED
        BY <1>3, <1>5, <1>6, <1>8, <1>15, <2>1, AcksStay
<1>17. ASSUME NEW d \in new PROVE Acks(d.receiver, u, v)
    <2>1. Got(u) \in Nat /\ (u.init => u.isn = v.isn)
        BY <1>3, <1>6, GotNumbers DEF RecvRight
    <2>2. /\ ReceiverSend(u).hasAck = u.init
          /\ u.init => ReceiverSend(u).ackno = Wrap(Got(u), v.isn)
        BY <1>3, <1>6, <1>8, SaysGot
    <2>3. Got(u) \in 0 .. Got(u)
        BY <2>1
    <2> QED
        BY <1>6, <2>2, <2>3 DEF Acks
<1>18. Promise(p)'
    BY <1>4, <1>7, <1>8, <1>9, <1>13, <1>20
<1>19. Promise(q)'
    BY <1>4, <1>7, <1>8, <1>10, <1>14, <1>16, <1>17, <1>20
<1> QED
    BY <1>2, <1>18, <1>19 DEF Promises

\* What linger and quiet become.
LEMMA SendsFlags ==
    ASSUME NEW x, PeerSound(x), NEW msgs
    PROVE  /\ Sends(x, msgs).peer.linger = x.linger
           /\ Sends(x, msgs).peer.quiet = x.quiet
<1> DEFINE asks == x.needSend /\ msgs = << >>
           y == [x EXCEPT !.needSend = asks]
<1>1. x \in PeerType
    BY DEF PeerSound
<1>2. Sends(x, msgs).peer = y
    BY DEF Sends
<1> HIDE DEF asks
<1>3. y.linger = x.linger /\ y.quiet = x.quiet
    BY <1>1 DEF PeerType
<1> QED
    BY <1>2, <1>3

LEMMA PushFlags ==
    ASSUME NEW x, PeerSound(x)
    PROVE  /\ PeerPush(x).peer.linger = x.linger
           /\ PeerPush(x).peer.quiet = x.quiet
<1> DEFINE s == PushAll(x.sender).sender
           msgs == PushAll(x.sender).out
           y == [x EXCEPT !.sender = s]
<1>1. SenderSound(s) /\ x \in PeerType
    BY PushAllSound DEF PeerSound
<1>2. PeerPush(x) = Sends(y, msgs)
    BY DEF PeerPush
<1> HIDE DEF s, msgs
<1>3. PeerSound(y)
    BY <1>1, PeerChanges
<1>4. y.linger = x.linger /\ y.quiet = x.quiet
    BY <1>1 DEF PeerType
<1> HIDE DEF y
<1> QED
    BY <1>2, <1>3, <1>4, SendsFlags

LEMMA TickFlags ==
    ASSUME NEW x, PeerSound(x)
    PROVE  /\ PeerTick(x).peer.linger = x.linger
           /\ PeerTick(x).peer.quiet = x.quiet
<1> DEFINE s == TickExpires(x.sender)
           msgs == TickTransmits(x.sender)
           y == [x EXCEPT !.sender = s]
<1>1. SenderSound(s) /\ x \in PeerType
    BY TickSound DEF PeerSound
<1>2. PeerTick(x) = Sends(y, msgs)
    BY DEF PeerTick
<1> HIDE DEF s, msgs
<1>3. PeerSound(y)
    BY <1>1, PeerChanges
<1>4. y.linger = x.linger /\ y.quiet = x.quiet
    BY <1>1 DEF PeerType
<1> HIDE DEF y
<1> QED
    BY <1>2, <1>3, <1>4, SendsFlags

LEMMA ReceiveFlags ==
    ASSUME NEW x, PeerSound(x), NEW d \in Datagram, Active(x),
           NEW y, y = PeerReceive(x, d).peer
    PROVE  /\ ~y.quiet
           /\ y.linger <=> x.linger /\ ~(Inbound(x).closed /\ ~Finished(x.sender.input))
<1> DEFINE stays == x.linger /\ ~(Inbound(x).closed /\ ~Finished(x.sender.input))
           asks == x.needSend \/ SequenceLength(d.sender) > 0 \/ KeepAlive(x, d)
           s == SenderReceive(x.sender, d.receiver)
           r == ReceiverReceive(x.receiver, d.sender)
           w == TakesIn(x, d)
           pushed == PeerPush(w)
           e == EmptyMessage(pushed.peer.sender)
           reply == Sends(pushed.peer, << e >>)
<1>1. PeerSound(w)
    BY TakesInSound
<1>2. (w.linger <=> stays) /\ ~w.quiet
    <2>1. x \in PeerType /\ stays \in BOOLEAN
        BY DEF PeerSound
    <2>2. w = [x EXCEPT !.quiet = FALSE, !.needSend = asks, !.linger = stays,
                        !.receiver = r, !.sender = s]
        BY DEF TakesIn
    <2> HIDE DEF stays, asks, s, r, w
    <2> QED
        BY <2>1, <2>2 DEF PeerType
<1>3. y = IF pushed.peer.needSend THEN reply.peer ELSE pushed.peer
    BY DEF PeerReceive
<1> HIDE DEF stays, w
<1>4. pushed.peer.linger = w.linger /\ pushed.peer.quiet = w.quiet
    BY <1>1, PushFlags
<1>5. PeerSound(pushed.peer)
    BY <1>1, PeerPushSound DEF StepSound
<1> HIDE DEF pushed, e
<1>6. reply.peer.linger = pushed.peer.linger /\ reply.peer.quiet = pushed.peer.quiet
    BY <1>5, SendsFlags
<1> HIDE DEF reply
<1>7. (y.linger <=> w.linger) /\ y.quiet = w.quiet
    BY <1>3, <1>4, <1>6
<1> QED
    BY <1>2, <1>7 DEF stays

\* A step in which the sender does nothing, and p sends nothing.
LEMMA QuietKeeps ==
    ASSUME Inv, Promises, NEW p \in Peers, NEW y, y.sender = peer[p].sender,
           Tidy(y.receiver), Moves(peer[p].receiver, y.receiver),
           Inbound(y).closed = Inbound(peer[p]).closed,
           y.linger = peer[p].linger,
           y.quiet => \/ peer[p].quiet
                      \/ /\ Inbound(peer[p]).closed
                         /\ FewFaults => InFlight(peer[Other(p)].sender) = 0
    PROVE  Keeps(p, y, {})
<1> DEFINE x == peer[p]
           z == peer[Other(p)]
<1>1. SenderSound(x.sender) /\ Ends(x.sender, z.receiver)
    BY InvSays, PromisesSay
<1>2. x.sender.last \in Nat
    BY <1>1, SenderNumbers
<1>3. Lasts(x.sender, y.sender)
    BY <1>2 DEF Lasts
<1>4. Finishes(p, y)
    BY DEF Finishes
<1>5. Lingers(p, y)
    BY DEF Lingers
<1> QED
    BY <1>1, <1>3, <1>4, <1>5 DEF Keeps

LEMMA TickKeeps ==
    ASSUME Inv, Promises, NEW p \in Peers
    PROVE  Keeps(p, PeerTick(peer[p]).peer, Members(PeerTick(peer[p]).out))
<1> DEFINE x == peer[p]
           z == peer[Other(p)]
           y == PeerTick(x).peer
           new == Members(PeerTick(x).out)
           s == x.sender
<1>1. /\ PeerSound(x) /\ SenderSound(s) /\ ReceiverSound(x.receiver)
      /\ Ends(s, z.receiver) /\ Tidy(x.receiver)
    BY InvSays, PromisesSay
<1>2. /\ y.sender = TickExpires(s) /\ y.receiver = x.receiver
      /\ Carry(PeerTick(x).out, Members(TickTransmits(s)), ReceiverSend(x.receiver))
    BY <1>1, PeerTickSound
<1>3. y.linger = x.linger /\ y.quiet = x.quiet
    BY <1>1, TickFlags
<1> HIDE DEF y, s
<1>4. Ends(y.sender, z.receiver) /\ \A m \in Members(TickTransmits(s)) : Bare(m)
    BY <1>1, <1>2, TickEnds
<1>5. \A d \in new : Bare(d.sender)
    BY <1>2, <1>4 DEF Carry
<1>6. Lasts(s, y.sender)
    <2>1. s \in SenderType /\ s.last \in Nat
        BY <1>1, SenderNumbers DEF SenderSound
    <2>2. y.sender.last = s.last /\ y.sender.exp = s.exp
        BY <1>2, <2>1, TickChanges
    <2> QED
        BY <2>1, <2>2 DEF Lasts
<1>7. Moves(x.receiver, y.receiver)
    BY <1>1, <1>2, ReceiverNumbers DEF Moves
<1>8. Finishes(p, y) /\ Lingers(p, y)
    BY <1>2, <1>3 DEF Finishes, Lingers, Inbound
<1>9. Keeps(p, y, new)
    BY <1>1, <1>2, <1>4, <1>5, <1>6, <1>7, <1>8 DEF Keeps, s
<1> QED
    BY <1>9 DEF y

\* A connected application has written or, with nothing left to send or in
\* flight, closed its stream.
LEMMA PushKeeps ==
    ASSUME Inv, Promises, NEW p \in Peers, p \in connected, ~peer[p].sender.finSent,
           NEW f, InPlace(f), f.popped = peer[p].sender.input.popped,
           f.error = peer[p].sender.input.error,
           f.closed => Buffered(f) = 0 /\ InFlight(peer[p].sender) = 0,
           NEW step, step = PeerPush(WithInput(p, f))
    PROVE  Keeps(p, step.peer, Members(step.out))
<1> DEFINE q == Other(p)
           x == peer[p]
           z == peer[q]
           r == z.receiver
           edge == WindowEdge(r.reasm)
           w == [x EXCEPT !.sender.input = f]
           new == Members(step.out)
           s == x.sender
           g == w.sender
           t == PushAll(g).sender
           out == PushAll(g).out
<1>1. /\ PeerSound(x) /\ edge \in Nat /\ SenderSound(s) /\ ReceiverSound(x.receiver)
      /\ ReceiverSound(r) /\ SendRight(s, edge) /\ RecvRight(r, s)
      /\ Young(s, r, Members(net[q]), p \in connected, p = Client \/ x.receiver.init)
    BY InvSays
<1>2. PeerSound(w) /\ g = [s EXCEPT !.input = f] /\ w.receiver = x.receiver
    BY <1>1, InputChanges
<1>3. WithInput(p, f) = w
    BY DEF WithInput
<1>4. w.linger = x.linger /\ w.quiet = x.quiet
    BY <1>1 DEF PeerSound, PeerType
<1>5. Ends(s, r) /\ Tidy(x.receiver)
    BY PromisesSay
<1>6. r.init /\ (p = Client \/ x.receiver.init) /\ s.exp # 0
    BY <1>1 DEF Young
<1> HIDE DEF w
<1>7. SenderSound(g)
    BY <1>2 DEF PeerSound
<1>8. /\ StepSound(step) /\ step.peer.sender = t /\ step.peer.receiver = x.receiver
      /\ Carry(step.out, Members(out), ReceiverSend(x.receiver))
      /\ step.peer.linger = w.linger /\ step.peer.quiet = w.quiet
    BY <1>2, <1>3, PeerPushSound, PushFlags
<1>9. /\ f.popped = s.input.popped /\ f.error = s.input.error /\ ~s.finSent
      /\ f.closed => Buffered(f) = 0 /\ InFlight(s) = 0
    OBVIOUS
<1> HIDE DEF x, z, r, edge, s, g, q
<1>10. SendRight(g, edge) /\ Advances(s, g) /\ g.exp = s.exp /\ g.last = s.last
       /\ g.input = f /\ g.ost = s.ost
    BY <1>1, <1>2, <1>6, <1>7, <1>9, InputRight
<1>11. g.finSent = s.finSent /\ g.finAcked = s.finAcked
    <2>1. s \in SenderType
        BY <1>1 DEF SenderSound
    <2> QED
        BY <1>2, <2>1 DEF SenderType
<1>12. RecvRight(r, g)
    BY <1>1, <1>7, <1>10, RecvStays
<1>13. ~s.finAcked /\ s.last <= Got(r) /\ \A e \in g.ost : Bare(e.msg)
    BY <1>1, <1>5, <1>9, <1>10 DEF SendRight, Ends
<1>14. MayEnd(g)
    <2>1. s.exp \in Nat /\ s.last \in Nat
        BY <1>1, SenderNumbers
    <2>2. f.closed => s.last = s.exp
        BY <1>9, <2>1 DEF InFlight
    <2> QED
        BY <1>6, <1>9, <1>10, <1>11, <1>13, <2>2 DEF MayEnd
<1>15. Ends(t, r) /\ \A m \in Members(out) : Bare(m)
    <2>1. /\ SendRight(g, WindowEdge(r.reasm)) /\ ~g.finSent /\ g.last <= Got(r)
          /\ ~g.finAcked
        BY <1>9, <1>10, <1>11, <1>13 DEF edge
    <2> HIDE DEF t, out
    <2>2. t = PushAll(g).sender /\ out = PushAll(g).out
        BY DEF t, out
    <2> QED
        BY <1>1, <1>7, <1>12, <1>13, <1>14, <2>1, <2>2, PushEnds
<1> HIDE DEF t, out
<1>16. \A d \in new : Bare(d.sender)
    BY <1>8, <1>15 DEF Carry
<1>17. Moves(x.receiver, step.peer.receiver)
    BY <1>1, <1>8, ReceiverNumbers DEF Moves
<1>18. Lasts(s, step.peer.sender)
    BY <1>9 DEF Lasts
<1>19. Finishes(p, step.peer) /\ Lingers(p, step.peer)
    BY <1>4, <1>8 DEF Finishes, Lingers, Inbound, x
<1> QED
    BY <1>5, <1>8, <1>15, <1>16, <1>17, <1>18, <1>19 DEF Keeps, x, s, r, z, q

\* The streams of both are short.
LEMMA ShortBoth ==
    ASSUME Inv, SupplyIsShort, NEW p \in Peers
    PROVE  Short(peer[p].sender) /\ Short(peer[Other(p)].sender)
<1> DEFINE q == Other(p)
           s == peer[p].sender
           v == peer[q].sender
<1>1. q \in Peers /\ Other(q) = p
    BY TwoPeers
<1>2. SenderSound(s) /\ SenderSound(v)
    BY InvSays
<1>3. s.input.pushed <= Supply[p] /\ v.input.pushed <= Supply[q]
    BY <1>1 DEF Inv, Right, Agree
<1>4. Supply[p] \in Nat /\ Supply[q] \in Nat /\ Half \in Nat
    BY <1>1, ConnectionConstants, ModulusType
<1>5. Supply[p] + 2 < Half /\ Supply[q] + 2 < Half
    BY <1>1 DEF SupplyIsShort
<1> HIDE DEF s, v, q
<1>6. /\ s.input.popped \in Nat /\ s.input.pushed \in Nat
      /\ s.input.pushed = s.input.popped + Buffered(s.input) /\ Buffered(s.input) \in Nat
      /\ v.input.popped \in Nat /\ v.input.pushed \in Nat
      /\ v.input.pushed = v.input.popped + Buffered(v.input) /\ Buffered(v.input) \in Nat
    BY <1>2, SenderNumbers
<1>7. Short(s)
    BY <1>3, <1>4, <1>5, <1>6 DEF Short
<1>8. Short(v)
    BY <1>3, <1>4, <1>5, <1>6 DEF Short
<1> QED
    BY <1>7, <1>8 DEF s, v, q

\* A push takes nothing for acknowledged, and closes no stream.
LEMMA PushAllLasts ==
    ASSUME NEW s, SenderSound(s), NEW edge \in Nat, SendRight(s, edge),
           NEW t, t = PushAll(s).sender
    PROVE  t.last = s.last /\ t.input.closed = s.input.closed
<1> DEFINE out == PushAll(s).out
<1>1. out = PushAll(s).out
    OBVIOUS
<1> HIDE DEF out
<1>2. /\ SendRight(t, edge) /\ Advances(s, t) /\ t.exp # 0 /\ t.last = s.last
      /\ t.input.pushed = s.input.pushed /\ t.input.closed = s.input.closed
      /\ \A m \in Members(out) : Sent(m, t, edge)
    BY <1>1, PushAllRight
<1> QED
    BY <1>2

\* p receives a datagram: no late one, and no SYN after the FIN.
LEMMA ReceiveKeeps ==
    ASSUME Inv, Promises, SupplyIsShort, NEW p \in Peers, NEW d \in Members(net[p]),
           d.receiver.hasAck \/ p \notin connected,
           d.sender.SYN => ~peer[p].receiver.fin,
           NEW step, step = PeerReceive(peer[p], d)
    PROVE  Keeps(p, step.peer, Members(step.out))
<1> DEFINE q == Other(p)
           x == peer[p]
           z == peer[q]
           edge == WindowEdge(z.receiver.reasm)
           wide == WindowEdge(x.receiver.reasm)
           new == Members(step.out)
           s == x.sender
           a == d.receiver
           g == SenderReceive(s, a)
           u == ReceiverReceive(x.receiver, d.sender)
           t == PushAll(g).sender
           out == PushAll(g).out
           v == z.sender
           r == z.receiver
           h == x.receiver
           m == d.sender
<1>1. /\ PeerSound(x) /\ PeerSound(z) /\ edge \in Nat
      /\ SenderSound(s) /\ SenderSound(v)
      /\ ReceiverSound(h) /\ ReceiverSound(r)
      /\ SendRight(s, edge) /\ RecvRight(r, s)
      /\ RecvRight(h, v) /\ s.input.pushed <= Supply[p]
      /\ Young(s, r, Members(net[q]), p \in connected, p = Client \/ h.init)
    BY InvSays
<1>2. /\ ~h.init => \A e \in Members(net[p]) : e.sender.SYN
      /\ \A e \in Members(net[p]) : /\ e \in Datagram
                                    /\ AckRight(e.receiver, r, s)
                                    /\ Sent(e.sender, v, wide)
    BY InvSays
<1>3. /\ d \in Datagram /\ AckRight(a, r, s) /\ Sent(m, v, wide)
      /\ (h.init \/ m.SYN) /\ (m.SYN => ~h.fin)
    BY <1>2
<1>4. m \in Message /\ a \in AckMessage /\ a.hasAck \in BOOLEAN /\ m.FIN \in BOOLEAN
    BY <1>3 DEF Datagram, Answer, AckMessage, Message
<1>5. Short(s) /\ Short(v)
    BY ShortBoth
<1>6. /\ Ends(s, r) /\ Tidy(r) /\ Ends(v, h) /\ Tidy(h)
      /\ Bare(m) /\ Acks(a, r, s)
    BY PromisesSay
<1>7. CASE ~Active(x)
    <2>1. step.peer = x /\ step.out = << >>
        BY <1>1, <1>3, <1>7, PeerReceiveSound
    <2>2. new = {}
        <3>1. Len(<< >>) = 0
            OBVIOUS
        <3> QED
            BY <2>1, <3>1 DEF Members
    <2>3. Moves(h, h)
        BY <1>1, ReceiverNumbers DEF Moves
    <2>4. Keeps(p, x, {})
        BY <1>6, <2>3, QuietKeeps
    <2> QED
        BY <2>1, <2>2, <2>4
<1>8. CASE Active(x)
    <2>1. /\ StepSound(step) /\ step.peer.sender = t /\ step.peer.receiver = u
          /\ Carry(step.out, Replies(PushAll(g)), ReceiverSend(u))
        BY <1>1, <1>3, <1>8, PeerReceiveSound
    <2>2. SenderSound(g)
        BY <1>1, <1>4, SenderReceiveSound
    <2>3. /\ ~step.peer.quiet
          /\ step.peer.linger <=>
                x.linger /\ ~(Inbound(x).closed /\ ~Finished(s.input))
        BY <1>1, <1>3, <1>8, ReceiveFlags
    <2>4. Replies(PushAll(g)) = Members(out) \cup {e \in {EmptyMessage(t)} : out = << >>}
        BY DEF Replies
    <2> HIDE DEF x, z, s, a, g, u, t, out, v, r, h, m, wide, q
    <2>5. /\ Tidy(u) /\ Moves(h, u)
          /\ ~m.FIN => (u.reasm.output.closed <=> h.reasm.output.closed)
        <3>1. Sent(m, v, WindowEdge(h.reasm)) /\ u = ReceiverReceive(h, m)
            BY <1>3 DEF wide, h, u, m
        <3> QED
            BY <1>1, <1>3, <1>4, <1>5, <1>6, <3>1, ReceiverReceiveMoves
    <2>6. a.hasAck \/ Idle(s)
        <3>1. a.hasAck \/ p \notin connected
            BY DEF a
        <3> QED
            BY <1>1, <3>1 DEF Young
    <2>7. /\ SendRight(g, edge) /\ Advances(s, g)
          /\ g.input = s.input
          /\ \/ a.hasAck /\ r.init /\ g.exp = s.exp
             \/ ~a.hasAck /\ g.exp = 0 /\ g.last = 0 /\ g.ost = {}
        <3>1. edge = WindowEdge(r.reasm) /\ g = SenderReceive(s, a)
            BY DEF r, g
        <3> HIDE DEF edge
        <3> QED
            BY <1>1, <1>3, <1>4, <1>5, <2>6, <3>1, SenderReceiveRight
    <2>8. /\ Ends(g, r) /\ g.finSent = s.finSent
          /\ a.hasAck => s.last <= g.last
          /\ a.hasAck /\ a.ackno = Wrap(s.exp, s.isn) => g.last = s.exp /\ g.exp = s.exp
        <3>1. SendRight(s, WindowEdge(r.reasm)) /\ g = SenderReceive(s, a)
            BY <1>1 DEF r, g
        <3> QED
            BY <1>1, <1>3, <1>4, <1>5, <1>6, <2>6, <3>1, SenderReceiveEnds
    <2>9. RecvRight(r, g)
        BY <1>1, <2>2, <2>7, RecvStays
    <2>10. MayEnd(g)
        <3>1. g.input.closed => g.finSent
            BY <2>8 DEF Ends
        <3>2. g.finSent => Buffered(g.input) = 0
            BY <2>2 DEF SenderSound
        <3>3. g.input.closed => g.exp # 0
            BY <2>7 DEF SendRight
        <3> QED
            BY <3>1, <3>2, <3>3 DEF MayEnd
    <2>11. /\ Ends(t, r) /\ (g.finSent => t.exp = g.exp)
           /\ \A e \in Members(out) : Bare(e)
        <3>1. /\ SendRight(g, WindowEdge(r.reasm)) /\ g.last <= Got(r)
              /\ ~g.finAcked \/ r.reasm.output.closed
              /\ \A e \in g.ost : Bare(e.msg)
            BY <2>7, <2>8 DEF r, Ends
        <3>2. t = PushAll(g).sender /\ out = PushAll(g).out
            BY DEF t, out
        <3> QED
            BY <1>1, <2>2, <2>8, <2>9, <2>10, <3>1, <3>2, PushEnds
    <2>12. t.last = g.last /\ t.input.closed = g.input.closed
        <3>1. t = PushAll(g).sender /\ edge \in Nat /\ SendRight(g, edge)
            BY <1>1, <2>7 DEF t
        <3> HIDE DEF edge
        <3> QED
            BY <2>2, <3>1, PushAllLasts
    <2>13. Bare(EmptyMessage(t))
        BY DEF Bare, EmptyMessage
    <2>14. \A e \in new : Bare(e.sender)
        BY <2>1, <2>4, <2>11, <2>13 DEF Carry
    <2>15. SenderSound(t)
        BY <2>1 DEF StepSound, PeerSound
    <2>16. s.finSent => s.input.closed /\ Finished(s.input)
        <3>1. InPlace(s.input) /\ (s.finSent => s.input.closed /\ Buffered(s.input) = 0)
            BY <1>1 DEF SenderSound
        <3> QED
            BY <3>1, InPlaceNumbers
    <2>17. s.finSent => a.hasAck /\ g.exp = s.exp /\ t.exp = s.exp
        BY <2>6, <2>7, <2>8, <2>11, <2>16 DEF Idle
    <2>18. Lasts(s, t)
        BY <2>8, <2>12, <2>17 DEF Lasts
    <2>19. Finishes(p, step.peer)
        <3>1. CASE m.FIN
            <4>1. ASSUME s.finSent, a.hasAck, a.ackno = Wrap(s.exp, s.isn)
                  PROVE  InFlight(t) = 0
                <5>1. t.last = s.exp /\ t.exp = s.exp /\ s.exp \in Nat
                    BY <1>1, <2>8, <2>12, <2>17, <4>1, SenderNumbers
                <5> QED
                    BY <5>1 DEF InFlight
            <4> QED
                BY <2>1, <3>1, <4>1 DEF Finishes, m, a, s, x
        <3>2. CASE ~m.FIN
            BY <2>1, <2>5, <3>2 DEF Finishes, Inbound, h, x
        <3> QED
            BY <3>1, <3>2
    <2>20. Lingers(p, step.peer)
        <3>1. ~Finished(s.input) => ~t.finSent
            <4>1. ~Finished(s.input) => ~s.input.closed
                BY <1>6, <2>16 DEF Ends
            <4>2. t.finSent => t.input.closed
                BY <2>15 DEF SenderSound
            <4> QED
                BY <2>7, <2>12, <4>1, <4>2
        <3> QED
            BY <2>1, <2>3, <3>1 DEF Lingers, x
    <2> HIDE DEF new
    <2> QED
        BY <2>1, <2>5, <2>11, <2>14, <2>18, <2>19, <2>20
        DEF Keeps, x, z, q, s, r, h, new
<1> QED
    BY <1>7, <1>8

-----------------------------------------------------------------------------
(***************************************************************************)
(* What a peer that leaves leaves behind.                                  *)
(***************************************************************************)
\* A peer is quiet only when its input has ended and, unless too much is lost,
\* its partner has nothing in flight.  One that does not linger has acknowledged
\* all before it sends its FIN: a partner that has the FIN has nothing in flight.
Parting(p) ==
    LET x == peer[p]
        q == Other(p)
        v == peer[q].sender
    IN  /\ x.quiet => /\ Inbound(x).closed
                      /\ FewFaults => InFlight(v) = 0
        /\ ~x.linger =>
              /\ Inbound(x).closed
              /\ \A d \in Members(net[q]) :
                    d.sender.FIN => /\ d.receiver.hasAck
                                    /\ d.receiver.ackno = Wrap(v.exp, v.isn)
              /\ Inbound(peer[q]).closed => InFlight(v) = 0

Partings == \A p \in Peers : Parting(p)

\* A receiver that has closed its stream acknowledges all of it.
LEMMA AnswersAll ==
    ASSUME NEW s, SenderSound(s), NEW edge, SendRight(s, edge),
           NEW r, ReceiverSound(r), RecvRight(r, s), Ends(s, r), Tidy(r),
           r.reasm.output.closed
    PROVE  /\ ReceiverSend(r).hasAck
           /\ ReceiverSend(r).ackno = Wrap(s.exp, s.isn)
<1>1. /\ Got(r) \in Nat /\ s.finSent /\ r.reasm.next = s.input.popped
      /\ s.input.popped \in Nat /\ s.exp \in Nat
      /\ r.init => Got(r) = 1 + r.reasm.next + Flag(r.reasm.output.closed)
    BY GotNumbers, SenderNumbers
<1>2. r.init
    BY <1>1 DEF Ends
<1>3. s.exp # 0
    BY <1>1 DEF SendRight, SenderSound
<1>4. s.exp = 1 + s.input.popped + Flag(s.finSent)
    BY <1>3 DEF SendRight
<1>5. Flag(s.finSent) = 1 /\ Flag(r.reasm.output.closed) = 1
    BY <1>1 DEF Flag
<1>6. Got(r) = s.exp
    BY <1>1, <1>2, <1>4, <1>5
<1> QED
    BY <1>2, <1>6, SaysGot

\* A FIN is under way only when it has been sent.
LEMMA FinSent ==
    ASSUME NEW m, NEW s, NEW edge, Sent(m, s, edge), m.FIN
    PROVE  s.finSent
BY DEF Sent, Placed

\* A sender with nothing in flight after its FIN keeps nothing in flight.
LEMMA NothingLeft ==
    ASSUME NEW s, SenderSound(s), NEW t, SenderSound(t), NEW edge, SendRight(t, edge),
           Lasts(s, t), s.finSent, InFlight(s) = 0
    PROVE  InFlight(t) = 0
<1>1. s.exp \in Nat /\ s.last \in Nat /\ t.exp \in Nat /\ t.last \in Nat
    BY SenderNumbers
<1>2. t.exp = s.exp /\ s.last <= t.last /\ t.last <= t.exp
    BY DEF Lasts, SendRight
<1> QED
    BY <1>1, <1>2 DEF InFlight

LEMMA PassesPartings ==
    ASSUME Inv, Promises, Partings, NEW p \in Peers, NEW y, NEW new,
           Passes(p, y, new), GoesOn(p, y, new), Keeps(p, y, new)
    PROVE  Partings'
<1> DEFINE q == Other(p)
           x == peer[p]
           z == peer[q]
           s == x.sender
           r == z.receiver
           v == z.sender
           h == x.receiver
           t == y.sender
           u == y.receiver
           edge == WindowEdge(r.reasm)
           wide == WindowEdge(h.reasm)
           All(d) == d.receiver.hasAck /\ d.receiver.ackno = Wrap(v.exp, v.isn)
           All2(d) == d.receiver.hasAck /\ d.receiver.ackno = Wrap(s.exp, s.isn)
<1>1. PeerSound(y)
    BY DEF GoesOn
<1>2. /\ q \in Peers /\ q # p /\ Other(q) = p
      /\ peer'[p] = y /\ peer'[q] = z
      /\ PeerSound(x) /\ PeerSound(z)
      /\ \A e \in Peers : e = p \/ e = q
    BY <1>1, PassesPeers
<1>3. /\ SenderSound(s) /\ SenderSound(t) /\ SenderSound(v)
      /\ ReceiverSound(r) /\ ReceiverSound(u) /\ ReceiverSound(h)
    BY <1>1, <1>2 DEF PeerSound
<1>4. /\ Members(net'[p]) \in SUBSET Members(net[p])
      /\ Members(net'[q]) \in SUBSET (Members(net[q]) \cup new)
    BY DEF Passes
<1>5. RecvRight(r, s) /\ RecvRight(h, v) /\ SendRight(s, edge)
    BY InvSays
<1>6. SendRight(v, wide) /\ \A d \in Members(net[q]) : Sent(d.sender, s, edge)
    BY <1>2, InvSays
<1>7. /\ SendRight(t, edge) /\ Advances(s, t) /\ RecvRight(u, v)
      /\ \A d \in new : d.receiver = ReceiverSend(u) /\ Sent(d.sender, t, edge)
    BY DEF GoesOn
<1>8. /\ Ends(s, r) /\ Tidy(r) /\ Ends(v, h)
    BY PromisesSay
<1>9. /\ Ends(t, r) /\ Tidy(u) /\ Moves(h, u) /\ Lasts(s, t)
    BY DEF Keeps
<1>10. /\ Inbound(x).closed = h.reasm.output.closed
       /\ Inbound(z).closed = r.reasm.output.closed
       /\ Inbound(y).closed = u.reasm.output.closed
    BY DEF Inbound
<1>11. /\ x.quiet => h.reasm.output.closed /\ (FewFaults => InFlight(v) = 0)
       /\ ~x.linger => /\ h.reasm.output.closed
                       /\ \A d \in Members(net[q]) : d.sender.FIN => All(d)
                       /\ r.reasm.output.closed => InFlight(v) = 0
       /\ z.quiet => r.reasm.output.closed /\ (FewFaults => InFlight(s) = 0)
       /\ ~z.linger => /\ r.reasm.output.closed
                       /\ \A d \in Members(net[p]) : d.sender.FIN => All2(d)
                       /\ h.reasm.output.closed => InFlight(s) = 0
    BY <1>2, <1>10 DEF Partings, Parting
<1>12. Parting(p)' <=>
          /\ y.quiet => u.reasm.output.closed /\ (FewFaults => InFlight(v) = 0)
          /\ ~y.linger =>
                /\ u.reasm.output.closed
                /\ \A d \in Members(net'[q]) : d.sender.FIN => All(d)
                /\ r.reasm.output.closed => InFlight(v) = 0
    BY <1>2, <1>10 DEF Parting
<1>13. Parting(q)' <=>
          /\ z.quiet => r.reasm.output.closed /\ (FewFaults => InFlight(t) = 0)
          /\ ~z.linger =>
                /\ r.reasm.output.closed
                /\ \A d \in Members(net'[p]) : d.sender.FIN =>
                      d.receiver.hasAck /\ d.receiver.ackno = Wrap(t.exp, t.isn)
                /\ u.reasm.output.closed => InFlight(t) = 0
    BY <1>2, <1>10 DEF Parting
<1>14. /\ ~x.linger => ~y.linger
       /\ ~y.linger => ~x.linger \/ (h.reasm.output.closed /\ ~t.finSent)
       /\ y.quiet => x.quiet \/ (h.reasm.output.closed /\ (FewFaults => InFlight(v) = 0))
    BY <1>10 DEF Keeps, Lingers
<1>15. \/ u.reasm.output.closed <=> h.reasm.output.closed
       \/ \E d \in Members(net[p]) :
             d.sender.FIN /\ (s.finSent /\ All2(d) => InFlight(t) = 0)
    BY <1>10 DEF Keeps, Finishes
<1> HIDE DEF q, x, z, s, r, v, h, t, u, edge, wide
<1>16. /\ h.reasm.output.closed => u.reasm.output.closed
       /\ r.reasm.output.closed => s.finSent
    BY <1>3, <1>5, <1>9, GotNumbers DEF Moves
<1>17. Ends(v, u)
    BY <1>3, <1>5, <1>7, <1>8, <1>9, EndsStay
<1>18. u.reasm.output.closed => \A d \in new : All(d)
    BY <1>3, <1>6, <1>7, <1>9, <1>17, AnswersAll
<1>19. \A d \in Members(net'[q]) : d.sender.FIN => t.finSent
    <2>1. \A d \in Members(net[q]) : d.sender.FIN => s.finSent
        BY <1>6, FinSent
    <2>2. \A d \in new : d.sender.FIN => t.finSent
        BY <1>7, FinSent
    <2> QED
        BY <1>4, <1>7, <2>1, <2>2 DEF Advances
<1>20. s.finSent /\ InFlight(s) = 0 => InFlight(t) = 0
    BY <1>3, <1>7, <1>9, NothingLeft
<1>21. s.finSent => t.exp = s.exp /\ t.isn = s.isn
    BY <1>7, <1>9 DEF Lasts, Advances
<1>22. s.finSent => t.finSent
    BY <1>7 DEF Advances
<1> HIDE DEF All, All2
<1>23. Parting(p)'
    BY <1>4, <1>11, <1>12, <1>14, <1>16, <1>18, <1>19, <1>22
<1>24. Parting(q)'
    <2>1. z.quiet => r.reasm.output.closed /\ (FewFaults => InFlight(t) = 0)
        BY <1>11, <1>16, <1>20
    <2>2. ASSUME ~z.linger, u.reasm.output.closed PROVE InFlight(t) = 0
        BY <1>11, <1>15, <1>16, <1>20, <2>2
    <2>3. ASSUME ~z.linger, NEW d \in Members(net'[p]), d.sender.FIN
          PROVE  d.receiver.hasAck /\ d.receiver.ackno = Wrap(t.exp, t.isn)
        <3>1. All2(d) /\ s.finSent
            BY <1>4, <1>11, <1>16, <2>3
        <3> QED
            BY <1>21, <3>1 DEF All2
    <2> QED
        BY <1>11, <1>13, <2>1, <2>2, <2>3
<1> QED
    BY <1>2, <1>23, <1>24 DEF Partings

-----------------------------------------------------------------------------
(***************************************************************************)
(* Both, step by step.                                                     *)
(***************************************************************************)
AckInv == Inv /\ Promises /\ Partings

LEMMA KeepsBoth ==
    ASSUME AckInv, NEW p \in Peers, NEW y, NEW new,
           Passes(p, y, new), GoesOn(p, y, new), Keeps(p, y, new)
    PROVE  Promises' /\ Partings'
BY PassesPromises, PassesPartings DEF AckInv

\* No SYN comes again to a receiver that has the FIN.
NoSynAfterFin ==
    \A p \in Peers : \A i \in DOMAIN net[p] :
        net[p][i].sender.SYN => ~peer[p].receiver.fin

\* When it may leave, its partner has nothing in flight: shown below, from how
\* long ten timeouts are.
LeavesInTime ==
    FewFaults => \A p \in Peers : MayLeave(p) => InFlight(peer[Other(p)].sender) = 0

LEMMA NextAckInv ==
    ASSUME SupplyIsShort, CloseOnlyIdle, AckInv, [Next]_vars, NoLateSyn, NoSynAfterFin,
           LeavesInTime
    PROVE  AckInv'
<1>1. Inv'
    BY NextInv DEF AckInv
<1>2. /\ TypeInv /\ TypeInv' /\ Inv /\ Promises /\ Partings
      /\ peer \in [Peers -> PeerType] /\ \A p \in Peers : PeerSound(peer[p])
      /\ \A p \in Peers : net[p] \in Seq(Datagram)
      /\ net' \in [Peers -> Seq(Datagram)] /\ net \in [Peers -> Seq(Datagram)]
    BY <1>1 DEF AckInv, Inv, TypeInv
<1>3. ASSUME NEW p \in Peers, Deliver(p) PROVE Promises' /\ Partings'
    <2> DEFINE d == Head(net[p])
               step == PeerReceive(peer[p], d)
               q == Other(p)
               new == Members(step.out)
    <2>1. /\ d \in Datagram /\ d \in Members(net[p]) /\ q \in Peers /\ q # p
          /\ Members(Tail(net[p])) \in SUBSET Members(net[p])
        BY <1>2, <1>3, NetWithoutFirst, TwoPeers DEF Deliver, MayDeliver
    <2>2. /\ d.receiver.hasAck \/ p \notin connected
          /\ d.sender.SYN => ~peer[p].receiver.fin
        <3>1. PICK i \in 1 .. Len(net[p]) : d = net[p][i]
            BY <2>1 DEF Members
        <3>2. i \in DOMAIN net[p]
            BY <1>2, LenProperties
        <3> QED
            BY <3>1, <3>2 DEF NoLateSyn, NoSynAfterFin
    <2>3. GoesOn(p, step.peer, new)
        <3> HIDE DEF d
        <3> QED
            BY <1>2, <2>1, <2>2, ReceiveGoesOn
    <2>4. Keeps(p, step.peer, new)
        <3> HIDE DEF d
        <3> QED
            BY <1>2, <2>1, <2>2, ReceiveKeeps
    <2>5. StepSound(step)
        BY <1>2, <2>1, PeerReceiveSound
    <2>6. /\ peer' = [peer EXCEPT ![p] = step.peer]
          /\ net' = [net EXCEPT ![p] = Tail(@), ![q] = @ \o step.out]
          /\ connected' = connected
        BY <1>3 DEF Deliver
    <2> HIDE DEF d, step, q
    <2>7. net'[p] = Tail(net[p]) /\ net'[q] = net[q] \o step.out
        BY <1>2, <2>1, <2>6
    <2>8. Members(net'[q]) = Members(net[q]) \cup new
        <3>1. net[q] \in Seq(Datagram) /\ step.out \in Seq(Datagram)
            BY <1>2, <2>1, <2>5 DEF StepSound
        <3> QED
            BY <2>7, <3>1, MembersOfBoth
    <2>9. Passes(p, step.peer, new)
        BY <1>2, <2>1, <2>6, <2>7, <2>8 DEF Passes, q
    <2> HIDE DEF new
    <2> QED
        BY <2>3, <2>4, <2>9, KeepsBoth
<1>4. ASSUME NEW p \in Peers, NEW f, InPlace(f), p \in connected,
             ~peer[p].sender.input.closed, PeerSound(WithInput(p, f)),
             f.popped = peer[p].sender.input.popped,
             f.error = peer[p].sender.input.error, f.pushed <= Supply[p],
             f.closed => Buffered(f) = 0 /\ InFlight(peer[p].sender) = 0,
             Does(p, PeerPush(WithInput(p, f))), connected' = connected
      PROVE  Promises' /\ Partings'
    <2> DEFINE step == PeerPush(WithInput(p, f))
    <2>1. ~peer[p].sender.finSent
        BY <1>2, <1>4, WriterSound
    <2>2. StepSound(step)
        BY <1>4, PeerPushSound
    <2>3. GoesOn(p, step.peer, Members(step.out))
        BY <1>2, <1>4, <2>1, PushGoesOn
    <2>4. Keeps(p, step.peer, Members(step.out))
        BY <1>2, <1>4, <2>1, PushKeeps
    <2>5. Does(p, step)
        BY <1>4
    <2> HIDE DEF step
    <2>6. Passes(p, step.peer, Members(step.out))
        BY <1>2, <1>4, <2>2, <2>5, DoesPasses
    <2> QED
        BY <2>3, <2>4, <2>6, KeepsBoth
<1>5. ASSUME NEW p \in Peers, NEW n \in 1 .. SendCapacity, Write(p, n)
      PROVE  Promises' /\ Partings'
    <2> DEFINE f == peer[p].sender.input
               w == Written(f, n)
    <2>1. /\ ~f.closed /\ p \in connected /\ connected' = connected
          /\ Does(p, PeerPush(WithInput(p, w)))
          /\ f.pushed + n <= Supply[p]
        BY <1>5 DEF Write, MayWrite, Written
    <2>2. InPlace(f) /\ PeerSound(WithInput(p, w)) /\ n \in Nat
        BY <1>2, <2>1, WriterSound
    <2>3. /\ InPlace(w) /\ w.popped = f.popped /\ w.closed = f.closed
          /\ w.error = f.error /\ w.pushed <= f.pushed + n
        BY <2>2, WrittenInPlace
    <2> HIDE DEF w
    <2>4. w.pushed <= Supply[p]
        <3>1. w.pushed \in Nat /\ f.pushed \in Nat /\ Supply[p] \in Nat
            BY <2>2, <2>3, InPlaceNumbers, ConnectionConstants
        <3> DEFINE k == w.pushed
                   m == f.pushed
        <3>2. k \in Nat /\ m \in Nat /\ k <= m + n /\ m + n <= Supply[p]
            BY <2>1, <2>3, <3>1
        <3> HIDE DEF k, m
        <3>3. k <= Supply[p]
            BY <3>1, <3>2
        <3> QED
            BY <3>3 DEF k
    <2> QED
        BY <1>4, <2>1, <2>2, <2>3, <2>4
<1>6. ASSUME NEW p \in Peers, CloseOutbound(p) PROVE Promises' /\ Partings'
    <2> DEFINE f == peer[p].sender.input
               w == Close(f)
    <2>1. /\ ~f.closed /\ p \in connected /\ connected' = connected
          /\ Does(p, PeerPush(WithInput(p, w)))
          /\ InFlight(peer[p].sender) = 0 /\ Buffered(f) = 0
        BY <1>6 DEF CloseOutbound, MayClose, MayWrite
    <2>2. InPlace(f) /\ PeerSound(WithInput(p, w))
        BY <1>2, <2>1, WriterSound
    <2>3. /\ InPlace(w) /\ w.popped = f.popped /\ w.buf = f.buf
          /\ w.error = f.error /\ w.pushed = f.pushed
        BY <2>2, MarksInPlace
    <2> HIDE DEF w
    <2>4. w.pushed <= Supply[p] /\ Buffered(w) = 0
        BY <1>2, <2>1, <2>3, InvSays DEF Buffered
    <2> QED
        BY <1>4, <2>1, <2>2, <2>3, <2>4
<1>7. ASSUME NEW p \in Peers, NEW y, peer' = [peer EXCEPT ![p] = y], net' = net,
             connected' = connected, GoesOn(p, y, {}), Keeps(p, y, {})
      PROVE  Promises' /\ Partings'
    <2>1. Passes(p, y, {})
        BY <1>2, <1>7 DEF Passes
    <2> QED
        BY <1>7, <2>1, KeepsBoth
<1>8. ASSUME NEW p \in Peers, Read(p) PROVE Promises' /\ Partings'
    <2>1. PICK n \in 1 .. Buffered(Inbound(peer[p])) :
              peer' = [peer EXCEPT ![p].receiver.reasm.output = Pop(@, n)]
        BY <1>8 DEF Read
    <2> DEFINE x == peer[p]
               y == [x EXCEPT !.receiver.reasm.output = Pop(@, n)]
               v == peer[Other(p)].sender
               r == x.receiver
    <2>2. peer' = [peer EXCEPT ![p] = y]
        BY <1>2, <2>1
    <2>3. /\ n \in Nat /\ n <= Buffered(Inbound(x))
          /\ n <= Buffered(x.receiver.reasm.output)
        BY <2>1 DEF Inbound
    <2>4. y.linger = x.linger /\ y.quiet = x.quiet
        BY <1>2 DEF PeerType
    <2> HIDE DEF y
    <2>5. /\ PeerSound(y) /\ y.sender = x.sender
          /\ y.receiver = [x.receiver EXCEPT !.reasm =
                [x.receiver.reasm EXCEPT !.output = Pop(x.receiver.reasm.output, n)]]
        BY <1>2, <2>3, ReadSound DEF y
    <2>6. /\ SenderSound(v) /\ ReceiverSound(r) /\ RecvRight(r, v) /\ Tidy(r)
        BY <1>2, InvSays, PromisesSay
    <2>7. InPlace(r.reasm.output)
        BY <2>6 DEF RecvRight, Streams
    <2> DEFINE u == y.receiver
    <2>8. u = [r EXCEPT !.reasm = [r.reasm EXCEPT !.output = Pop(r.reasm.output, n)]]
          /\ n <= Buffered(r.reasm.output)
        BY <2>3, <2>5
    <2> HIDE DEF u, r, v
    <2>9. RecvRight(u, v) /\ Opens(r, u) /\ u.init = r.init
        BY <2>3, <2>6, <2>8, ReadRight
    <2>10. Tidy(u) /\ Moves(r, u)
        BY <2>3, <2>6, <2>7, <2>8, ReadMoves
    <2>11. u.reasm.output.closed = r.reasm.output.closed
        <3>1. r \in ReceiverType /\ r.reasm \in ReassemblerType
            BY <2>6 DEF ReceiverSound, ReceiverType
        <3>2. u.reasm.output = Pop(r.reasm.output, n)
            BY <2>8, <3>1 DEF ReceiverType, ReassemblerType
        <3> QED
            BY <2>3, <2>7, <2>8, <3>2, PopInPlace
    <2>12. GoesOn(p, y, {})
        BY <1>2, <2>5, <2>9, QuietGoesOn DEF u, r, v
    <2>13. Keeps(p, y, {})
        BY <1>2, <2>4, <2>5, <2>10, <2>11, QuietKeeps DEF u, r, Inbound
    <2> QED
        BY <1>7, <1>8, <2>2, <2>12, <2>13 DEF Read
<1>9. ASSUME NEW p \in Peers, Does(p, PeerTick(peer[p])), connected' = connected
      PROVE  Promises' /\ Partings'
    <2> DEFINE step == PeerTick(peer[p])
    <2>1. StepSound(step)
        BY <1>2, PeerTickSound
    <2>2. GoesOn(p, step.peer, Members(step.out)) /\ Keeps(p, step.peer, Members(step.out))
        BY <1>2, TickGoesOn, TickKeeps
    <2> HIDE DEF step
    <2>3. Passes(p, step.peer, Members(step.out))
        BY <1>2, <1>9, <2>1, DoesPasses DEF step
    <2> QED
        BY <2>2, <2>3, KeepsBoth
<1>10. ASSUME NEW p \in Peers, NEW y, PeerSound(y), y.sender = peer[p].sender,
              y.receiver = peer[p].receiver, y.linger = peer[p].linger,
              y.quiet => \/ peer[p].quiet
                         \/ /\ Inbound(peer[p]).closed
                            /\ FewFaults => InFlight(peer[Other(p)].sender) = 0
       PROVE  GoesOn(p, y, {}) /\ Keeps(p, y, {})
    <2> DEFINE r == peer[p].receiver
    <2>1. /\ ReceiverSound(r) /\ RecvRight(r, peer[Other(p)].sender) /\ Tidy(r)
        BY <1>2, InvSays, PromisesSay
    <2>2. Opens(r, r) /\ Moves(r, r)
        BY <2>1, ReceiverNumbers DEF Opens, Moves
    <2>3. Inbound(y) = Inbound(peer[p])
        BY <1>10 DEF Inbound
    <2> QED
        BY <1>2, <1>10, <2>1, <2>2, <2>3, QuietGoesOn, QuietKeeps
<1>11. ASSUME NEW p \in Peers, LingerExpires(p) PROVE Promises' /\ Partings'
    <2> DEFINE x == peer[p]
               y == [x EXCEPT !.quiet = TRUE]
    <2>1. peer' = [peer EXCEPT ![p] = y] /\ net' = net /\ connected' = connected
        BY <1>11 DEF LingerExpires
    <2>2. /\ Inbound(x).closed
          /\ FewFaults => InFlight(peer[Other(p)].sender) = 0
        BY <1>11 DEF LingerExpires, MayLeave, ReceiverActive, LeavesInTime
    <2>3. y \in PeerType /\ y.sender = x.sender /\ y.receiver = x.receiver
          /\ y.linger = x.linger
        BY <1>2 DEF PeerType
    <2> HIDE DEF y
    <2>4. PeerSound(y)
        BY <1>2, <2>3 DEF PeerSound
    <2> QED
        BY <1>7, <1>10, <2>1, <2>2, <2>3, <2>4
<1>12. ASSUME NEW p \in Peers, peer' = peer, connected' = connected,
              net'[Other(p)] = net[Other(p)],
              Members(net'[p]) \in SUBSET Members(net[p])
       PROVE  Promises' /\ Partings'
    <2>1. GoesOn(p, peer[p], {}) /\ Keeps(p, peer[p], {})
        BY <1>2, <1>10
    <2>2. peer' = [peer EXCEPT ![p] = peer[p]]
        BY <1>2, <1>12
    <2>3. Passes(p, peer[p], {})
        BY <1>2, <1>12, <2>2 DEF Passes
    <2> QED
        BY <2>1, <2>3, KeepsBoth
<1>13. ASSUME NEW p \in Peers, Lose(p) \/ Delay(p) PROVE Promises' /\ Partings'
    <2> DEFINE n == net[p]
    <2>1. n \in Seq(Datagram) /\ n # << >>
        BY <1>2, <1>13, EmptySeq DEF Lose, Delay
    <2>2. net'[p] \in {Tail(n), Append(Tail(n), Head(n))}
        BY <1>2, <1>13 DEF Lose, Delay
    <2>3. net'[Other(p)] = net[Other(p)] /\ peer' = peer /\ connected' = connected
        BY <1>2, <1>13, TwoPeers DEF Lose, Delay
    <2> HIDE DEF n
    <2>4. Members(net'[p]) \in SUBSET Members(n)
        BY <2>1, <2>2, NetWithoutFirst
    <2> QED
        BY <1>12, <2>3, <2>4 DEF n
<1>14. ASSUME peer' = peer, net' = net PROVE Promises' /\ Partings'
    BY <1>2, <1>14 DEF Promises, Promise, Partings, Parting
<1>15. UNCHANGED vars => Promises' /\ Partings'
    <2> SUFFICES ASSUME UNCHANGED vars PROVE Promises' /\ Partings'
        OBVIOUS
    <2>1. peer' = peer /\ net' = net
        BY DEF vars
    <2> QED
        BY <1>14, <2>1
<1>16. ASSUME NEW p \in Peers, Connects(p) PROVE Promises' /\ Partings'
    BY <1>14, <1>16 DEF Connects
<1>17. ASSUME NEW p \in Peers, Tick(p) \/ EarlyTick(p) PROVE Promises' /\ Partings'
    BY <1>9, <1>17 DEF Tick, EarlyTick, TimerRunsOut
<1>18. Promises' /\ Partings'
    BY <1>3, <1>5, <1>6, <1>8, <1>11, <1>13, <1>15, <1>16, <1>17 DEF Next, Done
<1> QED
    BY <1>1, <1>18 DEF AckInv

LEMMA InitAckInv == Init => AckInv
<1> SUFFICES ASSUME Init PROVE AckInv
    OBVIOUS
<1> DEFINE fresh == [p \in Peers |-> NewPeer(SendCapacity, RecvCapacity, ISN[p])]
           c == Client
           q == Other(c)
           x == fresh[c]
           z == fresh[q]
           step == PeerPush(x)
           y == step.peer
           new == Members(step.out)
           s == x.sender
           v == z.sender
           r == z.receiver
           t == PushAll(s).sender
           out == PushAll(s).out
<1>1. /\ c \in Peers /\ q \in Peers /\ q # c /\ Other(q) = c
      /\ \A p \in Peers : p = c \/ p = q
    BY ConnectionConstants, TwoPeers
<1>2. /\ peer = [fresh EXCEPT ![c] = y]
      /\ net = [p \in Peers |-> IF p = c THEN << >> ELSE step.out]
    BY DEF Init
<1>3. peer[c] = y /\ peer[q] = z /\ net[c] = << >> /\ net[q] = step.out
    BY <1>1, <1>2
<1>4. ISN[c] \in 0 .. Modulus - 1 /\ ISN[q] \in 0 .. Modulus - 1
    BY <1>1, ConnectionConstants
<1>5. /\ s = NewSender(SendCapacity, ISN[c]) /\ x.receiver = NewReceiver(RecvCapacity)
      /\ v = NewSender(SendCapacity, ISN[q]) /\ r = NewReceiver(RecvCapacity)
      /\ x.linger /\ ~x.quiet /\ z.linger /\ ~z.quiet
    BY <1>1 DEF NewPeer
<1>6. PeerSound(x) /\ PeerSound(z)
    BY <1>1, <1>4, NewPeerSound
<1>7. /\ StepSound(step) /\ y.sender = t /\ y.receiver = x.receiver
      /\ Carry(step.out, Members(out), ReceiverSend(x.receiver))
      /\ y.linger = x.linger /\ y.quiet = x.quiet
    BY <1>6, PeerPushSound, PushFlags
<1> HIDE DEF fresh, q, step, x, z, s, v, r, t, out
<1>8. /\ SenderSound(s) /\ SenderSound(t) /\ SenderSound(v)
      /\ ReceiverSound(r) /\ y.receiver = r
    BY <1>5, <1>6, <1>7 DEF PeerSound, StepSound, s, v, r
<1>9. /\ SendRight(s, WindowEdge(r.reasm)) /\ RecvRight(r, s)
      /\ Idle(s) /\ s.last = 0 /\ s.ost = {} /\ ~r.init
    BY <1>4, <1>5, NewRight
<1>10. /\ s.isn = ISN[c] /\ v.isn = ISN[q] /\ ~s.finSent /\ ~s.finAcked
       /\ v.last = 0 /\ v.ost = {} /\ ~v.finSent /\ ~v.finAcked
       /\ ~s.input.closed /\ ~v.input.closed
    BY <1>5 DEF NewSender, NewFifo
<1>11. Members(<< >>) = {}
    BY EmptySeq DEF Members
<1>12. /\ ~r.fin /\ ~r.reasm.output.closed /\ ~r.reasm.hasLast
       /\ r.reasm.segs = {} /\ Got(r) = 0
    BY <1>5, <1>9 DEF NewReceiver, NewReassembler, NewFifo, Got
<1>13. Tidy(r)
    BY <1>12 DEF Tidy, AllLater
<1>14. Ends(t, r) /\ \A m \in Members(out) : Bare(m)
    <2>1. MayEnd(s) /\ s.last <= Got(r)
        BY <1>9, <1>10, <1>12 DEF MayEnd
    <2>2. t = PushAll(s).sender /\ out = PushAll(s).out
        BY DEF t, out
    <2> QED
        BY <1>8, <1>9, <1>10, <2>1, <2>2, PushEnds
<1>15. Ends(v, r)
    BY <1>10, <1>12 DEF Ends
<1>16. t.isn = s.isn
    <2>1. WindowEdge(r.reasm) \in Nat
        BY <1>8, ReceiverNumbers
    <2>2. Advances(s, t)
        BY <1>8, <1>9, <2>1, PushAllRight DEF t
    <2> QED
        BY <2>2 DEF Advances
<1>17. \A d \in new : /\ Bare(d.sender)
                      /\ d.receiver = ReceiverSend(r)
    BY <1>7, <1>8, <1>14 DEF Carry
<1>18. ~ReceiverSend(r).hasAck
    BY <1>8, <1>9, ReceiverSendType
<1>19. \A d \in new : Acks(d.receiver, r, v)
    BY <1>17, <1>18 DEF Acks
<1> HIDE DEF new, y
<1>20. peer[q].sender = v /\ peer[q].receiver = r /\ Members(net[q]) = new
       /\ Members(net[c]) = {}
    BY <1>3, <1>11 DEF v, r, new
<1>21. Promise(c)
    BY <1>3, <1>7, <1>10, <1>13, <1>14, <1>16, <1>17, <1>20 DEF Promise, q
<1>22. Promise(q)
    BY <1>1, <1>3, <1>8, <1>10, <1>13, <1>15, <1>19, <1>20 DEF Promise
<1>23. Parting(c) /\ Parting(q)
    BY <1>3, <1>5, <1>7 DEF Parting
<1> QED
    BY <1>1, <1>21, <1>22, <1>23, InitInv DEF AckInv, Promises, Partings

-----------------------------------------------------------------------------
(***************************************************************************)
(* How long a FIN goes unanswered.  A sender that waits for an answer has  *)
(* its timer running and something to send again when it expires; after    *)
(* the FIN that is the FIN.                                                *)
(***************************************************************************)
EndsAt(x) == x.at + SequenceLength(x.msg)

\* With all acknowledged there is nothing to send again and the timeout is the
\* first one; otherwise the timer runs and the last number sent is still kept.
\* The FIN is sent when all before it is acknowledged.
Steady(s) ==
    /\ \A x \in s.ost : EndsAt(x) <= s.exp
    /\ s.last = s.exp => s.ost = {} /\ (s.exp # 0 => s.rto = InitialRTO)
    /\ s.last # s.exp => s.running /\ \E x \in s.ost : EndsAt(x) = s.exp
    /\ s.finSent => s.exp <= s.last + 1 /\ \A x \in s.ost : x.msg.FIN

LEMMA AckSteady ==
    ASSUME NEW s \in SenderType, Steady(s), s.last <= s.exp,
           NEW ackno \in Nat, NEW window \in Nat, NEW t, t = TakeAck(s, ackno, window)
    PROVE  Steady(t) /\ (s.finSent => t.rto = s.rto \/ InFlight(t) = 0)
<1>1. /\ s.last \in Nat /\ s.exp \in Nat
      /\ \A x \in s.ost : EndsAt(x) \in Nat
    BY SequenceLengthIs DEF SenderType, Segment, EndsAt
<1>2. /\ t.exp = s.exp /\ t.finSent = s.finSent
      /\ \/ t = s
         \/ TakenAsNew(s, t, ackno)
         \/ TakenAsOld(s, t, ackno)
    BY TakeAckChanges
<1>3. CASE t = s
    BY <1>3
<1>4. CASE TakenAsOld(s, t, ackno)
    <2>1. /\ t.last = s.last /\ t.ost = s.ost /\ t.rto = s.rto
          /\ t.running <=> s.running /\ s.ost # {}
        BY <1>4 DEF TakenAsOld
    <2> QED
        BY <1>2, <2>1 DEF Steady
<1>5. CASE TakenAsNew(s, t, ackno)
    <2>1. /\ ackno <= s.exp /\ ackno > s.last /\ t.last = ackno
          /\ t.rto = InitialRTO /\ (t.running <=> t.ost # {})
          /\ t.ost = Unacked(s.ost, ackno)
        BY <1>5 DEF TakenAsNew
    <2>2. t.ost \in SUBSET s.ost
        BY <2>1 DEF Unacked
    <2>3. ASSUME ackno = s.exp PROVE t.ost = {}
        <3> SUFFICES ASSUME NEW x \in t.ost PROVE FALSE
            OBVIOUS
        <3>1. PICK y \in s.ost : EndsAt(y) > ackno
            BY <2>1 DEF Unacked, EndsAt
        <3> QED
            BY <1>1, <2>3, <3>1 DEF Steady
    <2>4. ASSUME ackno # s.exp PROVE \E x \in t.ost : EndsAt(x) = s.exp
        <3>1. PICK x \in s.ost : EndsAt(x) = s.exp
            BY <1>1, <2>1 DEF Steady
        <3>2. x.at \in Nat /\ x.at <= x.at /\ EndsAt(x) > ackno
            BY <1>1, <2>1, <2>4, <3>1 DEF SenderType, Segment
        <3>3. x \in t.ost
            BY <2>1, <3>2 DEF Unacked, EndsAt
        <3> QED
            BY <3>1, <3>3
    <2>5. s.finSent => ackno = s.exp
        BY <1>1, <2>1 DEF Steady
    <2>6. Steady(t)
        BY <1>1, <1>2, <2>1, <2>2, <2>3, <2>4, <2>5 DEF Steady
    <2>7. s.finSent => InFlight(t) = 0
        BY <1>1, <1>2, <2>1, <2>5 DEF InFlight
    <2> QED
        BY <2>6, <2>7
<1> QED
    BY <1>2, <1>3, <1>4, <1>5

LEMMA ReceiveSteady ==
    ASSUME NEW s, SenderSound(s), Steady(s), NEW edge, SendRight(s, edge),
           NEW m \in AckMessage, ~m.RST, m.hasAck \/ Idle(s),
           NEW t, t = SenderReceive(s, m)
    PROVE  Steady(t) /\ (s.finSent => t.rto = s.rto \/ InFlight(t) = 0)
<1>1. /\ s \in SenderType /\ s.last <= s.exp /\ (s.finSent => s.input.closed)
      /\ m.window \in Nat /\ m.hasAck \in BOOLEAN
    BY DEF SenderSound, SendRight, AckMessage
<1>2. CASE m.hasAck
    <2>1. TakesAck(s, t)
        BY <1>1, <1>2, AckCases
    <2>2. PICK ackno, window \in Nat : t = TakeAck(s, ackno, window)
        BY <2>1 DEF TakesAck
    <2> QED
        BY <1>1, <2>2, AckSteady
<1>3. CASE ~m.hasAck
    <2> DEFINE o == StartOver(s, m.window)
    <2>1. t = TakeAck(o, 0, m.window)
        BY <1>3 DEF SenderReceive
    <2>2. o \in SenderType /\ o.last = 0 /\ o.exp = 0 /\ o.ost = {}
        BY <1>1, StartOverChanges
    <2> HIDE DEF o
    <2>3. Steady(o)
        BY <2>2 DEF Steady
    <2>4. o.last <= o.exp /\ m.window \in Nat
        BY <1>1, <2>2
    <2>5. Steady(t)
        BY <2>1, <2>2, <2>3, <2>4, AckSteady
    <2> QED
        BY <1>1, <1>3, <2>5 DEF Idle
<1> QED
    BY <1>2, <1>3

LEMMA TickSteady ==
    ASSUME NEW s, SenderSound(s), Steady(s), NEW t, t = TickExpires(s)
    PROVE  /\ Steady(t) /\ t.rto \in Nat /\ t.rto <= 2 * s.rto
           /\ t.last = s.last /\ t.exp = s.exp /\ t.finSent = s.finSent
           /\ s.finSent /\ s.last # s.exp =>
                 \E m : m.FIN /\ TickTransmits(s) = << m >>
<1>1. s \in SenderType /\ s.rto \in Nat
    BY DEF SenderSound, SenderType
<1>2. /\ t \in SenderType /\ t.last = s.last /\ t.exp = s.exp
      /\ t.finSent = s.finSent /\ t.ost = s.ost
      /\ t.running <=> s.ost # {}
      /\ t.rto = s.rto \/ t.rto = 2 * s.rto
    BY <1>1, TickChanges
<1>3. t.rto \in Nat /\ t.rto <= 2 * s.rto
    BY <1>1, <1>2 DEF SenderType
<1>4. s.ost = {} => t.rto = s.rto
    BY <1>1 DEF TickExpires, SenderType
<1>5. Steady(t)
    BY <1>2, <1>4 DEF Steady
<1>6. ASSUME s.finSent, s.last # s.exp
      PROVE  \E m : m.FIN /\ TickTransmits(s) = << m >>
    <2>1. s.ost # {}
        BY <1>6 DEF Steady
    <2>2. Oldest(s.ost) \in s.ost
        BY <1>1, <2>1, OldestIsOne
    <2> QED
        BY <1>6, <2>1, <2>2 DEF Steady, TickTransmits
<1> QED
    BY <1>2, <1>3, <1>5, <1>6

\* What push's loop keeps of it, from the sender it starts with.
Holds(x, s) ==
    LET y == x.sender IN
    /\ y.last = s.last /\ y.rto = s.rto
    /\ \A z \in y.ost : EndsAt(z) <= y.exp
    /\ \/ y = s
       \/ y.running /\ s.exp < y.exp /\ \E z \in y.ost : EndsAt(z) = y.exp
    /\ y.finSent => s.finSent \/ \E m \in Members(x.loop.out) : m.FIN
    /\ s.input.closed => \A z \in y.ost : z.msg.FIN

LEMMA TurnHolds ==
    ASSUME NEW s, SenderSound(s), NEW x \in LoopStates, Tells(x, s), Holds(x, s)
    PROVE  Holds(PushTurn(x), s)
<1> DEFINE y == x.sender
           l == x.loop
           msg == TurnMessage(y, l)
           n == TurnBytes(y, l)
           t == TurnSender(y, msg)
           k == TurnLoop(y, l, msg)
           e == SequenceLength(msg)
           new == [at |-> y.exp, msg |-> msg]
<1>1. LoopRight(y, l) /\ l.out \in Seq(Message) /\ y \in SenderType
    BY DEF LoopStates, LoopRight
<1>2. /\ InPlace(y.input) /\ Buffered(y.input) \in Nat
      /\ y.exp \in Nat /\ s.exp \in Nat
      /\ \A z \in y.ost : EndsAt(z) \in Nat
    BY <1>1, SenderNumbers, InPlaceNumbers, SequenceLengthIs
       DEF LoopRight, SenderType, Segment, EndsAt
<1>3. CASE Turns(l)
    <2>1. PushTurn(x) = [sender |-> t, loop |-> k]
        BY <1>3 DEF PushTurn
    <2>2. /\ msg \in Message /\ n \in Nat /\ n <= Buffered(y.input)
          /\ e \in Nat /\ e > 0
          /\ e = Flag(y.exp = 0) + n + Flag(msg.FIN)
        BY <1>1, <1>3, TurnSendsSome
    <2>3. Turned(y, l, t, k)
        BY <1>1, <1>3, TurnMoves
    <2>4. /\ t.last = y.last /\ t.rto = y.rto /\ t.running /\ t.exp = y.exp + e
          /\ t.finSent = (y.finSent \/ msg.FIN)
          /\ t.ost = y.ost \cup {new} /\ k.out = Append(l.out, msg)
        BY <2>3 DEF Turned
    <2>5. Members(k.out) = Members(l.out) \cup {msg}
        BY <1>1, <2>2, <2>4, MembersAppend
    <2>6. EndsAt(new) = y.exp + e /\ new.msg = msg /\ new \in t.ost
        BY <2>4 DEF EndsAt
    <2>7. s.input.closed => msg.FIN
        <3> SUFFICES ASSUME s.input.closed PROVE msg.FIN
            OBVIOUS
        <3> DEFINE f == Flag(msg.FIN)
                   g == Flag(y.exp = 0)
        <3>1. n = 0 /\ g = 0
            BY <1>2, <2>2 DEF Tells, Flag
        <3>2. e = g + n + f /\ f \in {0, 1} /\ (f = 1 => msg.FIN)
            BY <2>2 DEF Flag
        <3> HIDE DEF e, f, g, n, msg
        <3> QED
            BY <2>2, <3>1, <3>2
    <2>8. PushTurn(x).sender = t /\ PushTurn(x).loop = k
        BY <2>1
    <2> HIDE DEF y, l, msg, n, t, k, e, new
    <2>9. y.last = s.last /\ y.rto = s.rto /\ (y = s \/ s.exp < y.exp)
        BY DEF Holds, y
    <2>10. s.exp < t.exp
        BY <1>2, <2>2, <2>4, <2>9
    <2>11. \A z \in t.ost : EndsAt(z) <= t.exp
        <3>1. \A z \in y.ost : EndsAt(z) <= y.exp
            BY DEF Holds, y
        <3>2. \A z \in y.ost : EndsAt(z) <= t.exp
            BY <1>2, <2>2, <2>4, <3>1
        <3>3. EndsAt(new) <= t.exp
            BY <1>2, <2>2, <2>4, <2>6
        <3> QED
            BY <2>4, <3>2, <3>3
    <2>12. t.finSent => s.finSent \/ \E m \in Members(k.out) : m.FIN
        BY <2>4, <2>5 DEF Holds, y, l
    <2>13. s.input.closed => \A z \in t.ost : z.msg.FIN
        BY <2>4, <2>6, <2>7 DEF Holds, y
    <2>14. \E z \in t.ost : EndsAt(z) = t.exp
        BY <2>4, <2>6
    <2> QED
        BY <2>4, <2>8, <2>9, <2>10, <2>11, <2>12, <2>13, <2>14 DEF Holds
<1>4. CASE ~Turns(l)
    BY <1>4 DEF PushTurn
<1> QED
    BY <1>3, <1>4

LEMMA PushSteady ==
    ASSUME NEW s, SenderSound(s), Steady(s), NEW edge \in Nat, SendRight(s, edge),
           MayEnd(s), \A x \in s.ost : Bare(x.msg),
           NEW t, t = PushAll(s).sender, NEW out, out = PushAll(s).out
    PROVE  /\ Steady(t) /\ t.rto = s.rto /\ t.last = s.last
           /\ t.finSent => s.finSent \/ \E m \in Members(out) : m.FIN
<1>1. /\ s.exp \in Nat /\ s.last \in Nat /\ s.last <= s.exp
      /\ s.finSent \in BOOLEAN /\ s.input.popped \in Nat
      /\ Buffered(s.input) \in Nat
    BY SenderNumbers DEF SendRight
<1>2. Members(<< >>) = {}
    BY EmptySeq DEF Members
<1>3. CASE PushReturns(s)
    <2>1. t = s
        BY <1>3 DEF PushAll
    <2> QED
        BY <2>1
<1>4. CASE ~PushReturns(s)
    <2> DEFINE x == [sender |-> s, loop |-> PushLoop(s)]
               S == {y \in LoopStates : Tells(y, s) /\ Holds(y, s)}
    <2>1. x \in LoopStates
        BY <1>4, PushStarts
    <2>2. x.sender = s /\ x.loop = PushLoop(s) /\ PushLoop(s).out = << >>
        BY DEF PushLoop
    <2> HIDE DEF x
    <2>3. Tells(x, s)
        BY <1>2, <2>2 DEF Tells, MayEnd
    <2>4. Holds(x, s)
        <3>1. s.input.closed => \A z \in s.ost : z.msg.FIN
            BY DEF MayEnd, Steady
        <3> QED
            BY <2>2, <3>1 DEF Holds, Steady
    <2>5. ASSUME NEW y \in LoopStates, Tells(y, s), Holds(y, s)
          PROVE  PushTurn(y) \in S
        BY <2>5, TurnTells, TurnStays, TurnHolds
    <2>6. PushTurn(x) \in S
        BY <2>1, <2>3, <2>4, <2>5
    <2>7. \A y \in S : PushTurn(y) \in S
        BY <2>5
    <2> DEFINE z == PushLoops(s)
    <2>8. z \in S
        <3> HIDE DEF S
        <3> QED
            BY <1>1, <2>6, <2>7, PushLoopsStays DEF x
    <2>9. Tells(z, s) /\ Holds(z, s)
        BY <2>8
    <2>10. t = z.sender /\ out = z.loop.out
        BY <1>4 DEF PushAll
    <2> HIDE DEF z
    <2>11. /\ t.last = s.last /\ t.rto = s.rto
           /\ \A w \in t.ost : EndsAt(w) <= t.exp
           /\ t = s \/ (t.running /\ s.exp < t.exp /\ \E w \in t.ost : EndsAt(w) = t.exp)
           /\ t.finSent => s.finSent \/ \E m \in Members(out) : m.FIN
           /\ s.input.closed => \A w \in t.ost : w.msg.FIN
        BY <2>9, <2>10 DEF Holds
    <2>12. SenderSound(t) /\ t.exp \in Nat /\ t.input.popped \in Nat
        BY PushAllSound, SenderNumbers
    <2>13. /\ SendRight(t, edge) /\ Advances(s, t) /\ t.exp # 0 /\ s.exp <= t.exp
           /\ t.input.pushed = s.input.pushed /\ t.input.closed = s.input.closed
        BY PushAllRight
    <2>14. ASSUME t.finSent PROVE t.exp <= t.last + 1 /\ s.input.closed
        <3>1. s.input.closed
            BY <2>12, <2>13, <2>14 DEF SenderSound
        <3>2. Buffered(s.input) = 0 /\ s.exp # 0 /\ (s.finSent \/ s.last = s.exp)
            BY <3>1 DEF MayEnd
        <3>3. Buffered(t.input) = 0
            BY <2>9, <2>10, <3>2 DEF Tells
        <3>4. t.input.popped = s.input.popped
            BY <2>12, <2>13, <3>2, <3>3, SenderNumbers
        <3>5. t.exp = 1 + t.input.popped + 1
            BY <2>12, <2>13, <2>14 DEF SendRight, Flag
        <3>6. s.exp = 1 + s.input.popped + IF s.finSent THEN 1 ELSE 0
            BY <3>2 DEF SendRight, Flag
        <3>7. s.finSent => s.exp <= s.last + 1
            BY DEF Steady
        <3> QED
            BY <1>1, <2>11, <2>12, <3>1, <3>2, <3>4, <3>5, <3>6, <3>7
    <2>15. t.last = t.exp => t = s
        BY <1>1, <2>11, <2>12
    <2>16. Steady(t)
        BY <2>11, <2>14, <2>15 DEF Steady
    <2> QED
        BY <2>11, <2>16
<1> QED
    BY <1>3, <1>4

LEMMA NewSteady ==
    ASSUME NEW capacity, NEW isn
    PROVE  Steady(NewSender(capacity, isn))
BY DEF Steady, NewSender

\* Every message is sent, and an answer that is due leaves with it.
LEMMA SendsAll ==
    ASSUME NEW x, PeerSound(x), NEW msgs \in Seq(Message)
    PROVE  /\ \A m \in Members(msgs) :
                 \E d \in Members(Sends(x, msgs).out) : d.sender = m
           /\ Sends(x, msgs).peer.needSend = (x.needSend /\ msgs = << >>)
<1> DEFINE m == ReceiverSend(x.receiver)
           asks == x.needSend /\ msgs = << >>
           y == [x EXCEPT !.needSend = asks]
           out == [i \in 1 .. Len(msgs) |-> [sender |-> msgs[i], receiver |-> m]]
<1>1. Len(msgs) \in Nat /\ DOMAIN msgs = 1 .. Len(msgs)
    BY LenProperties
<1>2. Sends(x, msgs) = [peer |-> y, out |-> out]
    BY <1>1 DEF Sends
<1>3. Sends(x, msgs).out \in Seq(Datagram)
    BY SendsSound DEF StepSound
<1>4. y.needSend = asks
    <2>1. x \in PeerType
        BY DEF PeerSound
    <2> QED
        BY <2>1 DEF PeerType
<1> HIDE DEF asks, y, out
<1>5. DOMAIN out = 1 .. Len(msgs) /\ out \in Seq(Datagram)
    BY <1>2, <1>3 DEF out
<1>6. Len(out) = Len(msgs)
    BY <1>1, <1>5, LenProperties
<1>7. \A i \in 1 .. Len(msgs) : out[i].sender = msgs[i]
    BY DEF out
<1>8. \A e \in Members(msgs) : \E d \in Members(out) : d.sender = e
    BY <1>6, <1>7 DEF Members
<1> QED
    BY <1>2, <1>4, <1>8 DEF asks

LEMMA PushSends ==
    ASSUME NEW x, PeerSound(x)
    PROVE  \A m \in Members(PushAll(x.sender).out) :
              \E d \in Members(PeerPush(x).out) : d.sender = m
<1> DEFINE s == PushAll(x.sender).sender
           msgs == PushAll(x.sender).out
           y == [x EXCEPT !.sender = s]
<1>1. SenderSound(s) /\ msgs \in Seq(Message)
    BY PushAllSound DEF PeerSound
<1>2. PeerPush(x) = Sends(y, msgs)
    BY DEF PeerPush
<1> HIDE DEF s, msgs
<1>3. PeerSound(y)
    BY <1>1, PeerChanges
<1> HIDE DEF y
<1> QED
    BY <1>1, <1>2, <1>3, SendsAll DEF msgs

LEMMA TickSends ==
    ASSUME NEW x, PeerSound(x)
    PROVE  \A m \in Members(TickTransmits(x.sender)) :
              \E d \in Members(PeerTick(x).out) : d.sender = m
<1> DEFINE s == TickExpires(x.sender)
           msgs == TickTransmits(x.sender)
           y == [x EXCEPT !.sender = s]
<1>1. SenderSound(s) /\ msgs \in Seq(Message)
    BY TickSound DEF PeerSound
<1>2. PeerTick(x) = Sends(y, msgs)
    BY DEF PeerTick
<1> HIDE DEF s, msgs
<1>3. PeerSound(y)
    BY <1>1, PeerChanges
<1> HIDE DEF y
<1> QED
    BY <1>1, <1>2, <1>3, SendsAll DEF msgs

\* A peer that is active answers whatever occupies a sequence number.
LEMMA ReceiveAnswers ==
    ASSUME NEW x, PeerSound(x), NEW d \in Datagram, Active(x),
           SequenceLength(d.sender) > 0
    PROVE  Members(PeerReceive(x, d).out) # {}
<1> DEFINE y == TakesIn(x, d)
           s == PushAll(y.sender).sender
           msgs == PushAll(y.sender).out
           w == [y EXCEPT !.sender = s]
           pushed == PeerPush(y)
           e == EmptyMessage(pushed.peer.sender)
           reply == Sends(pushed.peer, << e >>)
<1>1. PeerSound(y)
    BY TakesInSound
<1>2. y.needSend
    <2> DEFINE r == ReceiverReceive(x.receiver, d.sender)
               g == SenderReceive(x.sender, d.receiver)
               asks == x.needSend \/ SequenceLength(d.sender) > 0 \/ KeepAlive(x, d)
               stays == x.linger /\ ~(Inbound(x).closed /\ ~Finished(x.sender.input))
    <2>1. x \in PeerType /\ asks
        BY DEF PeerSound
    <2>2. y = [x EXCEPT !.quiet = FALSE, !.needSend = asks, !.linger = stays,
                        !.receiver = r, !.sender = g]
        BY DEF TakesIn
    <2> HIDE DEF y, r, g, asks, stays
    <2> QED
        BY <2>1, <2>2 DEF PeerType
<1>3. PeerReceive(x, d) = IF pushed.peer.needSend
                            THEN [peer |-> reply.peer, out |-> pushed.out \o reply.out]
                            ELSE pushed
    BY DEF PeerReceive
<1>4. pushed = Sends(w, msgs)
    BY DEF PeerPush
<1>5. SenderSound(s) /\ msgs \in Seq(Message) /\ y \in PeerType
    BY <1>1, PushAllSound DEF PeerSound
<1> HIDE DEF y, s, msgs, pushed
<1>6. PeerSound(w) /\ w.needSend = y.needSend
    <2>1. PeerSound(w)
        BY <1>1, <1>5, PeerChanges
    <2> QED
        BY <1>5, <2>1 DEF PeerType
<1> HIDE DEF w
<1>7. /\ StepSound(pushed)
      /\ Members(msgs) # {} => Members(pushed.out) # {}
      /\ pushed.peer.needSend = (w.needSend /\ msgs = << >>)
    BY <1>4, <1>5, <1>6, SendsSound, SendsAll
<1>8. CASE pushed.peer.needSend
    <2>1. PeerSound(pushed.peer) /\ SenderSound(pushed.peer.sender)
        BY <1>7 DEF StepSound, PeerSound
    <2>2. e \in Message
        BY <2>1, EmptyMessageType
    <2> HIDE DEF e
    <2>3. << e >> \in Seq(Message) /\ e \in Members(<< e >>)
        BY <2>2 DEF Members
    <2>4. StepSound(reply) /\ Members(reply.out) # {}
        BY <2>1, <2>3, SendsSound, SendsAll
    <2> HIDE DEF reply
    <2>5. Members(pushed.out \o reply.out) # {}
        BY <1>7, <2>4, MembersOfBoth DEF StepSound
    <2> QED
        BY <1>3, <1>8, <2>5
<1>9. CASE ~pushed.peer.needSend
    <2>1. msgs # << >>
        BY <1>2, <1>6, <1>7, <1>9
    <2>2. Len(msgs) \in Nat /\ Len(msgs) # 0
        BY <1>5, <2>1, EmptySeq, LenProperties
    <2>3. 1 \in 1 .. Len(msgs)
        BY <2>2
    <2>4. Members(msgs) # {}
        BY <2>3 DEF Members
    <2> QED
        BY <1>3, <1>7, <1>9, <2>4
<1> QED
    BY <1>8, <1>9

\* What a datagram does to a peer that is active.
LEMMA ReceiveSays ==
    ASSUME Inv, Promises, SupplyIsShort, NEW p \in Peers, NEW d \in Members(net[p]),
           d.receiver.hasAck \/ p \notin connected,
           d.sender.SYN => ~peer[p].receiver.fin,
           Active(peer[p]), NEW q, q = Other(p),
           NEW s, s = peer[p].sender, Steady(s), NEW v, v = peer[q].sender,
           NEW step, step = PeerReceive(peer[p], d),
           NEW t, t = step.peer.sender
    PROVE  /\ Steady(t) /\ (t.finSent => s.finSent)
           /\ s.finSent => /\ t.exp = s.exp /\ t.isn = s.isn
                           /\ t.rto = s.rto \/ InFlight(t) = 0
           /\ s.finSent /\ d.receiver.hasAck /\ d.receiver.ackno = Wrap(s.exp, s.isn)
                => InFlight(t) = 0
           /\ d.sender.FIN => \E e \in Members(step.out) :
                 e.receiver.hasAck /\ e.receiver.ackno = Wrap(v.exp, v.isn)
           /\ ~d.sender.FIN =>
                 (Inbound(step.peer).closed <=> Inbound(peer[p]).closed)
<1> DEFINE x == peer[p]
           z == peer[q]
           edge == WindowEdge(z.receiver.reasm)
           wide == WindowEdge(x.receiver.reasm)
           a == d.receiver
           g == SenderReceive(s, a)
           u == ReceiverReceive(x.receiver, d.sender)
           out == PushAll(g).out
           r == z.receiver
           h == x.receiver
           m == d.sender
<1>1. /\ PeerSound(x) /\ PeerSound(z) /\ edge \in Nat
      /\ SenderSound(s) /\ SenderSound(v)
      /\ ReceiverSound(h) /\ ReceiverSound(r)
      /\ SendRight(s, edge) /\ RecvRight(r, s)
      /\ RecvRight(h, v)
      /\ Young(s, r, Members(net[q]), p \in connected, p = Client \/ h.init)
    BY InvSays
<1>2. /\ ~h.init => \A e \in Members(net[p]) : e.sender.SYN
      /\ \A e \in Members(net[p]) : /\ e \in Datagram
                                    /\ AckRight(e.receiver, r, s)
                                    /\ Sent(e.sender, v, wide)
    BY InvSays
<1>3. /\ d \in Datagram /\ AckRight(a, r, s) /\ Sent(m, v, wide)
      /\ (h.init \/ m.SYN) /\ (m.SYN => ~h.fin)
    BY <1>2
<1>4. m \in Message /\ a \in AckMessage /\ a.hasAck \in BOOLEAN /\ m.FIN \in BOOLEAN
      /\ ~a.RST
    BY <1>3 DEF Datagram, Answer, AckMessage, Message, AckRight
<1>5. Short(s) /\ Short(v)
    BY ShortBoth
<1>6. /\ Ends(s, r) /\ Tidy(r) /\ Ends(v, h) /\ Tidy(h)
      /\ Bare(m) /\ Acks(a, r, s)
    BY PromisesSay
<1>20. q \in Peers /\ Other(q) = p
    BY TwoPeers
<1>21. SendRight(v, wide)
    BY <1>20, InvSays
<1>7. /\ StepSound(step) /\ t = PushAll(g).sender /\ step.peer.receiver = u
      /\ Carry(step.out, Replies(PushAll(g)), ReceiverSend(u))
    BY <1>1, <1>3, PeerReceiveSound
<1>8. SenderSound(g)
    BY <1>1, <1>4, SenderReceiveSound
<1>22. SequenceLength(m) > 0 => Members(step.out) # {}
    BY <1>1, <1>3, ReceiveAnswers
<1>23. PeerSound(step.peer) /\ SenderSound(t)
    BY <1>7 DEF StepSound, PeerSound
<1>24. Inbound(x).closed = h.reasm.output.closed
       /\ Inbound(step.peer).closed = u.reasm.output.closed
    BY <1>7 DEF Inbound
<1>25. RecvRight(u, v) /\ ReceiverSound(u)
    <2>1. GoesOn(p, PeerReceive(peer[p], d).peer, Members(PeerReceive(peer[p], d).out))
        BY ReceiveGoesOn
    <2> QED
        BY <1>7, <2>1 DEF GoesOn, PeerSound
<1> HIDE DEF x, z, a, g, u, out, r, h, m, wide
<1>9. /\ Tidy(u) /\ Moves(h, u)
      /\ m.FIN => u.reasm.output.closed
      /\ ~m.FIN => (u.reasm.output.closed <=> h.reasm.output.closed)
    <2>1. Sent(m, v, WindowEdge(h.reasm)) /\ u = ReceiverReceive(h, m)
        BY <1>3 DEF wide, h, u, m
    <2> QED
        BY <1>1, <1>3, <1>4, <1>5, <1>6, <2>1, ReceiverReceiveMoves
<1>10. a.hasAck \/ Idle(s)
    <2>1. a.hasAck \/ p \notin connected
        BY DEF a
    <2> QED
        BY <1>1, <2>1 DEF Young
<1>11. Steady(g) /\ (s.finSent => g.rto = s.rto \/ InFlight(g) = 0)
    BY <1>1, <1>4, <1>10, ReceiveSteady DEF g
<1>12. /\ SendRight(g, edge) /\ Advances(s, g)
       /\ g.input = s.input
       /\ \/ a.hasAck /\ r.init /\ g.exp = s.exp
          \/ ~a.hasAck /\ g.exp = 0 /\ g.last = 0 /\ g.ost = {}
    <2>1. edge = WindowEdge(r.reasm) /\ g = SenderReceive(s, a)
        BY DEF r, g
    <2> HIDE DEF edge
    <2> QED
        BY <1>1, <1>3, <1>4, <1>5, <1>10, <2>1, SenderReceiveRight
<1>13. /\ Ends(g, r) /\ g.finSent = s.finSent
       /\ a.hasAck => s.last <= g.last
       /\ a.hasAck /\ a.ackno = Wrap(s.exp, s.isn) => g.last = s.exp /\ g.exp = s.exp
    <2>1. SendRight(s, WindowEdge(r.reasm)) /\ g = SenderReceive(s, a)
        BY <1>1 DEF r, g
    <2> QED
        BY <1>1, <1>3, <1>4, <1>5, <1>6, <1>10, <2>1, SenderReceiveEnds
<1>14. RecvRight(r, g)
    BY <1>1, <1>8, <1>12, RecvStays
<1>15. MayEnd(g)
    <2>1. g.input.closed => g.finSent
        BY <1>13 DEF Ends
    <2>2. g.finSent => Buffered(g.input) = 0
        BY <1>8 DEF SenderSound
    <2>3. g.input.closed => g.exp # 0
        BY <1>12 DEF SendRight
    <2> QED
        BY <2>1, <2>2, <2>3 DEF MayEnd
<1>16. g.finSent => t.exp = g.exp
    <2>1. /\ SendRight(g, WindowEdge(r.reasm)) /\ g.last <= Got(r)
          /\ ~g.finAcked \/ r.reasm.output.closed
          /\ \A e \in g.ost : Bare(e.msg)
        BY <1>12, <1>13 DEF r, Ends
    <2>2. t = PushAll(g).sender /\ out = PushAll(g).out
        BY <1>7 DEF out
    <2> QED
        BY <1>1, <1>8, <1>13, <1>14, <1>15, <2>1, <2>2, PushEnds
<1>17. Steady(t) /\ t.rto = g.rto /\ t.last = g.last
    <2>1. edge \in Nat /\ SendRight(g, edge) /\ \A e \in g.ost : Bare(e.msg)
        BY <1>1, <1>12, <1>13 DEF Ends
    <2>2. t = PushAll(g).sender /\ out = PushAll(g).out
        BY <1>7 DEF out
    <2> HIDE DEF edge
    <2> QED
        BY <1>8, <1>11, <1>15, <2>1, <2>2, PushSteady
<1>18. t.finSent => s.finSent
    <2>1. t.input.closed = g.input.closed
        <3>1. t = PushAll(g).sender /\ edge \in Nat /\ SendRight(g, edge)
            BY <1>1, <1>7, <1>12
        <3> HIDE DEF edge
        <3> QED
            BY <1>8, <3>1, PushAllLasts
    <2>2. t.finSent => t.input.closed
        BY <1>23 DEF SenderSound
    <2> QED
        BY <1>13, <2>1, <2>2 DEF Ends
<1>19. s.finSent => a.hasAck
    <2>1. s.finSent => s.input.closed
        BY <1>1 DEF SenderSound
    <2> QED
        BY <1>10, <2>1 DEF Idle
<1>26. s.finSent => t.exp = s.exp /\ t.isn = s.isn
    <2>1. Advances(g, t)
        <3>1. t = PushAll(g).sender /\ edge \in Nat /\ SendRight(g, edge)
            BY <1>1, <1>7, <1>12
        <3> HIDE DEF edge
        <3> QED
            BY <1>8, <3>1, PushAllRight
    <2> QED
        BY <1>12, <1>13, <1>16, <1>19, <2>1 DEF Advances
<1>27. s.finSent => t.rto = s.rto \/ InFlight(t) = 0
    BY <1>11, <1>12, <1>13, <1>16, <1>17, <1>19 DEF InFlight
<1>28. ASSUME s.finSent, a.hasAck, a.ackno = Wrap(s.exp, s.isn)
       PROVE  InFlight(t) = 0
    <2>1. t.last = s.exp /\ t.exp = s.exp /\ s.exp \in Nat
        BY <1>1, <1>13, <1>17, <1>26, <1>28, SenderNumbers
    <2> QED
        BY <2>1 DEF InFlight
<1>29. ASSUME m.FIN
       PROVE  \E e \in Members(step.out) :
                 e.receiver.hasAck /\ e.receiver.ackno = Wrap(v.exp, v.isn)
    <2>1. SequenceLength(m) > 0
        <3>1. Flag(m.SYN) \in {0, 1} /\ Flag(m.FIN) = 1 /\ Len(m.payload) \in Nat
            BY <1>4, <1>29, LenProperties DEF Flag, Message
        <3> QED
            BY <3>1 DEF SequenceLength
    <2>2. PICK e \in Members(step.out) : TRUE
        BY <1>22, <2>1
    <2>3. e.receiver = ReceiverSend(u)
        BY <1>7 DEF Carry
    <2>4. u.reasm.output.closed
        BY <1>9, <1>29
    <2>5. Ends(v, u)
        BY <1>1, <1>6, <1>9, <1>25, EndsStay
    <2>6. ReceiverSend(u).hasAck /\ ReceiverSend(u).ackno = Wrap(v.exp, v.isn)
        BY <1>1, <1>9, <1>21, <1>25, <2>4, <2>5, AnswersAll
    <2> QED
        BY <2>3, <2>6
<1> QED
    BY <1>9, <1>17, <1>18, <1>24, <1>26, <1>27, <1>28, <1>29 DEF a, m, x

-----------------------------------------------------------------------------
(***************************************************************************)
(* Ten timeouts are long enough.  Every fault can double the timeout of a  *)
(* sender that waits for its FIN to be acknowledged, once; what it has     *)
(* waited so far and what it waits for next stay below what the faults     *)
(* that are left allow.                                                    *)
(***************************************************************************)
LeftOver == budget.loss + budget.early

Fits(n, left, bound) ==
    /\ left = 0 => n <= bound
    /\ left = 1 => 2 * n <= bound
    /\ left = 2 => 4 * n <= bound
    /\ left = 3 => 8 * n <= bound

\* A sender whose timeout is rto and whose partner has heard nothing for a time
\* of silence; whether its FIN is under way, the answer to it, and whether the
\* partner's inbound stream is closed.
InTime(rto, silent, left, fin, back, closed) ==
    /\ Fits(rto, left, 8 * InitialRTO)
    /\ ~fin /\ ~back => Fits(rto, left, 4 * InitialRTO)
    /\ closed => /\ Fits(silent + rto, left, 16 * InitialRTO)
                 /\ ~fin => Fits(silent + rto, left, 8 * InitialRTO)

LEMMA FitsLess ==
    ASSUME NEW x \in Nat, NEW y \in Nat, y <= x, NEW a \in 0 .. 3, NEW a2 \in 0 .. 3,
           a2 <= a
    PROVE  \A bound \in Nat : Fits(x, a, bound) => Fits(y, a2, bound)
BY DEF Fits

\* A fault.
LEMMA InTimeLess ==
    ASSUME NEW n \in Nat, NEW l \in Nat, NEW a \in 1 .. 3,
           NEW f, NEW f2, NEW b, NEW b2, NEW c, InTime(n, l, a, f, b, c)
    PROVE  InTime(n, l, a - 1, f2, b2, c)
<1> InitialRTO \in Nat
    BY SenderConstants
<1>1. ASSUME NEW x \in Nat, NEW m \in Nat, Fits(x, a, 2 * m)
      PROVE  Fits(x, a - 1, m) /\ Fits(x, a - 1, 2 * m)
    BY <1>1 DEF Fits
<1>2. 4 * InitialRTO \in Nat /\ 8 * InitialRTO \in Nat
      /\ 8 * InitialRTO = 2 * (4 * InitialRTO) /\ 16 * InitialRTO = 2 * (8 * InitialRTO)
    OBVIOUS
<1>3. Fits(n, a, 2 * (4 * InitialRTO)) /\ (c => Fits(l + n, a, 2 * (8 * InitialRTO)))
    BY <1>2 DEF InTime
<1>4. /\ Fits(n, a - 1, 4 * InitialRTO) /\ Fits(n, a - 1, 8 * InitialRTO)
      /\ c => Fits(l + n, a - 1, 8 * InitialRTO) /\ Fits(l + n, a - 1, 16 * InitialRTO)
    BY <1>1, <1>2, <1>3
<1> QED
    BY <1>4 DEF InTime

\* The timer runs out and the FIN is sent again.
LEMMA InTimeTimer ==
    ASSUME NEW n \in Nat, NEW n2 \in Nat, n2 <= 2 * n, NEW l \in Nat,
           NEW l2 \in Nat, l2 <= l + n, NEW a \in 0 .. 3, NEW b, NEW c,
           InTime(n, l, a, FALSE, FALSE, c)
    PROVE  InTime(n2, l2, a, TRUE, b, c)
<1> InitialRTO \in Nat
    BY SenderConstants
<1>1. Fits(n, a, 4 * InitialRTO) /\ (c => Fits(l + n, a, 8 * InitialRTO))
    BY DEF InTime
<1>2. Fits(n2, a, 8 * InitialRTO)
    BY <1>1 DEF Fits
<1>3. c => Fits(l2 + n2, a, 16 * InitialRTO)
    BY <1>1 DEF Fits
<1> QED
    BY <1>2, <1>3 DEF InTime

\* The FIN arrives and is answered.
LEMMA InTimeArrives ==
    ASSUME NEW n \in Nat, NEW l \in Nat, NEW a \in 0 .. 3, NEW f, NEW f2,
           NEW b, NEW c, NEW c2, InTime(n, l, a, f, b, c)
    PROVE  InTime(n, 0, a, f2, TRUE, c2)
<1> InitialRTO \in Nat
    BY SenderConstants
<1>1. Fits(n, a, 8 * InitialRTO) /\ 0 + n = n
    BY DEF InTime
<1>2. Fits(n, a, 16 * InitialRTO)
    BY <1>1 DEF Fits
<1> QED
    BY <1>1, <1>2 DEF InTime

\* The FIN is sent for the first time.
LEMMA InTimeStarts ==
    ASSUME NEW l, NEW a \in 0 .. 3, NEW b
    PROVE  InTime(InitialRTO, l, a, TRUE, b, FALSE)
<1>1. InitialRTO \in Nat
    BY SenderConstants
<1> QED
    BY <1>1 DEF InTime, Fits

\* The partner that has heard nothing for ten timeouts.
LEMMA InTimeEnds ==
    ASSUME NEW n \in Nat, NEW l \in Nat, NEW a \in 0 .. 3, NEW b,
           InTime(n, l, a, FALSE, b, TRUE)
    PROVE  l + n < 10 * InitialRTO
<1>1. InitialRTO \in Nat \ {0}
    BY SenderConstants
<1>2. Fits(l + n, a, 8 * InitialRTO)
    BY DEF InTime
<1> QED
    BY <1>1, <1>2 DEF Fits

\* The FIN of p is under way, an answer to all that p has sent, and p waits for
\* one to its FIN.
FinComes(p) == \E d \in Members(net[Other(p)]) : d.sender.FIN

AllBack(p) ==
    LET s == peer[p].sender
    IN  \E d \in Members(net[p]) :
           d.receiver.hasAck /\ d.receiver.ackno = Wrap(s.exp, s.isn)

Owes(s) == s.finSent /\ InFlight(s) # 0

Waiting(p) ==
    LET s == peer[p].sender
        q == Other(p)
    IN  Owes(s) => InTime(s.rto, silence[q], LeftOver, FinComes(p), AllBack(p),
                          Inbound(peer[q]).closed)

Steadies == \A p \in Peers : Steady(peer[p].sender)
Waitings == LeftOver \in 0 .. 3 /\ \A p \in Peers : Waiting(p)

\* What the waiting is made of.
LEMMA WaitingSays ==
    ASSUME TypeInv, SilenceType, NEW p \in Peers, NEW q, q = Other(p)
    PROVE  /\ q \in Peers /\ q # p /\ Other(q) = p
           /\ peer[p].sender.rto \in Nat /\ silence[q] \in Nat
           /\ LeftOver \in Nat
           /\ peer[p].sender.finSent \in BOOLEAN
<1>1. q \in Peers /\ q # p /\ Other(q) = p
    BY TwoPeers
<1>2. PeerSound(peer[p]) /\ budget \in BudgetType
    BY DEF TypeInv
<1>3. silence[q] \in Nat
    BY <1>1, LingerTimeType DEF SilenceType
<1> QED
    BY <1>1, <1>2, <1>3 DEF PeerSound, SenderSound, SenderType, BudgetType, LeftOver

\* A peer goes on waiting while neither its timeout nor the silence grows.
LEMMA KeepsWaiting ==
    ASSUME TypeInv, SilenceType, SilenceType', NEW p \in Peers, NEW q, q = Other(p),
           LeftOver \in 0 .. 3, LeftOver' \in 0 .. 3, LeftOver' <= LeftOver,
           silence'[q] <= silence[q],
           Owes(peer'[p].sender) => /\ Owes(peer[p].sender)
                                    /\ peer'[p].sender.rto = peer[p].sender.rto
                                    /\ FinComes(p) => FinComes(p)'
                                    /\ AllBack(p) => AllBack(p)',
           Inbound(peer'[q]).closed => Inbound(peer[q]).closed,
           Waiting(p)
    PROVE  Waiting(p)'
<1> DEFINE n == peer[p].sender.rto
           f == FinComes(p)
           f2 == FinComes(p)'
           b == AllBack(p)
           b2 == AllBack(p)'
           c == Inbound(peer[q]).closed
           c2 == Inbound(peer'[q]).closed
           l == silence[q]
           l2 == silence'[q]
           a == LeftOver
           a2 == LeftOver'
<1> SUFFICES ASSUME Owes(peer'[p].sender)
             PROVE  InTime(peer'[p].sender.rto, l2, a2, f2, b2, c2)
    BY DEF Waiting
<1>1. n \in Nat /\ l \in Nat /\ q \in Peers
    BY WaitingSays
<1>2. l2 \in Nat
    BY <1>1, LingerTimeType DEF SilenceType
<1>3. /\ InTime(n, l, a, f, b, c) /\ peer'[p].sender.rto = n
      /\ (f => f2) /\ (b => b2) /\ (c2 => c)
      /\ l2 <= l /\ a2 <= a /\ a \in 0 .. 3 /\ a2 \in 0 .. 3
    BY DEF Waiting
<1> HIDE DEF n, f, f2, b, b2, c, c2, l, l2, a, a2
<1>4. \A m \in Nat : /\ Fits(n, a, m) => Fits(n, a2, m)
                     /\ Fits(l + n, a, m) => Fits(l2 + n, a2, m)
    BY <1>1, <1>2, <1>3, FitsLess
<1>5. /\ 4 * InitialRTO \in Nat /\ 8 * InitialRTO \in Nat
      /\ 16 * InitialRTO \in Nat
    BY SenderConstants
<1>6. InTime(n, l2, a2, f2, b2, c2)
    BY <1>3, <1>4, <1>5 DEF InTime
<1> QED
    BY <1>3, <1>6

\* The faults that are left, before and after a step.
LEMMA FaultsLeft ==
    ASSUME TypeInv, TypeInv', LeftOver \in 0 .. 3, LeftOver' <= LeftOver
    PROVE  LeftOver' \in 0 .. 3
<1>1. LeftOver' \in Nat /\ LeftOver \in Nat
    BY DEF TypeInv, BudgetType, LeftOver
<1> QED
    BY <1>1

\* A step in which no sender does anything, nothing under way is lost and no
\* inbound stream ends.
LEMMA QuietWaits ==
    ASSUME TypeInv, TypeInv', SilenceType, SilenceType', Steadies,
           FewFaults => Waitings,
           \A p \in Peers :
              /\ peer'[p].sender = peer[p].sender
              /\ Inbound(peer'[p]).closed = Inbound(peer[p]).closed
              /\ Members(net[p]) \in SUBSET Members(net'[p]),
           silence' = silence, LeftOver' = LeftOver
    PROVE  Steadies' /\ (FewFaults => Waitings')
<1>1. Steadies'
    BY DEF Steadies
<1>2. ASSUME FewFaults PROVE Waitings'
    <2>1. Waitings
        BY <1>2
    <2>2. LeftOver \in 0 .. 3 /\ LeftOver' \in 0 .. 3 /\ LeftOver' <= LeftOver
        BY <2>1 DEF Waitings
    <2>3. ASSUME NEW p \in Peers PROVE Waiting(p)'
        <3> DEFINE q == Other(p)
        <3>1. q \in Peers /\ silence[q] \in Nat /\ Waiting(p)
            BY <2>1, <2>3, WaitingSays DEF Waitings
        <3>2. FinComes(p) => FinComes(p)'
            BY <3>1 DEF FinComes
        <3>3. AllBack(p) => AllBack(p)'
            BY DEF AllBack
        <3> HIDE DEF q
        <3>4. q = Other(p) /\ silence'[q] <= silence[q]
            BY <3>1 DEF q
        <3> QED
            BY <2>2, <3>1, <3>2, <3>3, <3>4, KeepsWaiting
    <2> QED
        BY <2>2, <2>3 DEF Waitings
<1> QED
    BY <1>1, <1>2

\* A datagram is lost.
LEMMA LoseWaits ==
    ASSUME TypeInv, TypeInv', SilenceType, Steadies, FewFaults => Waitings,
           peer' = peer, silence' = silence, LeftOver' = LeftOver - 1
    PROVE  Steadies' /\ (FewFaults => Waitings')
<1>1. Steadies'
    BY DEF Steadies
<1>2. ASSUME FewFaults PROVE Waitings'
    <2>1. LeftOver \in 1 .. 3 /\ LeftOver' \in 0 .. 3
        <3>1. LeftOver' \in Nat /\ LeftOver \in 0 .. 3
            BY <1>2 DEF Waitings, TypeInv, BudgetType, LeftOver
        <3> QED
            BY <3>1
    <2>2. ASSUME NEW p \in Peers PROVE Waiting(p)'
        <3> DEFINE q == Other(p)
                   s == peer[p].sender
                   f == FinComes(p)
                   f2 == FinComes(p)'
                   b == AllBack(p)
                   b2 == AllBack(p)'
                   c == Inbound(peer[q]).closed
        <3>1. s.rto \in Nat /\ silence[q] \in Nat /\ Waiting(p)
            BY <1>2, <2>2, WaitingSays DEF Waitings
        <3>2. Owes(s) => InTime(s.rto, silence[q], LeftOver, f, b, c)
            BY <3>1 DEF Waiting
        <3>3. Waiting(p)' <=>
                 (Owes(s) => InTime(s.rto, silence[q], LeftOver', f2, b2, c))
            BY DEF Waiting
        <3> HIDE DEF q, s, f, f2, b, b2, c
        <3>4. Owes(s) => InTime(s.rto, silence[q], LeftOver - 1, f2, b2, c)
            BY <2>1, <3>1, <3>2, InTimeLess
        <3> QED
            BY <3>3, <3>4
    <2> QED
        BY <2>1, <2>2 DEF Waitings
<1> QED
    BY <1>1, <1>2

\* The timer of p runs out.  If p owes an answer to its FIN, nothing of that is
\* under way, or the timer is early.
LEMMA TimerWaits ==
    ASSUME Inv, TypeInv', SilenceType, SilenceType', Steadies, FewFaults => Waitings,
           NEW p \in Peers, TimerRunsOut(p), LeftOver' <= LeftOver,
           NEW q, q = Other(p), NEW s, s = peer[p].sender,
           FewFaults /\ Owes(s) =>
              InTime(s.rto, silence[q], LeftOver', FALSE, FALSE, Inbound(peer[q]).closed)
    PROVE  Steadies' /\ (FewFaults => Waitings')
<1> DEFINE x == peer[p]
           step == PeerTick(x)
           t == step.peer.sender
<1>1. q \in Peers /\ q # p /\ Other(q) = p /\ TypeInv /\ net[p] \in Seq(Datagram)
      /\ net[q] \in Seq(Datagram) /\ s.rto \in Nat /\ silence[q] \in Nat
      /\ silence[p] \in Nat
      /\ \A z \in Peers : z = p \/ z = q
    BY WaitingSays, TwoPeers DEF Inv, TypeInv
<1>2. PeerSound(x) /\ SenderSound(s)
    BY InvSays
<1>3. /\ StepSound(step) /\ t = TickExpires(s) /\ step.peer.receiver = x.receiver
      /\ \A m \in Members(TickTransmits(s)) : \E d \in Members(step.out) : d.sender = m
    BY <1>2, PeerTickSound, TickSends
<1>4. /\ peer' = [peer EXCEPT ![p] = step.peer]
      /\ net' = [net EXCEPT ![q] = net[q] \o step.out]
    BY DEF TimerRunsOut, Does
<1>5. /\ silence'[p] = silence[p] /\ silence'[q] <= silence[q] + s.rto
    BY <1>1, TimerSilence
<1> HIDE DEF step, t
<1>6. /\ peer'[p] = step.peer /\ peer'[q] = peer[q]
      /\ net'[p] = net[p] /\ net'[q] = net[q] \o step.out
    BY <1>1, <1>4 DEF TypeInv
<1>7. Members(net'[q]) = Members(net[q]) \cup Members(step.out)
    BY <1>1, <1>3, <1>6, MembersOfBoth DEF StepSound
<1>8. Inbound(peer'[p]) = Inbound(x)
    BY <1>3, <1>6 DEF Inbound
<1>9. /\ Steady(t) /\ t.rto \in Nat /\ t.rto <= 2 * s.rto
      /\ t.last = s.last /\ t.exp = s.exp /\ t.finSent = s.finSent
      /\ s.finSent /\ s.last # s.exp => \E m : m.FIN /\ TickTransmits(s) = << m >>
    BY <1>2, <1>3, TickSteady DEF Steadies
<1>10. Steadies'
    BY <1>1, <1>6, <1>9 DEF Steadies, t
<1>11. ASSUME FewFaults PROVE Waitings'
    <2>1. Waitings /\ LeftOver \in 0 .. 3 /\ LeftOver' \in 0 .. 3
        BY <1>1, <1>11, FaultsLeft DEF Waitings
    <2>2. Waiting(q)'
        <3>1. FinComes(q) => FinComes(q)'
            BY <1>1, <1>6 DEF FinComes
        <3>2. AllBack(q) => AllBack(q)'
            BY <1>6, <1>7 DEF AllBack
        <3>3. Inbound(peer'[p]).closed => Inbound(peer[p]).closed
            BY <1>8 DEF x
        <3>4. Waiting(q) /\ silence'[p] <= silence[p]
            BY <1>1, <1>5, <2>1 DEF Waitings
        <3> QED
            BY <1>1, <1>6, <2>1, <3>1, <3>2, <3>3, <3>4, KeepsWaiting
    <2>3. Waiting(p)'
        <3> SUFFICES ASSUME Owes(t)
                     PROVE  InTime(t.rto, silence'[q], LeftOver', FinComes(p)',
                                   AllBack(p)', Inbound(peer[q]).closed)
            BY <1>6 DEF Waiting, t
        <3>1. s.last \in Nat /\ s.exp \in Nat
            BY <1>2, SenderNumbers
        <3>2. Owes(s) /\ s.last # s.exp
            BY <1>9, <3>1 DEF Owes, InFlight
        <3>3. PICK m : m.FIN /\ TickTransmits(s) = << m >>
            BY <1>9, <3>2 DEF Owes
        <3>4. m \in Members(TickTransmits(s))
            BY <3>3 DEF Members
        <3>5. FinComes(p)' = TRUE
            BY <1>3, <1>7, <3>3, <3>4 DEF FinComes
        <3> DEFINE b == AllBack(p)'
                   c == Inbound(peer[q]).closed
                   l2 == silence'[q]
                   a == LeftOver'
        <3>6. l2 \in Nat /\ a \in 0 .. 3 /\ l2 <= silence[q] + s.rto
            BY <1>1, <1>5, <2>1, LingerTimeType DEF SilenceType
        <3>7. InTime(s.rto, silence[q], a, FALSE, FALSE, c)
            BY <1>11, <3>2
        <3> HIDE DEF b, c, l2, a
        <3>8. InTime(t.rto, l2, a, TRUE, b, c)
            BY <1>1, <1>9, <3>6, <3>7, InTimeTimer
        <3> QED
            BY <3>5, <3>8 DEF b, c, l2, a
    <2> QED
        BY <1>1, <2>1, <2>2, <2>3 DEF Waitings
<1> QED
    BY <1>10, <1>11

\* A connected application has written or, with nothing left to send or in
\* flight, closed its stream: the FIN is under way.
LEMMA PushWaits ==
    ASSUME Inv, Promises, TypeInv', SilenceType, SilenceType', Steadies,
           FewFaults => Waitings,
           NEW p \in Peers, p \in connected, ~peer[p].sender.finSent,
           NEW f, InPlace(f), f.popped = peer[p].sender.input.popped,
           f.error = peer[p].sender.input.error,
           f.closed => Buffered(f) = 0 /\ InFlight(peer[p].sender) = 0,
           Does(p, PeerPush(WithInput(p, f))), silence' = silence, budget' = budget
    PROVE  Steadies' /\ (FewFaults => Waitings')
<1> DEFINE q == Other(p)
           x == peer[p]
           z == peer[q]
           r == z.receiver
           edge == WindowEdge(r.reasm)
           w == [x EXCEPT !.sender.input = f]
           step == PeerPush(w)
           s == x.sender
           g == w.sender
           t == PushAll(g).sender
           out == PushAll(g).out
<1>1. /\ PeerSound(x) /\ edge \in Nat /\ SenderSound(s)
      /\ ReceiverSound(r) /\ SendRight(s, edge) /\ RecvRight(r, s)
      /\ Young(s, r, Members(net[q]), p \in connected, p = Client \/ x.receiver.init)
    BY InvSays
<1>2. PeerSound(w) /\ g = [s EXCEPT !.input = f] /\ w.receiver = x.receiver
    BY <1>1, InputChanges
<1>3. WithInput(p, f) = w
    BY DEF WithInput
<1>4. /\ q \in Peers /\ q # p /\ Other(q) = p /\ TypeInv
      /\ net[p] \in Seq(Datagram) /\ net[q] \in Seq(Datagram)
      /\ \A y \in Peers : y = p \/ y = q
    BY TwoPeers DEF Inv, TypeInv
<1>5. Ends(s, r)
    BY PromisesSay
<1>6. r.init /\ (p = Client \/ x.receiver.init) /\ s.exp # 0
    BY <1>1 DEF Young
<1>7. /\ peer' = [peer EXCEPT ![p] = step.peer]
      /\ net' = [net EXCEPT ![q] = net[q] \o step.out]
    BY <1>3 DEF Does
<1> HIDE DEF w
<1>8. SenderSound(g)
    BY <1>2 DEF PeerSound
<1>9. /\ StepSound(step) /\ step.peer.sender = t /\ step.peer.receiver = x.receiver
      /\ \A m \in Members(out) : \E d \in Members(step.out) : d.sender = m
    BY <1>2, PeerPushSound, PushSends
<1>10. Steady(s) /\ ~s.finSent
    BY DEF Steadies
<1> HIDE DEF x, z, r, edge, s, g, t, out, step, q
<1>11. SendRight(g, edge) /\ g.exp = s.exp /\ g.last = s.last
       /\ g.input = f /\ g.ost = s.ost
    BY <1>1, <1>2, <1>6, <1>8, <1>10, InputRight DEF s, x
<1>12. /\ g.finSent = s.finSent /\ g.finAcked = s.finAcked
       /\ g.running = s.running /\ g.rto = s.rto
    <2>1. s \in SenderType
        BY <1>1 DEF SenderSound
    <2> QED
        BY <1>2, <2>1 DEF SenderType
<1>13. Steady(g)
    BY <1>10, <1>11, <1>12 DEF Steady
<1>14. MayEnd(g) /\ \A e \in g.ost : Bare(e.msg)
    <2>1. s.exp \in Nat /\ s.last \in Nat /\ ~s.finAcked
        BY <1>1, <1>10, SenderNumbers DEF SendRight
    <2>2. f.closed => s.last = s.exp
        BY <2>1 DEF InFlight, s, x
    <2> QED
        BY <1>5, <1>6, <1>11, <1>12, <2>1, <2>2 DEF MayEnd, Ends
<1>15. /\ Steady(t) /\ t.rto = s.rto
       /\ t.finSent => \E m \in Members(out) : m.FIN
    <2>1. /\ Steady(t) /\ t.rto = g.rto
          /\ t.finSent => g.finSent \/ \E m \in Members(out) : m.FIN
        BY <1>1, <1>8, <1>11, <1>13, <1>14, PushSteady DEF t, out
    <2> QED
        BY <1>10, <1>12, <2>1
<1>16. t.finSent => f.closed
    <2>1. t.input.closed = g.input.closed
        BY <1>1, <1>8, <1>11, PushAllLasts DEF t
    <2>2. SenderSound(t)
        BY <1>9 DEF StepSound, PeerSound
    <2> QED
        BY <1>11, <2>1, <2>2 DEF SenderSound
<1>17. /\ peer'[p] = step.peer /\ peer'[q] = peer[q]
       /\ net'[p] = net[p] /\ net'[q] = net[q] \o step.out
    BY <1>4, <1>7 DEF TypeInv
<1>18. Members(net'[q]) = Members(net[q]) \cup Members(step.out)
    BY <1>4, <1>9, <1>17, MembersOfBoth DEF StepSound
<1>19. Steadies'
    BY <1>4, <1>9, <1>15, <1>17 DEF Steadies
<1>20. Inbound(peer'[p]) = Inbound(peer[p])
    BY <1>9, <1>17 DEF Inbound, x
<1>21. ASSUME FewFaults PROVE Waitings'
    <2>1. Waitings /\ LeftOver \in 0 .. 3 /\ LeftOver' = LeftOver /\ LeftOver \in Nat
        BY <1>21 DEF Waitings, LeftOver
    <2>2. Waiting(q)'
        <3>1. FinComes(q) => FinComes(q)'
            BY <1>4, <1>17 DEF FinComes
        <3>2. AllBack(q) => AllBack(q)'
            BY <1>17, <1>18 DEF AllBack
        <3>3. Waiting(q) /\ silence'[p] <= silence[p]
            BY <1>4, <2>1, WaitingSays DEF Waitings
        <3> QED
            BY <1>4, <1>17, <1>20, <2>1, <3>1, <3>2, <3>3, KeepsWaiting
    <2>3. Waiting(p)'
        <3> SUFFICES ASSUME Owes(t)
                     PROVE  InTime(t.rto, silence'[q], LeftOver', FinComes(p)',
                                   AllBack(p)', Inbound(peer[q]).closed)
            BY <1>9, <1>17 DEF Waiting, q
        <3>1. t.finSent /\ f.closed
            BY <1>16 DEF Owes
        <3>2. FinComes(p)' = TRUE
            BY <1>9, <1>15, <1>18, <3>1 DEF FinComes, q
        <3>3. Inbound(peer[q]).closed = FALSE
            BY <1>1, <1>10, GotNumbers DEF Inbound, r, z
        <3>4. s.rto = InitialRTO
            <4>1. s.exp \in Nat /\ s.last \in Nat /\ InFlight(s) = 0
                BY <1>1, <3>1, SenderNumbers DEF s, x
            <4> QED
                BY <1>6, <1>10, <4>1 DEF Steady, InFlight
        <3> DEFINE b == AllBack(p)'
                   l2 == silence'[q]
                   a == LeftOver'
        <3>5. a \in 0 .. 3
            BY <2>1
        <3> HIDE DEF b, l2, a
        <3>6. InTime(InitialRTO, l2, a, TRUE, b, FALSE)
            BY <3>5, InTimeStarts
        <3> QED
            BY <1>15, <3>2, <3>3, <3>4, <3>6 DEF b, l2, a
    <2> QED
        BY <1>4, <2>1, <2>2, <2>3 DEF Waitings
<1> QED
    BY <1>19, <1>21

\* A peer that leaves, and its partner, have nothing in flight, and the partner
\* has the end of its stream.
LEMMA LeaverDone ==
    ASSUME AckInv, FewFaults, NEW p \in Peers, ~Active(peer[p]), NEW q, q = Other(p)
    PROVE  /\ Inbound(peer[q]).closed /\ InFlight(peer[q].sender) = 0
           /\ InFlight(peer[p].sender) = 0
<1> DEFINE x == peer[p]
           z == peer[q]
           s == x.sender
           r == z.receiver
           edge == WindowEdge(r.reasm)
<1>1. q \in Peers /\ Other(q) = p /\ Inv /\ Promises /\ Parting(p)
    BY TwoPeers DEF AckInv, Partings
<1>2. /\ SenderSound(s) /\ ReceiverSound(r)
      /\ SendRight(s, edge) /\ RecvRight(r, s) /\ RecvRight(x.receiver, z.sender)
    BY <1>1, InvSays
<1>3. Ends(s, r)
    BY <1>1, PromisesSay
<1>4. ~AnyErrors(x)
    BY <1>2 DEF AnyErrors, Inbound, SendRight, RecvRight
<1>5. ~SenderActive(x) /\ ~ReceiverActive(x) /\ ~Lingering(x)
    BY <1>4 DEF Active
<1>6. Inbound(z).closed /\ InFlight(s) = 0
    <2>1. s.exp \in Nat /\ s.last \in Nat /\ s.input.popped \in Nat /\ InPlace(s.input)
        BY <1>2, SenderNumbers DEF SenderSound
    <2>2. s.input.closed
        BY <1>5, <2>1, InPlaceNumbers DEF SenderActive
    <2>3. s.finSent /\ r.init /\ r.reasm.next = s.input.popped /\ s.last <= Got(r)
        BY <1>3, <2>2 DEF Ends
    <2>4. s.exp # 0
        BY <1>2, <2>2 DEF SendRight
    <2>5. s.exp = 1 + s.input.popped + Flag(s.finSent) /\ s.last <= s.exp
        BY <1>2, <2>4 DEF SendRight
    <2>6. Flag(s.finSent) = 1
        BY <2>3 DEF Flag
    <2>7. ~(InFlight(s) > 0)
        BY <1>5 DEF SenderActive
    <2>8. s.last = s.exp
        BY <2>1, <2>5, <2>7 DEF InFlight
    <2>9. /\ Got(r) = 1 + r.reasm.next + Flag(r.reasm.output.closed)
          /\ r.reasm.output.closed \in BOOLEAN
        BY <1>2, <2>3, GotNumbers
    <2>10. InFlight(s) = 0
        BY <2>1, <2>8 DEF InFlight
    <2> DEFINE e == s.exp
               d == s.input.popped
               g == Got(r)
               k == r.reasm.output.closed
    <2>11. /\ d \in Nat /\ e = 1 + d + 1 /\ e <= g /\ g = 1 + d + Flag(k)
           /\ ~k => Flag(k) = 0
        BY <2>1, <2>3, <2>5, <2>6, <2>8, <2>9 DEF Flag
    <2> HIDE DEF s, r, e, d, g, k
    <2>12. k
        <3>1. ~k => e = d + 2 /\ e <= d + 1
            BY <2>11
        <3> QED
            BY <2>11, <3>1
    <2> QED
        BY <2>10, <2>12 DEF Inbound, r, k
<1>7. ~x.linger \/ x.quiet
    BY <1>5 DEF Lingering
<1> QED
    BY <1>1, <1>6, <1>7 DEF Parting

\* A peer takes the first datagram: it may be the answer to its FIN, and it may
\* be its partner's FIN, which it answers.
LEMMA DeliverWaits ==
    ASSUME AckInv, SupplyIsShort, TypeInv', SilenceType, SilenceType', Steadies,
           FewFaults => Waitings, NoLateSyn, NoSynAfterFin,
           NEW p \in Peers, Deliver(p)
    PROVE  Steadies' /\ (FewFaults => Waitings')
<1> DEFINE q == Other(p)
           x == peer[p]
           d == Head(net[p])
           s == x.sender
           v == peer[q].sender
           step == PeerReceive(x, d)
           t == step.peer.sender
           edge == WindowEdge(peer[q].receiver.reasm)
<1>1. /\ q \in Peers /\ q # p /\ Other(q) = p /\ TypeInv /\ Inv /\ Promises
      /\ net[p] \in Seq(Datagram) /\ net[q] \in Seq(Datagram)
      /\ \A z \in Peers : z = p \/ z = q
      /\ net[p] # << >>
    BY TwoPeers DEF AckInv, Inv, TypeInv, Deliver, MayDeliver
<1>2. /\ d \in Datagram /\ d \in Members(net[p]) /\ Tail(net[p]) \in Seq(Datagram)
    BY <1>1, NetWithoutFirst
<1>3. /\ d.receiver.hasAck \/ p \notin connected
      /\ d.sender.SYN => ~x.receiver.fin
    <2>1. PICK i \in 1 .. Len(net[p]) : d = net[p][i]
        BY <1>2 DEF Members
    <2>2. i \in DOMAIN net[p]
        BY <1>1, LenProperties
    <2> QED
        BY <2>1, <2>2 DEF NoLateSyn, NoSynAfterFin
<1>4. PeerSound(x) /\ SenderSound(s) /\ Steady(s)
    BY <1>1, InvSays DEF Steadies
<1>5. StepSound(step)
    BY <1>2, <1>4, PeerReceiveSound
<1>6. /\ peer' = [peer EXCEPT ![p] = step.peer]
      /\ net' = [net EXCEPT ![p] = Tail(@), ![q] = @ \o step.out]
      /\ silence' = [silence EXCEPT ![p] = 0] /\ budget' = budget
    BY DEF Deliver
<1>7. Lasts(s, t) /\ SenderSound(t) /\ SendRight(t, edge)
    <2> HIDE DEF d
    <2>1. GoesOn(p, step.peer, Members(step.out)) /\ Keeps(p, step.peer, Members(step.out))
        BY <1>1, <1>2, <1>3, ReceiveGoesOn, ReceiveKeeps
    <2> QED
        BY <1>5, <2>1 DEF GoesOn, Keeps, StepSound, PeerSound
<1>8. s.finSent /\ InFlight(s) = 0 => InFlight(t) = 0
    <2> HIDE DEF edge, t, d, s
    <2> QED
        BY <1>4, <1>7, NothingLeft
<1>9. /\ net'[p] = Tail(net[p]) /\ net'[q] = net[q] \o step.out
      /\ peer'[p] = step.peer /\ peer'[q] = peer[q]
    <2> HIDE DEF d, step, q
    <2> QED
        BY <1>1, <1>6 DEF TypeInv
<1>10. Members(net'[q]) = Members(net[q]) \cup Members(step.out)
    <2> HIDE DEF d, step, q
    <2> QED
        BY <1>1, <1>5, <1>9, MembersOfBoth DEF StepSound
<1>11. Members(net[p]) \in SUBSET ({d} \cup Members(net'[p]))
    <2> DEFINE n == net[p]
    <2>1. Len(n) \in Nat /\ Len(n) > 0 /\ n \in Seq(Datagram)
        BY <1>1, EmptySeq, LenProperties
    <2>2. d = n[1] /\ Len(Tail(n)) = Len(n) - 1
          /\ \A i \in 1 .. Len(Tail(n)) : Tail(n)[i] = n[i + 1]
        BY <2>1, HeadTailProperties
    <2> HIDE DEF n, d
    <2> SUFFICES ASSUME NEW i \in 1 .. Len(n), n[i] # d
                 PROVE  n[i] \in Members(Tail(n))
        BY <1>9 DEF Members, n
    <2>3. i - 1 \in 1 .. Len(Tail(n)) /\ Tail(n)[i - 1] = n[i]
        BY <2>1, <2>2
    <2> QED
        BY <2>3 DEF Members
<1>12. silence'[p] = 0 /\ silence'[q] = silence[q] /\ silence[p] \in Nat
       /\ silence[q] \in Nat /\ v.rto \in Nat
    BY <1>1, <1>6, WaitingSays DEF SilenceType
<1> HIDE DEF q, x, d, s, v, step, t, edge
<1>13. ASSUME ~Active(x) PROVE step.peer = x
    BY <1>2, <1>4, <1>13, PeerReceiveSound DEF step
<1>14. ASSUME Active(x)
       PROVE  /\ Steady(t) /\ (t.finSent => s.finSent)
              /\ s.finSent => /\ t.exp = s.exp /\ t.isn = s.isn
                              /\ t.rto = s.rto \/ InFlight(t) = 0
              /\ s.finSent /\ d.receiver.hasAck /\ d.receiver.ackno = Wrap(s.exp, s.isn)
                   => InFlight(t) = 0
              /\ d.sender.FIN => \E e \in Members(step.out) :
                    e.receiver.hasAck /\ e.receiver.ackno = Wrap(v.exp, v.isn)
              /\ ~d.sender.FIN =>
                    (Inbound(step.peer).closed <=> Inbound(x).closed)
    BY <1>1, <1>2, <1>3, <1>4, <1>14, ReceiveSays DEF x, s, v, step, t, q
<1>15. Steady(t)
    <2>1. ~Active(x) => t = s
        BY <1>13 DEF t, s
    <2> QED
        BY <1>4, <1>14, <2>1
<1>16. Steadies'
    BY <1>1, <1>9, <1>15 DEF Steadies, t
<1>17. ASSUME FewFaults PROVE Waitings'
    <2>1. Waitings /\ LeftOver \in 0 .. 3 /\ LeftOver' = LeftOver /\ LeftOver \in Nat
        BY <1>6, <1>17 DEF Waitings, LeftOver
    <2>2. CASE ~Active(x)
        <3>1. InFlight(v) = 0 /\ InFlight(t) = 0
            <4>1. InFlight(v) = 0 /\ InFlight(s) = 0
                BY <1>17, <2>2, LeaverDone DEF x, s, v, q
            <4> QED
                BY <1>13, <2>2, <4>1 DEF t, s
        <3>2. Waiting(p)' /\ Waiting(q)'
            BY <1>9, <3>1 DEF Waiting, Owes, t, v
        <3> QED
            BY <1>1, <2>1, <3>2 DEF Waitings
    <2>3. CASE Active(x)
        <3>1. Waiting(p)'
            <4>1. ASSUME Owes(t)
                  PROVE  /\ Owes(s) /\ t.rto = s.rto
                         /\ FinComes(p) => FinComes(p)'
                         /\ AllBack(p) => AllBack(p)'
                <5>1. Owes(s) /\ t.rto = s.rto /\ t.exp = s.exp /\ t.isn = s.isn
                    BY <1>8, <1>14, <2>3, <4>1 DEF Owes
                <5>2. FinComes(p) => FinComes(p)'
                    BY <1>10 DEF FinComes, q
                <5>3. ASSUME AllBack(p) PROVE AllBack(p)'
                    <6>1. PICK e \in Members(net[p]) :
                             e.receiver.hasAck /\ e.receiver.ackno = Wrap(s.exp, s.isn)
                        BY <5>3 DEF AllBack, s, x
                    <6>2. e # d
                        BY <1>14, <2>3, <4>1, <5>1, <6>1 DEF Owes
                    <6>3. e \in Members(net'[p])
                        BY <1>11, <6>2
                    <6> QED
                        BY <1>9, <5>1, <6>1, <6>3 DEF AllBack, t
                <5> QED
                    BY <5>1, <5>2, <5>3
            <4>2. Waiting(p) /\ silence'[q] <= silence[q] /\ q = Other(p)
                BY <1>12, <2>1 DEF Waitings, q
            <4> QED
                BY <1>1, <1>9, <2>1, <4>1, <4>2, KeepsWaiting DEF t, s, x
        <3>2. Waiting(q)'
            <4>1. Waiting(q)
                BY <1>1, <2>1 DEF Waitings
            <4>2. CASE d.sender.FIN
                <5>1. AllBack(q)' = TRUE
                    <6>1. PICK e \in Members(step.out) :
                             e.receiver.hasAck /\ e.receiver.ackno = Wrap(v.exp, v.isn)
                        BY <1>14, <2>3, <4>2
                    <6> QED
                        BY <1>9, <1>10, <6>1 DEF AllBack, v
                <5> DEFINE f == FinComes(q)
                           f2 == FinComes(q)'
                           b == AllBack(q)
                           c == Inbound(x).closed
                           c2 == Inbound(step.peer).closed
                           l == silence[p]
                <5>2. Owes(v) => InTime(v.rto, l, LeftOver, f, b, c)
                    BY <1>1, <4>1 DEF Waiting, v, x
                <5>3. Waiting(q)' <=>
                         (Owes(v) => InTime(v.rto, 0, LeftOver, f2, TRUE, c2))
                    BY <1>1, <1>9, <1>12, <2>1, <5>1 DEF Waiting, v
                <5>4. l \in Nat
                    BY <1>12
                <5> HIDE DEF f, f2, b, c, c2, l
                <5>5. Owes(v) => InTime(v.rto, 0, LeftOver, f2, TRUE, c2)
                    BY <1>12, <2>1, <5>2, <5>4, InTimeArrives
                <5> QED
                    BY <5>3, <5>5
            <4>3. CASE ~d.sender.FIN
                <5>1. FinComes(q) => FinComes(q)'
                    BY <1>1, <1>11, <4>3 DEF FinComes
                <5>2. AllBack(q) => AllBack(q)'
                    BY <1>9, <1>10 DEF AllBack
                <5>3. Inbound(peer'[p]).closed => Inbound(peer[p]).closed
                    BY <1>9, <1>14, <2>3, <4>3 DEF x
                <5>4. silence'[p] <= silence[p]
                    BY <1>12
                <5> QED
                    BY <1>1, <1>9, <2>1, <4>1, <5>1, <5>2, <5>3, <5>4, KeepsWaiting
            <4> QED
                BY <4>2, <4>3
        <3> QED
            BY <1>1, <2>1, <3>1, <3>2 DEF Waitings
    <2> QED
        BY <2>2, <2>3
<1> QED
    BY <1>16, <1>17

WaitInv == AckInv /\ SilenceType /\ Steadies /\ (FewFaults => Waitings)

\* With that few faults a peer that may leave has heard nothing for ten timeouts,
\* and its partner never waits that long.
LEMMA TenAreEnough == WaitInv => LeavesInTime
<1> SUFFICES ASSUME WaitInv, FewFaults, NEW p \in Peers, MayLeave(p)
             PROVE  InFlight(peer[Other(p)].sender) = 0
    BY DEF LeavesInTime
<1> DEFINE o == Other(p)
           s == peer[o].sender
           edge == WindowEdge(peer[p].receiver.reasm)
<1>1. /\ o \in Peers /\ Other(o) = p /\ Inv /\ TypeInv /\ SilenceType
      /\ Waitings /\ Steady(s)
    BY TwoPeers DEF WaitInv, AckInv, Inv, Steadies
<1>2. /\ SenderSound(s) /\ SendRight(s, edge) /\ ReceiverSound(peer[p].receiver)
      /\ RecvRight(peer[p].receiver, s) /\ RecvRight(peer[o].receiver, peer[p].sender)
    BY <1>1, InvSays
<1>3. /\ Inbound(peer[p]).closed /\ net[p] = << >>
      /\ Waits(o) => silence[p] + s.rto >= LingerTime
    BY DEF MayLeave, ReceiverActive
<1>4. s.finSent
    BY <1>2, <1>3, GotNumbers DEF Inbound
<1>5. s.exp \in Nat /\ s.last \in Nat /\ s.last <= s.exp
    BY <1>2, SenderNumbers DEF SendRight
<1>6. ~AnyErrors(peer[o])
    BY <1>2 DEF AnyErrors, Inbound, SendRight, RecvRight
<1>7. /\ s.rto \in Nat /\ silence[p] \in Nat /\ LeftOver \in 0 .. 3
    BY <1>1, WaitingSays DEF Waitings
<1> SUFFICES ASSUME InFlight(s) # 0 PROVE FALSE
    OBVIOUS
<1>8. s.running /\ InFlight(s) > 0
    BY <1>1, <1>5 DEF Steady, InFlight
<1>9. Waits(o)
    BY <1>6, <1>8 DEF Waits, Active, SenderActive
<1>10. FinComes(o) = FALSE
    <2>1. Members(<< >>) = {}
        BY EmptySeq DEF Members
    <2> QED
        BY <1>1, <1>3, <2>1 DEF FinComes
<1> DEFINE b == AllBack(o)
           l == silence[p]
           a == LeftOver
<1>11. InTime(s.rto, l, a, FALSE, b, TRUE)
    <2>1. Waiting(o) /\ Owes(s)
        BY <1>1, <1>4 DEF Waitings, Owes
    <2>2. Inbound(peer[p]).closed = TRUE
        BY <1>2, <1>3, GotNumbers DEF Inbound
    <2> QED
        BY <1>1, <1>10, <2>1, <2>2 DEF Waiting
<1>12. l + s.rto < 10 * InitialRTO
    <2> HIDE DEF b, l, a, s
    <2> QED
        BY <1>7, <1>11, InTimeEnds DEF l, a
<1> QED
    BY <1>3, <1>7, <1>9, <1>12, SenderConstants DEF LingerTime

LEMMA InitWaits == Init => SilenceType /\ Steadies /\ (FewFaults => Waitings)
<1> SUFFICES ASSUME Init PROVE SilenceType /\ Steadies /\ (FewFaults => Waitings)
    OBVIOUS
<1> DEFINE fresh == [p \in Peers |-> NewPeer(SendCapacity, RecvCapacity, ISN[p])]
           c == Client
           q == Other(c)
           x == fresh[c]
           z == fresh[q]
           step == PeerPush(x)
           y == step.peer
           s == x.sender
           v == z.sender
           r == z.receiver
           t == PushAll(s).sender
           out == PushAll(s).out
<1>1. /\ c \in Peers /\ q \in Peers /\ q # c
      /\ \A p \in Peers : p = c \/ p = q
    BY ConnectionConstants, TwoPeers
<1>2. peer = [fresh EXCEPT ![c] = y] /\ budget \in Budgets
    BY DEF Init
<1>3. peer[c] = y /\ peer[q] = z
    BY <1>1, <1>2
<1>4. ISN[c] \in 0 .. Modulus - 1 /\ ISN[q] \in 0 .. Modulus - 1
    BY <1>1, ConnectionConstants
<1>5. /\ s = NewSender(SendCapacity, ISN[c])
      /\ v = NewSender(SendCapacity, ISN[q]) /\ r = NewReceiver(RecvCapacity)
    BY <1>1 DEF NewPeer
<1>6. PeerSound(x) /\ PeerSound(z)
    BY <1>1, <1>4, NewPeerSound
<1>7. y.sender = t
    BY <1>6, PeerPushSound
<1> HIDE DEF fresh, q, step, x, z, s, v, r, t, out, y
<1>8. /\ SenderSound(s) /\ ReceiverSound(r)
    BY <1>6 DEF PeerSound, s, r
<1>9. /\ SendRight(s, WindowEdge(r.reasm)) /\ s.ost = {} /\ WindowEdge(r.reasm) \in Nat
    BY <1>4, <1>5, <1>8, NewRight, ReceiverNumbers
<1>10. ~s.input.closed /\ ~v.finSent /\ Steady(s) /\ Steady(v)
    BY <1>5, NewSteady DEF NewSender, NewFifo
<1>11. Steady(t)
    <2>1. MayEnd(s) /\ \A e \in s.ost : Bare(e.msg)
        BY <1>9, <1>10 DEF MayEnd
    <2> QED
        BY <1>8, <1>9, <1>10, <2>1, PushSteady DEF t, out
<1>12. ~t.finSent
    <2>1. t.input.closed = s.input.closed
        BY <1>8, <1>9, PushAllLasts DEF t
    <2>2. SenderSound(t)
        BY <1>8, PushAllSound DEF t
    <2> QED
        BY <1>10, <2>1, <2>2 DEF SenderSound
<1>13. Steadies
    BY <1>1, <1>3, <1>7, <1>10, <1>11 DEF Steadies, v
<1>14. ASSUME FewFaults PROVE Waitings
    <2>1. LeftOver \in 0 .. 3
        <3>1. budget \in [loss : Nat, delay : Nat, early : Nat]
              /\ budget.loss + budget.early <= 3
            BY <1>2, <1>14, ConnectionConstants DEF FewFaults
        <3> QED
            BY <3>1 DEF LeftOver
    <2>2. Waiting(c) /\ Waiting(q)
        BY <1>3, <1>7, <1>10, <1>12 DEF Waiting, Owes, v
    <2> QED
        BY <1>1, <2>1, <2>2 DEF Waitings
<1> QED
    BY <1>13, <1>14, InitSilence

LEMMA NextWaitInv ==
    ASSUME SupplyIsShort, CloseOnlyIdle, WaitInv, [Next]_vars, NoLateSyn, NoSynAfterFin
    PROVE  WaitInv'
<1> DEFINE Waits2 == Steadies' /\ (FewFaults => Waitings')
<1>1. AckInv'
    BY NextAckInv, TenAreEnough DEF WaitInv
<1>2. /\ TypeInv /\ TypeInv' /\ Inv /\ Promises /\ AckInv
      /\ SilenceType /\ Steadies /\ (FewFaults => Waitings)
      /\ \A p \in Peers : PeerSound(peer[p]) /\ net[p] \in Seq(Datagram)
      /\ peer \in [Peers -> PeerType] /\ net \in [Peers -> Seq(Datagram)]
      /\ budget \in BudgetType
    BY <1>1 DEF WaitInv, AckInv, Inv, TypeInv
<1>3. SilenceType'
    BY <1>2, NextSilence
<1>4. LeftOver \in Nat /\ LeftOver' \in Nat
    BY <1>2 DEF TypeInv, BudgetType, LeftOver
<1>5. ASSUME NEW p \in Peers, Deliver(p) PROVE Waits2
    BY <1>2, <1>3, <1>5, DeliverWaits
<1>6. ASSUME NEW p \in Peers, NEW n \in 1 .. SendCapacity, Write(p, n) PROVE Waits2
    <2> DEFINE f == peer[p].sender.input
               w == Written(f, n)
    <2>1. /\ ~f.closed /\ p \in connected /\ silence' = silence /\ budget' = budget
          /\ Does(p, PeerPush(WithInput(p, w)))
        BY <1>6 DEF Write, MayWrite, Written
    <2>2. InPlace(f) /\ ~peer[p].sender.finSent /\ n \in Nat
        BY <1>2, <2>1, WriterSound
    <2>3. /\ InPlace(w) /\ w.popped = f.popped /\ w.closed = f.closed
          /\ w.error = f.error
        BY <2>2, WrittenInPlace
    <2> HIDE DEF w
    <2> QED
        BY <1>2, <1>3, <2>1, <2>2, <2>3, PushWaits
<1>7. ASSUME NEW p \in Peers, CloseOutbound(p) PROVE Waits2
    <2> DEFINE f == peer[p].sender.input
               w == Close(f)
    <2>1. /\ ~f.closed /\ p \in connected /\ silence' = silence /\ budget' = budget
          /\ Does(p, PeerPush(WithInput(p, w)))
          /\ InFlight(peer[p].sender) = 0 /\ Buffered(f) = 0
        BY <1>7 DEF CloseOutbound, MayClose, MayWrite
    <2>2. InPlace(f) /\ ~peer[p].sender.finSent
        BY <1>2, <2>1, WriterSound
    <2>3. /\ InPlace(w) /\ w.popped = f.popped /\ w.buf = f.buf
          /\ w.error = f.error
        BY <2>2, MarksInPlace
    <2> HIDE DEF w
    <2>4. Buffered(w) = 0
        BY <2>1, <2>3 DEF Buffered
    <2> QED
        BY <1>2, <1>3, <2>1, <2>2, <2>3, <2>4, PushWaits
<1>8. ASSUME NEW p \in Peers, NEW y, peer' = [peer EXCEPT ![p] = y],
             y.sender = peer[p].sender, Inbound(y).closed = Inbound(peer[p]).closed,
             net' = net, silence' = silence, budget' = budget
      PROVE  Waits2
    <2>1. \A q \in Peers :
             /\ peer'[q].sender = peer[q].sender
             /\ Inbound(peer'[q]).closed = Inbound(peer[q]).closed
             /\ Members(net[q]) \in SUBSET Members(net'[q])
        BY <1>2, <1>8
    <2>2. LeftOver' = LeftOver
        BY <1>8 DEF LeftOver
    <2> QED
        BY <1>2, <1>3, <1>8, <2>1, <2>2, QuietWaits
<1>9. ASSUME NEW p \in Peers, Read(p) PROVE Waits2
    <2>1. PICK n \in 1 .. Buffered(Inbound(peer[p])) :
              peer' = [peer EXCEPT ![p].receiver.reasm.output = Pop(@, n)]
        BY <1>9 DEF Read
    <2> DEFINE x == peer[p]
               y == [x EXCEPT !.receiver.reasm.output = Pop(@, n)]
               r == x.receiver
    <2>2. peer' = [peer EXCEPT ![p] = y]
        BY <1>2, <2>1
    <2>3. n \in Nat /\ n <= Buffered(Inbound(x)) /\ n <= Buffered(r.reasm.output)
        BY <2>1 DEF Inbound
    <2>4. /\ y.sender = x.sender
          /\ y.receiver = [r EXCEPT !.reasm =
                [r.reasm EXCEPT !.output = Pop(r.reasm.output, n)]]
        <3> HIDE DEF y
        <3> QED
            BY <1>2, <2>3, ReadSound DEF y
    <2>5. InPlace(r.reasm.output) /\ r \in ReceiverType
        BY <1>2, InvSays DEF RecvRight, Streams, ReceiverSound
    <2>6. Inbound(y).closed = Inbound(x).closed
        <3>1. r.reasm \in ReassemblerType
            BY <2>5 DEF ReceiverType
        <3> HIDE DEF y, r
        <3>2. y.receiver.reasm.output = Pop(r.reasm.output, n)
            BY <2>4, <2>5, <3>1 DEF ReceiverType, ReassemblerType
        <3> QED
            BY <2>3, <2>5, <3>2, PopInPlace DEF Inbound, r
    <2> HIDE DEF y
    <2> QED
        BY <1>8, <1>9, <2>2, <2>4, <2>6 DEF Read
<1>10. ASSUME NEW p \in Peers, LingerExpires(p) PROVE Waits2
    <2> DEFINE y == [peer[p] EXCEPT !.quiet = TRUE]
    <2>1. /\ peer' = [peer EXCEPT ![p] = y] /\ net' = net
          /\ silence' = silence /\ budget' = budget
        BY <1>10 DEF LingerExpires
    <2>2. y.sender = peer[p].sender /\ Inbound(y) = Inbound(peer[p])
        BY <1>2 DEF PeerType, Inbound
    <2> HIDE DEF y
    <2> QED
        BY <1>8, <2>1, <2>2
<1>11. ASSUME NEW p \in Peers, Connects(p) PROVE Waits2
    <2>1. peer' = [peer EXCEPT ![p] = peer[p]]
        BY <1>2, <1>11 DEF Connects
    <2> QED
        BY <1>8, <1>11, <2>1 DEF Connects
<1>12. ASSUME NEW p \in Peers, Tick(p) PROVE Waits2
    <2> DEFINE q == Other(p)
               s == peer[p].sender
               c == Inbound(peer[q]).closed
    <2>1. TimerRunsOut(p) /\ LeftOver' = LeftOver /\ net[p] = << >> /\ net[q] = << >>
        BY <1>12, TwoPeers DEF Tick, MayTick, NothingUnderWay, LeftOver
    <2>2. Members(<< >>) = {}
        BY EmptySeq DEF Members
    <2>3. FinComes(p) = FALSE /\ AllBack(p) = FALSE
        BY <2>1, <2>2 DEF FinComes, AllBack
    <2>4. FewFaults /\ Owes(s) => InTime(s.rto, silence[q], LeftOver', FALSE, FALSE, c)
        <3>1. FewFaults => Waiting(p)
            BY <1>2 DEF Waitings
        <3> QED
            BY <2>1, <2>3, <3>1 DEF Waiting
    <2>5. LeftOver' <= LeftOver
        BY <1>4, <2>1
    <2> HIDE DEF c
    <2> QED
        BY <1>2, <1>3, <2>1, <2>4, <2>5, TimerWaits DEF c
<1>13. ASSUME NEW p \in Peers, EarlyTick(p) PROVE Waits2
    <2> DEFINE q == Other(p)
               s == peer[p].sender
               c == Inbound(peer[q]).closed
               f == FinComes(p)
               b == AllBack(p)
    <2>1. /\ TimerRunsOut(p) /\ budget.early > 0
          /\ budget' = [budget EXCEPT !.early = @ - 1]
        BY <1>13 DEF EarlyTick
    <2>2. LeftOver' = LeftOver - 1
        BY <1>2, <2>1 DEF BudgetType, LeftOver
    <2>3. s.rto \in Nat /\ silence[q] \in Nat
        BY <1>2, WaitingSays
    <2>4. FewFaults /\ Owes(s) => InTime(s.rto, silence[q], LeftOver', FALSE, FALSE, c)
        <3> SUFFICES ASSUME FewFaults, Owes(s)
                     PROVE  InTime(s.rto, silence[q], LeftOver', FALSE, FALSE, c)
            OBVIOUS
        <3>1. Waiting(p) /\ LeftOver \in 0 .. 3
            BY <1>2 DEF Waitings
        <3>2. LeftOver \in 1 .. 3
            BY <1>4, <2>2, <3>1
        <3>3. InTime(s.rto, silence[q], LeftOver, f, b, c)
            BY <3>1 DEF Waiting
        <3> HIDE DEF f, b, c, s, q
        <3>4. InTime(s.rto, silence[q], LeftOver - 1, FALSE, FALSE, c)
            BY <2>3, <3>2, <3>3, InTimeLess
        <3> QED
            BY <2>2, <3>4
    <2>5. LeftOver' <= LeftOver
        BY <1>4, <2>2
    <2> HIDE DEF c, f, b
    <2> QED
        BY <1>2, <1>3, <2>1, <2>4, <2>5, TimerWaits DEF c
<1>14. ASSUME NEW p \in Peers, Lose(p) PROVE Waits2
    <2>1. /\ peer' = peer /\ silence' = silence
          /\ budget' = [budget EXCEPT !.loss = @ - 1] /\ budget.loss > 0
        BY <1>14 DEF Lose
    <2>2. LeftOver' = LeftOver - 1
        BY <1>2, <2>1 DEF BudgetType, LeftOver
    <2> QED
        BY <1>2, <2>1, <2>2, LoseWaits
<1>15. ASSUME NEW p \in Peers, Delay(p) PROVE Waits2
    <2> DEFINE n == net[p]
               t == Tail(n)
               h == Head(n)
    <2>1. /\ peer' = peer /\ silence' = silence /\ n # << >>
          /\ net' = [net EXCEPT ![p] = Append(t, h)]
          /\ budget' = [budget EXCEPT !.delay = @ - 1] /\ budget.delay > 0
        BY <1>2, <1>15, EmptySeq DEF Delay
    <2>2. LeftOver' = LeftOver
        BY <1>2, <2>1 DEF BudgetType, LeftOver
    <2>3. n \in Seq(Datagram) /\ Len(n) \in Nat /\ Len(n) > 0
        BY <1>2, <2>1, EmptySeq, LenProperties
    <2>4. h = n[1] /\ h \in Datagram /\ t \in Seq(Datagram) /\ Len(t) = Len(n) - 1
          /\ \A i \in 1 .. Len(t) : t[i] = n[i + 1]
        BY <2>3, HeadTailProperties
    <2>5. net'[p] = Append(t, h) /\ \A q \in Peers : q # p => net'[q] = net[q]
        BY <1>2, <2>1
    <2> HIDE DEF n, t, h
    <2>6. Members(Append(t, h)) = Members(t) \cup {h}
        BY <2>4, MembersAppend
    <2>7. ASSUME NEW i \in 1 .. Len(n) PROVE n[i] \in Members(t) \cup {h}
        <3>1. CASE i = 1
            BY <2>4, <3>1
        <3>2. CASE i # 1
            <4>1. i - 1 \in 1 .. Len(t) /\ t[i - 1] = n[i]
                BY <2>3, <2>4, <3>2
            <4> QED
                BY <4>1 DEF Members
        <3> QED
            BY <3>1, <3>2
    <2>8. Members(n) \in SUBSET Members(net'[p])
        BY <2>5, <2>6, <2>7 DEF Members
    <2>9. \A q \in Peers : Members(net[q]) \in SUBSET Members(net'[q])
        BY <2>5, <2>8 DEF n
    <2> QED
        BY <1>2, <1>3, <2>1, <2>2, <2>9, QuietWaits
<1>16. UNCHANGED vars => Waits2
    <2> SUFFICES ASSUME UNCHANGED vars PROVE Waits2
        OBVIOUS
    <2>1. /\ peer' = peer /\ net' = net /\ silence' = silence /\ budget' = budget
        BY DEF vars
    <2>2. LeftOver' = LeftOver
        BY <2>1 DEF LeftOver
    <2> QED
        BY <1>2, <1>3, <2>1, <2>2, QuietWaits
<1>17. Waits2
    BY <1>5, <1>6, <1>7, <1>9, <1>10, <1>11, <1>12, <1>13, <1>14, <1>15, <1>16
    DEF Next, Done
<1> QED
    BY <1>1, <1>3, <1>17 DEF WaitInv

-----------------------------------------------------------------------------
(***************************************************************************)
(* What follows from it.                                                   *)
(***************************************************************************)
LEMMA SpecAckInv ==
    ASSUME SupplyIsShort, CloseOnlyIdle
    PROVE  Spec /\ []NoLateSyn /\ []NoSynAfterFin => []AckInv
<1>1. WaitInv /\ [Next]_vars /\ NoLateSyn /\ NoSynAfterFin => WaitInv'
    BY NextWaitInv
<1>2. Init => WaitInv
    BY InitAckInv, InitWaits DEF WaitInv
<1>3. WaitInv => AckInv
    BY DEF WaitInv
<1> QED
    BY <1>1, <1>2, <1>3, PTL DEF Spec

\* What the invariant says of a peer and of its partner's sender.
LEMMA AckInvSays ==
    ASSUME AckInv, NEW p \in Peers, NEW q, q = Other(p),
           NEW s, s = peer[q].sender, NEW r, r = peer[p].receiver
    PROVE  /\ q \in Peers /\ Other(q) = p
           /\ SenderSound(s) /\ ReceiverSound(r) /\ RecvRight(r, s) /\ Tidy(r)
           /\ Ends(s, r) /\ Got(r) = Received(p) /\ s.isn = ISN[q]
<1>1. q \in Peers /\ Other(q) = p /\ Inv /\ Promises
    BY TwoPeers DEF AckInv
<1>2. Promise(q)
    BY <1>1 DEF Promises
<1>3. Ends(s, r) /\ Tidy(r) /\ s.isn = ISN[q]
    BY <1>1, <1>2 DEF Promise
<1>4. SenderSound(s) /\ ReceiverSound(r) /\ RecvRight(r, s)
    BY <1>1, InvSays
<1>5. Got(r) = Received(p)
    BY DEF Got, Received
<1> QED
    BY <1>1, <1>3, <1>4, <1>5

LEMMA AckInvAckno == AckInv => AcknoIsNextNeeded
<1> SUFFICES ASSUME AckInv, NEW p \in Peers,
                    ReceiverSend(peer[p].receiver).hasAck
             PROVE  ReceiverSend(peer[p].receiver).ackno = Wrap(Received(p), ISN[Other(p)])
    BY DEF AcknoIsNextNeeded
<1> DEFINE q == Other(p)
           s == peer[q].sender
           r == peer[p].receiver
<1>1. /\ SenderSound(s) /\ ReceiverSound(r) /\ RecvRight(r, s) /\ Tidy(r)
      /\ Got(r) = Received(p) /\ s.isn = ISN[q]
    BY AckInvSays
<1> HIDE DEF s, q
<1>2. /\ ReceiverSend(r).hasAck = r.init
      /\ r.init => ReceiverSend(r).ackno = Wrap(Got(r), s.isn)
    BY <1>1, SaysGot
<1> QED
    BY <1>1, <1>2 DEF q

LEMMA AckInvArrived == AckInv => AcknowledgedHasArrived
<1> SUFFICES ASSUME AckInv, NEW p \in Peers
             PROVE  /\ peer[p].sender.last <= Received(Other(p))
                    /\ peer[p].sender.finAcked => Inbound(peer[Other(p)]).closed
    BY DEF AcknowledgedHasArrived
<1> DEFINE q == Other(p)
<1>1. q \in Peers /\ Other(q) = p
    BY TwoPeers
<1>2. Ends(peer[p].sender, peer[q].receiver) /\ Got(peer[q].receiver) = Received(q)
    BY <1>1, AckInvSays
<1> QED
    BY <1>2 DEF Ends, Inbound

LEMMA AckInvNobody == AckInv /\ FewFaults => NobodyIsLeftBehind
<1> SUFFICES ASSUME AckInv, FewFaults, NEW p \in Peers, ~Active(peer[p])
             PROVE  /\ Inbound(peer[Other(p)]).closed
                    /\ InFlight(peer[Other(p)].sender) = 0
    BY DEF NobodyIsLeftBehind
<1> QED
    BY LeaverDone

\* A receiver that answers says what it needs next: with the SYN and the bytes
\* it has in order, the FIN once its stream is closed, and never before, also
\* while bytes before the FIN are missing.  Assumed are streams short enough for
\* their numbers to be told apart, applications that close only what is
\* acknowledged, no late SYN, and no SYN after the FIN.
THEOREM AcknoSaysNext ==
    ASSUME SupplyIsShort, CloseOnlyIdle
    PROVE  Spec /\ []NoLateSyn /\ []NoSynAfterFin => []AcknoIsNextNeeded
BY SpecAckInv, AckInvAckno, PTL

\* What a sender takes as acknowledged has arrived, and so has the FIN.
THEOREM AcknowledgedArrives ==
    ASSUME SupplyIsShort, CloseOnlyIdle
    PROVE  Spec /\ []NoLateSyn /\ []NoSynAfterFin => []AcknowledgedHasArrived
BY SpecAckInv, AckInvArrived, PTL

\* A peer that leaves has delivered its stream to the end, and its partner has
\* nothing in flight, for as many datagrams lost and timers early as the linger
\* time of ten timeouts (tcp_peer.hh:44-45) can bear: three.  With four a partner
\* may still wait for an answer.
THEOREM NobodyLeftBehind ==
    ASSUME SupplyIsShort, CloseOnlyIdle, FewFaults
    PROVE  Spec /\ []NoLateSyn /\ []NoSynAfterFin => []NobodyIsLeftBehind
BY SpecAckInv, AckInvNobody, PTL

-----------------------------------------------------------------------------
(***************************************************************************)
(* A network that loses but keeps the order: there no SYN comes after the  *)
(* FIN.  A sender sends its SYN again only until it is acknowledged, which *)
(* it is before the FIN is sent.                                           *)
(***************************************************************************)
\* Only the first segment carries the SYN, and nothing else; once a number is
\* acknowledged, none that is outstanding does.
Greets(s) ==
    /\ \A x \in s.ost : /\ x.msg.SYN => x.at = 0
                        /\ x.at = 0 => SequenceLength(x.msg) <= 1
    /\ s.last > 0 => \A x \in s.ost : ~x.msg.SYN

\* push's loop sends the SYN when nothing has been sent, and then alone.
Greeting(x, s) ==
    LET y == x.sender IN
    /\ Greets(y)
    /\ y.last = s.last /\ s.exp <= y.exp
    /\ y.exp = 0 => Buffered(y.input) = 0 /\ ~y.input.closed
    /\ \A m \in Members(x.loop.out) : m.SYN => s.exp = 0

LEMMA TurnGreets ==
    ASSUME NEW s, SenderSound(s), s.last <= s.exp,
           NEW x \in LoopStates, Greeting(x, s)
    PROVE  Greeting(PushTurn(x), s)
<1> DEFINE y == x.sender
           l == x.loop
           msg == TurnMessage(y, l)
           n == TurnBytes(y, l)
           t == TurnSender(y, msg)
           k == TurnLoop(y, l, msg)
<1>1. LoopRight(y, l) /\ l.out \in Seq(Message)
    BY DEF LoopStates
<1>2. s.exp \in Nat /\ s.last \in Nat /\ y.exp \in Nat /\ y.last \in Nat
    BY <1>1, SenderNumbers DEF LoopRight, SenderType
<1>3. CASE Turns(l)
    <2>1. PushTurn(x) = [sender |-> t, loop |-> k]
        BY <1>3 DEF PushTurn
    <2>2. /\ msg \in Message /\ n \in Nat /\ n <= Buffered(y.input)
          /\ msg.SYN = (y.exp = 0) /\ msg.FIN \in BOOLEAN
          /\ msg.FIN => y.input.closed
          /\ SequenceLength(msg) = Flag(y.exp = 0) + n + Flag(msg.FIN)
          /\ SequenceLength(msg) \in Nat /\ SequenceLength(msg) > 0
        BY <1>1, <1>3, TurnSendsSome
    <2>3. Turned(y, l, t, k)
        BY <1>1, <1>3, TurnMoves
    <2>4. /\ t.last = y.last /\ t.exp = y.exp + SequenceLength(msg)
          /\ k.out = Append(l.out, msg)
          /\ t.ost = y.ost \cup {[at |-> y.exp, msg |-> msg]}
        BY <2>3 DEF Turned
    <2>5. Members(k.out) = Members(l.out) \cup {msg}
        BY <1>1, <2>2, <2>4, MembersAppend
    <2>6. y.exp = 0 => SequenceLength(msg) <= 1
        <3> SUFFICES ASSUME y.exp = 0 PROVE SequenceLength(msg) <= 1
            OBVIOUS
        <3>1. Buffered(y.input) = 0 /\ ~y.input.closed
            BY DEF Greeting
        <3>2. n = 0 /\ ~msg.FIN
            BY <2>2, <3>1
        <3>3. Flag(y.exp = 0) = 1 /\ Flag(msg.FIN) = 0
            BY <3>2 DEF Flag
        <3> QED
            BY <2>2, <3>2, <3>3
    <2>7. y.last > 0 => y.exp # 0
        BY <1>2 DEF Greeting
    <2>8. msg.SYN => s.exp = 0
        <3>1. msg.SYN => y.exp = 0
            BY <2>2
        <3>2. s.exp <= y.exp
            BY DEF Greeting
        <3> HIDE DEF msg
        <3> QED
            BY <1>2, <3>1, <3>2
    <2>9. s.exp <= t.exp /\ t.exp # 0 /\ t.last = s.last
        BY <1>2, <2>2, <2>4 DEF Greeting
    <2>10. PushTurn(x).sender = t /\ PushTurn(x).loop = k
        BY <2>1
    <2> HIDE DEF l, msg, n, t, k
    <2>11. Greets(t)
        <3> DEFINE new == [at |-> y.exp, msg |-> msg]
        <3>1. new.at = y.exp /\ new.msg = msg
            OBVIOUS
        <3>2. t.ost = y.ost \cup {new}
            BY <2>4
        <3>3. \A z \in y.ost : /\ z.msg.SYN => z.at = 0
                               /\ z.at = 0 => SequenceLength(z.msg) <= 1
            BY DEF Greeting, Greets
        <3>4. y.last > 0 => \A z \in y.ost : ~z.msg.SYN
            BY DEF Greeting, Greets
        <3> HIDE DEF new
        <3>5. \A z \in t.ost : /\ z.msg.SYN => z.at = 0
                               /\ z.at = 0 => SequenceLength(z.msg) <= 1
            BY <2>2, <2>6, <3>1, <3>2, <3>3
        <3>6. t.last > 0 => \A z \in t.ost : ~z.msg.SYN
            BY <2>2, <2>4, <2>7, <3>1, <3>2, <3>4
        <3> QED
            BY <3>5, <3>6 DEF Greets
    <2>12. \A m \in Members(k.out) : m.SYN => s.exp = 0
        BY <2>5, <2>8 DEF Greeting, l
    <2> QED
        BY <2>9, <2>10, <2>11, <2>12 DEF Greeting
<1>4. CASE ~Turns(l)
    <2>1. PushTurn(x) = x
        BY <1>4 DEF PushTurn
    <2> QED
        BY <2>1
<1> QED
    BY <1>3, <1>4

LEMMA PushAllGreets ==
    ASSUME NEW s, SenderSound(s), Greets(s), s.last <= s.exp,
           s.exp = 0 => Buffered(s.input) = 0 /\ ~s.input.closed,
           NEW t, t = PushAll(s).sender, NEW out, out = PushAll(s).out
    PROVE  /\ Greets(t)
           /\ \A m \in Members(out) : m.SYN => s.exp = 0
<1>1. s.exp \in Nat /\ s.last \in Nat /\ Buffered(s.input) \in Nat
    BY SenderNumbers
<1>2. Members(<< >>) = {}
    BY EmptySeq DEF Members
<1>3. CASE PushReturns(s)
    <2>1. t = s /\ out = << >>
        BY <1>3 DEF PushAll
    <2> QED
        BY <1>2, <2>1
<1>4. CASE ~PushReturns(s)
    <2> DEFINE x == [sender |-> s, loop |-> PushLoop(s)]
               S == {y \in LoopStates : Greeting(y, s)}
               z == PushLoops(s)
    <2>1. x \in LoopStates
        BY <1>4, PushStarts
    <2>2. x.sender = s /\ x.loop = PushLoop(s) /\ PushLoop(s).out = << >>
        BY DEF PushLoop
    <2> HIDE DEF x
    <2>3. Greeting(x, s)
        BY <1>1, <1>2, <2>2 DEF Greeting
    <2>4. \A y \in S : PushTurn(y) \in S
        BY TurnStays, TurnGreets
    <2>5. PushTurn(x) \in S
        BY <2>1, <2>3, <2>4
    <2>6. z \in S
        <3> HIDE DEF S
        <3> QED
            BY <1>1, <2>4, <2>5, PushLoopsStays DEF x
    <2>7. Greeting(z, s)
        BY <2>6
    <2>8. t = z.sender /\ out = z.loop.out
        BY <1>4 DEF PushAll
    <2> HIDE DEF z
    <2> QED
        BY <2>7, <2>8 DEF Greeting
<1> QED
    BY <1>3, <1>4

\* An answer takes from what is outstanding, the SYN with its number.
LEMMA TakeAckGreets ==
    ASSUME NEW s \in SenderType, Greets(s), NEW ackno \in Nat, NEW window \in Nat,
           NEW t, t = TakeAck(s, ackno, window)
    PROVE  Greets(t)
<1> DEFINE acked == s.finSent /\ ackno = s.exp
           noted == [s EXCEPT !.finAcked = acked]
           new == NewDataAcked(noted, ackno, window)
           old == OldAck(noted, ackno, window)
           after == IF ackno > s.last THEN new ELSE old
<1>1. s.exp \in Nat /\ s.last \in Nat /\ s.finSent \in BOOLEAN
      /\ \A x \in s.ost : x.at \in Nat /\ x.msg \in Message
    BY DEF SenderType, Segment
<1>2. t = IF ackno > s.exp THEN s ELSE TimerAfterAck(after, ackno > s.last)
    BY DEF TakeAck
<1>3. acked \in BOOLEAN
    BY <1>1
<1> HIDE DEF acked
<1>4. noted \in SenderType /\ noted.last = s.last /\ noted.ost = s.ost
    BY <1>3 DEF SenderType
<1> HIDE DEF noted
<1>5. new.last = ackno /\ new.ost = Unacked(s.ost, ackno)
    BY <1>4 DEF NewDataAcked, SenderType
<1>6. old.last = s.last /\ old.ost = s.ost
    BY <1>4 DEF OldAck, SenderType
<1>7. Greets(old)
    BY <1>6 DEF Greets
<1>8. ASSUME ackno > s.last PROVE Greets(new)
    <2>1. ackno >= 1
        BY <1>1, <1>8
    <2>2. Unacked(s.ost, ackno) \in SUBSET s.ost
        BY DEF Unacked
    <2>3. ASSUME NEW x \in Unacked(s.ost, ackno), x.msg.SYN PROVE FALSE
        <3>1. x \in s.ost /\ x.at = 0
            BY <2>3, <2>2 DEF Greets
        <3>2. PICK y \in s.ost : y.at <= x.at /\ y.at + SequenceLength(y.msg) > ackno
            BY <2>3 DEF Unacked
        <3>3. y.at = 0 /\ SequenceLength(y.msg) \in Nat
            BY <1>1, <3>1, <3>2, SequenceLengthIs
        <3>4. SequenceLength(y.msg) <= 1
            BY <3>3 DEF Greets
        <3> QED
            BY <2>1, <3>2, <3>3, <3>4
    <2> QED
        BY <1>5, <2>2, <2>3 DEF Greets
<1>9. new \in SenderType /\ old \in SenderType
    BY <1>4, NewDataAckedChanges, OldAckChanges
<1> HIDE DEF new, old
<1>10. after \in SenderType /\ Greets(after)
    BY <1>7, <1>8, <1>9
<1> HIDE DEF after
<1>11. \/ t = s \/ t = after
       \/ t = [after EXCEPT !.running = FALSE]
       \/ t = [after EXCEPT !.running = TRUE, !.expTime = after.rto]
    BY <1>2 DEF TimerAfterAck, StartTimer
<1>12. t = s \/ (t.last = after.last /\ t.ost = after.ost)
    BY <1>10, <1>11 DEF SenderType
<1> QED
    BY <1>10, <1>12 DEF Greets

LEMMA SenderReceiveGreets ==
    ASSUME NEW s, SenderSound(s), Greets(s), NEW m \in AckMessage, ~m.RST,
           NEW t, t = SenderReceive(s, m)
    PROVE  Greets(t)
<1>1. s \in SenderType
    BY DEF SenderSound
<1>2. TakesAck(s, t) \/ TakesNoAck(s, t)
    BY <1>1, AckCases
<1>3. CASE TakesAck(s, t)
    BY <1>1, <1>3, TakeAckGreets DEF TakesAck
<1>4. CASE TakesNoAck(s, t)
    <2>1. PICK window \in Nat : t = TakeAck(StartOver(s, window), 0, window)
        BY <1>4 DEF TakesNoAck
    <2> DEFINE g == StartOver(s, window)
    <2>2. g \in SenderType /\ g.ost = {}
        BY <1>1, StartOverChanges
    <2>3. t = TakeAck(g, 0, window) /\ 0 \in Nat
        BY <2>1
    <2> HIDE DEF g
    <2>4. Greets(g)
        BY <2>2 DEF Greets
    <2> QED
        BY <2>2, <2>3, <2>4, TakeAckGreets
<1> QED
    BY <1>2, <1>3, <1>4

LEMMA TickGreets ==
    ASSUME NEW s, SenderSound(s), Greets(s), NEW t, t = TickExpires(s)
    PROVE  Greets(t) /\ \A m \in Members(TickTransmits(s)) : m.SYN => ~(s.last > 0)
<1>1. s \in SenderType
    BY DEF SenderSound
<1>2. t.last = s.last /\ t.ost = s.ost
    BY <1>1, TickChanges
<1>3. ASSUME NEW m \in Members(TickTransmits(s)), m.SYN PROVE ~(s.last > 0)
    <2>1. CASE s.ost = {}
        <3>1. Members(<< >>) = {}
            BY EmptySeq DEF Members
        <3> QED
            BY <1>3, <2>1, <3>1 DEF TickTransmits
    <2>2. CASE s.ost # {}
        <3>1. Oldest(s.ost) \in s.ost
            BY <1>1, <2>2, OldestIsOne
        <3>2. TickTransmits(s) = << Oldest(s.ost).msg >>
            BY <2>2 DEF TickTransmits
        <3>3. m = Oldest(s.ost).msg
            BY <1>3, <3>2 DEF Members
        <3> QED
            BY <1>3, <3>1, <3>3 DEF Greets
    <2> QED
        BY <2>1, <2>2
<1> QED
    BY <1>2, <1>3 DEF Greets

\* A receiver has the FIN from a message with the FIN.
LEMMA ReceiverFin ==
    ASSUME NEW r, ReceiverSound(r), NEW m \in Message,
           NEW u, u = ReceiverReceive(r, m), u.fin
    PROVE  r.fin \/ m.FIN
<1>1. r \in ReceiverType
    BY DEF ReceiverSound
<1>2. CASE m.RST
    <2> DEFINE a == [r.reasm EXCEPT !.output = SetError(r.reasm.output)]
    <2>1. u = [r EXCEPT !.rst = TRUE, !.reasm = a]
        BY <1>1, <1>2 DEF ReceiverReceive, ReceiverType
    <2> HIDE DEF a
    <2> QED
        BY <1>1, <2>1 DEF ReceiverType
<1>3. CASE ~m.RST /\ m.SYN
    <2> DEFINE a == Insert(r.reasm, 0, m.payload, m.FIN)
    <2>1. u = [r EXCEPT !.init = TRUE, !.fin = m.FIN, !.rst = FALSE,
                        !.isn = m.seqno, !.maxAbs = 0, !.reasm = a]
        BY <1>3 DEF ReceiverReceive, ReceiveSYN
    <2> HIDE DEF a
    <2> QED
        BY <1>1, <2>1 DEF ReceiverType
<1>4. CASE ~m.RST /\ ~m.SYN
    <2> DEFINE abs == Unwrap(m.seqno, r.isn, r.maxAbs)
               a == Insert(r.reasm, StreamIndex(abs), m.payload, m.FIN)
    <2>1. u = [r EXCEPT !.fin = r.fin \/ m.FIN, !.maxAbs = abs, !.reasm = a]
        BY <1>4 DEF ReceiverReceive, ReceiveRest
    <2> HIDE DEF abs, a
    <2> QED
        BY <1>1, <2>1 DEF ReceiverType
<1> QED
    BY <1>2, <1>3, <1>4

\* A message with the SYN leaves a sender that has not sent the FIN.
Opener(y, out) ==
    /\ Greets(y.sender)
    /\ (\E d \in Members(out) : d.sender.SYN) => ~y.sender.finSent

\* What is pushed has the SYN only when nothing was sent before, of an idle
\* stream.
LEMMA PushOpens ==
    ASSUME NEW s, SenderSound(s), Greets(s), NEW edge \in Nat, SendRight(s, edge),
           NEW t, t = PushAll(s).sender, NEW out, out = PushAll(s).out
    PROVE  /\ Greets(t)
           /\ \A m \in Members(out) : m.SYN => ~t.finSent
<1>1. /\ s.exp \in Nat /\ s.last \in Nat /\ Buffered(s.input) \in Nat
      /\ s.input.popped \in Nat /\ s.input.pushed = s.input.popped + Buffered(s.input)
    BY SenderNumbers
<1>2. /\ s.last <= s.exp
      /\ s.exp = 0 => s.input.pushed = 0 /\ ~s.input.closed
    BY DEF SendRight
<1>3. s.exp = 0 => Buffered(s.input) = 0 /\ ~s.input.closed
    BY <1>1, <1>2
<1>4. Greets(t) /\ \A m \in Members(out) : m.SYN => s.exp = 0
    BY <1>2, <1>3, PushAllGreets
<1>5. SenderSound(t) /\ t.input.closed = s.input.closed
    BY PushAllSound, PushAllLasts
<1>6. t.finSent => s.exp # 0
    BY <1>3, <1>5 DEF SenderSound
<1> QED
    BY <1>4, <1>6

LEMMA CarryOpens ==
    ASSUME NEW y, NEW out, NEW msgs, NEW m, Carry(out, msgs, m), Greets(y.sender),
           \A e \in msgs : e.SYN => ~y.sender.finSent
    PROVE  Opener(y, out)
BY DEF Carry, Opener

LEMMA TickOpens ==
    ASSUME Inv, Promises, NEW p \in Peers, Greets(peer[p].sender),
           NEW step, step = PeerTick(peer[p])
    PROVE  Opener(step.peer, step.out) /\ step.peer.receiver = peer[p].receiver
<1> DEFINE x == peer[p]
           z == peer[Other(p)]
           s == x.sender
           t == TickExpires(s)
<1>1. PeerSound(x) /\ SenderSound(s) /\ Ends(s, z.receiver)
    BY InvSays, PromisesSay
<1>2. /\ step.peer.sender = t /\ step.peer.receiver = x.receiver
      /\ Carry(step.out, Members(TickTransmits(s)), ReceiverSend(x.receiver))
    BY <1>1, PeerTickSound
<1>3. Greets(t) /\ \A m \in Members(TickTransmits(s)) : m.SYN => ~(s.last > 0)
    BY <1>1, TickGreets
<1>4. t.finSent = s.finSent
    BY <1>1, TickChanges DEF SenderSound
<1> HIDE DEF t
<1>5. \A m \in Members(TickTransmits(s)) : m.SYN => ~t.finSent
    BY <1>1, <1>3, <1>4 DEF Ends
<1> QED
    BY <1>2, <1>3, <1>5, CarryOpens

LEMMA WriterOpens ==
    ASSUME Inv, NEW p \in Peers, p \in connected, Greets(peer[p].sender),
           NEW f, InPlace(f), f.popped = peer[p].sender.input.popped,
           f.error = peer[p].sender.input.error,
           ~peer[p].sender.finSent,
           NEW step, step = PeerPush(WithInput(p, f))
    PROVE  Opener(step.peer, step.out) /\ step.peer.receiver = peer[p].receiver
<1> DEFINE q == Other(p)
           x == peer[p]
           z == peer[q]
           edge == WindowEdge(z.receiver.reasm)
           w == [x EXCEPT !.sender.input = f]
           s == x.sender
           g == w.sender
           t == PushAll(g).sender
           out == PushAll(g).out
<1>1. /\ PeerSound(x) /\ edge \in Nat /\ SenderSound(s) /\ SendRight(s, edge)
      /\ Young(s, z.receiver, Members(net[q]), p \in connected,
               p = Client \/ x.receiver.init)
    BY InvSays
<1>2. PeerSound(w) /\ g = [s EXCEPT !.input = f] /\ w.receiver = x.receiver
    BY <1>1, InputChanges
<1>3. WithInput(p, f) = w
    BY DEF WithInput
<1>4. s.exp # 0
    BY <1>1 DEF Young
<1> HIDE DEF w
<1>5. SenderSound(g)
    BY <1>2 DEF PeerSound
<1>6. /\ step.peer.sender = t /\ step.peer.receiver = x.receiver
      /\ Carry(step.out, Members(out), ReceiverSend(x.receiver))
    BY <1>2, <1>3, PeerPushSound
<1>7. f.popped = s.input.popped /\ f.error = s.input.error /\ Greets(s)
    OBVIOUS
<1> HIDE DEF x, z, edge, s, g
<1>8. SendRight(g, edge) /\ Advances(s, g) /\ g.exp = s.exp /\ g.last = s.last
      /\ g.input = f /\ g.ost = s.ost
    BY <1>1, <1>2, <1>4, <1>5, <1>7, InputRight
<1>9. Greets(g)
    BY <1>7, <1>8 DEF Greets
<1>10. Greets(t) /\ \A m \in Members(out) : m.SYN => ~t.finSent
    BY <1>1, <1>5, <1>8, <1>9, PushOpens
<1> HIDE DEF t, out
<1> QED
    BY <1>6, <1>10, CarryOpens DEF x

LEMMA ReceiveOpens ==
    ASSUME Inv, SupplyIsShort, NEW p \in Peers, NEW d \in Members(net[p]),
           d.receiver.hasAck \/ p \notin connected, Greets(peer[p].sender),
           NEW step, step = PeerReceive(peer[p], d)
    PROVE  /\ Opener(step.peer, step.out)
           /\ step.peer.receiver.fin => peer[p].receiver.fin \/ d.sender.FIN
<1> DEFINE q == Other(p)
           x == peer[p]
           z == peer[q]
           edge == WindowEdge(z.receiver.reasm)
           s == x.sender
           a == d.receiver
           g == SenderReceive(s, a)
           u == ReceiverReceive(x.receiver, d.sender)
           t == PushAll(g).sender
           out == PushAll(g).out
           r == z.receiver
           h == x.receiver
           m == d.sender
<1>1. /\ PeerSound(x) /\ PeerSound(z) /\ edge \in Nat
      /\ SenderSound(s) /\ ReceiverSound(h) /\ ReceiverSound(r)
      /\ SendRight(s, edge)
      /\ Young(s, r, Members(net[q]), p \in connected, p = Client \/ h.init)
    BY InvSays
<1>2. \A e \in Members(net[p]) : e \in Datagram /\ AckRight(e.receiver, r, s)
    BY InvSays
<1>3. d \in Datagram /\ AckRight(a, r, s)
    BY <1>2
<1>4. m \in Message /\ a \in AckMessage
    BY <1>3 DEF Datagram, Answer, AckMessage
<1>5. Short(s)
    BY ShortBoth
<1>6. CASE ~Active(x)
    <2>1. step.peer = x /\ step.out = << >>
        BY <1>1, <1>3, <1>6, PeerReceiveSound
    <2>2. Members(<< >>) = {}
        BY EmptySeq DEF Members
    <2> QED
        BY <2>1, <2>2 DEF Opener
<1>7. CASE Active(x)
    <2>1. /\ step.peer.sender = t /\ step.peer.receiver = u
          /\ Carry(step.out, Replies(PushAll(g)), ReceiverSend(u))
        BY <1>1, <1>3, <1>7, PeerReceiveSound
    <2>2. SenderSound(g)
        BY <1>1, <1>4, SenderReceiveSound
    <2>3. Replies(PushAll(g)) = Members(out) \cup {e \in {EmptyMessage(t)} : out = << >>}
        BY DEF Replies
    <2>4. Greets(g)
        BY <1>1, <1>3, <1>4, SenderReceiveGreets DEF AckRight
    <2>5. u.fin => h.fin \/ m.FIN
        BY <1>1, <1>4, ReceiverFin
    <2> HIDE DEF x, z, s, a, g, u, t, out, r, h, m, q
    <2>6. a.hasAck \/ Idle(s)
        <3>1. a.hasAck \/ p \notin connected
            BY DEF a
        <3> QED
            BY <1>1, <3>1 DEF Young
    <2>7. /\ SendRight(g, edge) /\ Advances(s, g)
          /\ g.input = s.input
          /\ \/ a.hasAck /\ r.init /\ g.exp = s.exp
             \/ ~a.hasAck /\ g.exp = 0 /\ g.last = 0 /\ g.ost = {}
        <3>1. edge = WindowEdge(r.reasm) /\ g = SenderReceive(s, a)
            BY DEF r, g
        <3> HIDE DEF edge
        <3> QED
            BY <1>1, <1>3, <1>4, <1>5, <2>6, <3>1, SenderReceiveRight
    <2>8. Greets(t) /\ \A e \in Members(out) : e.SYN => ~t.finSent
        <3>1. t = PushAll(g).sender /\ out = PushAll(g).out
            BY DEF t, out
        <3> HIDE DEF edge
        <3> QED
            BY <1>1, <2>2, <2>4, <2>7, <3>1, PushOpens
    <2>9. ~EmptyMessage(t).SYN
        BY DEF EmptyMessage
    <2>10. Opener(step.peer, step.out)
        BY <2>1, <2>3, <2>8, <2>9, CarryOpens
    <2> QED
        BY <2>1, <2>5, <2>10 DEF h, m, x
<1> QED
    BY <1>6, <1>7

\* No datagram has the SYN; none has it after one with the FIN.
NoSyns(n) == \A d \in Members(n) : ~d.sender.SYN

FinsLast(n) ==
    \A i, j \in 1 .. Len(n) : i < j /\ n[i].sender.FIN => ~n[j].sender.SYN

\* The first of them is gone.
LEMMA FinsTail ==
    ASSUME NEW n \in Seq(Datagram), n # << >>, FinsLast(n)
    PROVE  /\ FinsLast(Tail(n))
           /\ Head(n).sender.FIN => NoSyns(Tail(n))
           /\ NoSyns(n) => NoSyns(Tail(n))
<1>1. Len(n) \in Nat /\ Len(n) > 0
    BY EmptySeq, LenProperties
<1> DEFINE t == Tail(n)
           h == Head(n)
           len == Len(n)
<1>2. /\ len \in Nat /\ len > 0 /\ h = n[1] /\ Len(t) = len - 1
      /\ \A i \in 1 .. len - 1 : t[i] = n[i + 1]
    BY <1>1, HeadTailProperties
<1>3. Members(t) = {t[i] : i \in 1 .. len - 1} /\ Members(n) = {n[i] : i \in 1 .. len}
    BY <1>2 DEF Members
<1>4. FinsLast(t) <=> \A i, j \in 1 .. len - 1 :
            i < j /\ t[i].sender.FIN => ~t[j].sender.SYN
    BY <1>2 DEF FinsLast
<1>5. \A i, j \in 1 .. len : i < j /\ n[i].sender.FIN => ~n[j].sender.SYN
    BY DEF FinsLast
<1> HIDE DEF t, h, len
<1>6. \A i \in 1 .. len - 1 : i + 1 \in 1 .. len /\ 1 < i + 1
    BY <1>2
<1>7. FinsLast(t)
    <2> SUFFICES ASSUME NEW i \in 1 .. len - 1, NEW j \in 1 .. len - 1, i < j,
                        t[i].sender.FIN
                 PROVE  ~t[j].sender.SYN
        BY <1>4
    <2>1. i + 1 < j + 1 /\ i + 1 \in 1 .. len /\ j + 1 \in 1 .. len
        BY <1>6
    <2> QED
        BY <1>2, <1>5, <2>1
<1>8. ASSUME h.sender.FIN PROVE NoSyns(t)
    <2> SUFFICES ASSUME NEW i \in 1 .. len - 1 PROVE ~t[i].sender.SYN
        BY <1>3 DEF NoSyns
    <2>1. 1 \in 1 .. len /\ i + 1 \in 1 .. len /\ 1 < i + 1
        BY <1>2, <1>6
    <2> QED
        BY <1>2, <1>5, <1>8, <2>1
<1>9. NoSyns(n) => NoSyns(t)
    BY <1>2, <1>3, <1>6 DEF NoSyns
<1> QED
    BY <1>7, <1>8, <1>9 DEF t, h

\* More have come.
LEMMA FinsMore ==
    ASSUME NEW n \in Seq(Datagram), NEW out \in Seq(Datagram), FinsLast(n),
           NoSyns(out) \/ \A d \in Members(n) \cup Members(out) : ~d.sender.FIN
    PROVE  FinsLast(n \o out)
<1> DEFINE c == n \o out
           a == Len(n)
           b == Len(out)
<1>1. a \in Nat /\ b \in Nat
    BY LenProperties
<1>2. /\ Len(c) = a + b
      /\ \A i \in 1 .. a + b : c[i] = IF i <= a THEN n[i] ELSE out[i - a]
    BY ConcatProperties
<1>3. \A i \in 1 .. a : n[i] \in Members(n)
    BY DEF Members
<1>4. \A i \in 1 .. b : out[i] \in Members(out)
    BY DEF Members
<1>5. \A i, j \in 1 .. a : i < j /\ n[i].sender.FIN => ~n[j].sender.SYN
    BY DEF FinsLast
<1> HIDE DEF c, a, b
<1> SUFFICES ASSUME NEW i \in 1 .. a + b, NEW j \in 1 .. a + b, i < j,
                    c[i].sender.FIN
             PROVE  ~c[j].sender.SYN
    BY <1>2 DEF FinsLast, c
<1>6. CASE j <= a
    <2>1. i \in 1 .. a /\ j \in 1 .. a /\ c[i] = n[i] /\ c[j] = n[j]
        BY <1>1, <1>2, <1>6
    <2> QED
        BY <1>5, <2>1
<1>7. CASE ~(j <= a)
    <2>1. j - a \in 1 .. b /\ c[j] = out[j - a]
        BY <1>1, <1>2, <1>7
    <2>2. c[j] \in Members(out)
        BY <1>4, <2>1
    <2>3. c[i] \in Members(n) \cup Members(out)
        <3>1. CASE i <= a
            <4>1. i \in 1 .. a /\ c[i] = n[i]
                BY <1>1, <1>2, <3>1
            <4> QED
                BY <1>3, <4>1
        <3>2. CASE ~(i <= a)
            <4>1. i - a \in 1 .. b /\ c[i] = out[i - a]
                BY <1>1, <1>2, <3>2
            <4> QED
                BY <1>4, <4>1
        <3> QED
            BY <3>1, <3>2
    <2> QED
        BY <2>2, <2>3 DEF NoSyns
<1> QED
    BY <1>6, <1>7

First(p) ==
    LET q == Other(p) IN
    /\ Greets(peer[p].sender)
    /\ FinsLast(net[q])
    /\ peer[q].receiver.fin => NoSyns(net[q])

Firsts == \A p \in Peers : First(p)

\* A step of peer p keeps the order.
LEMMA FirstsKept ==
    ASSUME Inv, Inv', Firsts, NEW p \in Peers, NEW out \in Seq(Datagram),
           NEW q, q = Other(p), peer'[q] = peer[q], net'[q] = net[q] \o out,
           Opener(peer'[p], out),
           \/ /\ net'[p] = net[p]
              /\ peer'[p].receiver.fin => peer[p].receiver.fin
           \/ /\ net[p] # << >> /\ net'[p] = Tail(net[p])
              /\ peer'[p].receiver.fin =>
                    peer[p].receiver.fin \/ Head(net[p]).sender.FIN
    PROVE  Firsts'
<1> DEFINE n == net[p]
           m == net[q]
           y == peer'[p].sender
           r == peer[q].receiver
<1>1. q \in Peers /\ q # p /\ Other(q) = p /\ \A o \in Peers : o = p \/ o = q
    BY TwoPeers
<1>2. n \in Seq(Datagram) /\ m \in Seq(Datagram)
    BY <1>1 DEF Inv, TypeInv
<1>3. Members(m \o out) = Members(m) \cup Members(out)
    BY <1>2, MembersOfBoth
<1>4. FinsLast(m) /\ (r.fin => NoSyns(m))
    BY DEF Firsts, First
<1>5. /\ Greets(peer[q].sender) /\ FinsLast(n)
      /\ peer[p].receiver.fin => NoSyns(n)
    BY <1>1 DEF Firsts, First
<1>6. ASSUME ~y.finSent
      PROVE  ~r.fin /\ \A d \in Members(m) \cup Members(out) : ~d.sender.FIN
    <2>1. Right(p)'
        BY DEF Inv
    <2>2. RecvRight(r, y)
        BY <2>1 DEF Right, Agree
    <2>3. \E edge : \A d \in Members(net'[q]) : Sent(d.sender, y, edge)
        BY <2>1 DEF Right, Agree
    <2>4. \A d \in Members(m) \cup Members(out) : d.sender.FIN => y.finSent
        BY <1>3, <2>3, FinSent
    <2> QED
        BY <1>6, <2>2, <2>4 DEF RecvRight
<1>7. NoSyns(out) \/ ~y.finSent
    BY DEF Opener, NoSyns
<1>8. FinsLast(m \o out)
    <2> HIDE DEF m
    <2> QED
        BY <1>2, <1>4, <1>6, <1>7, FinsMore
<1>9. r.fin => NoSyns(m \o out)
    BY <1>3, <1>4, <1>6, <1>7 DEF NoSyns
<1>10. First(p)'
    BY <1>8, <1>9 DEF First, Opener
<1>11. FinsLast(net'[p]) /\ (peer'[p].receiver.fin => NoSyns(net'[p]))
    <2> HIDE DEF n
    <2>1. n # << >> => /\ FinsLast(Tail(n))
                       /\ Head(n).sender.FIN => NoSyns(Tail(n))
                       /\ NoSyns(n) => NoSyns(Tail(n))
        BY <1>2, <1>5, FinsTail
    <2> QED
        BY <1>5, <2>1 DEF n
<1>12. First(q)'
    BY <1>1, <1>5, <1>11 DEF First
<1> QED
    BY <1>1, <1>10, <1>12 DEF Firsts

\* One in which p sends nothing.
LEMMA QuietFirsts ==
    ASSUME Inv, Inv', Firsts, NEW p \in Peers,
           peer'[Other(p)] = peer[Other(p)], net'[Other(p)] = net[Other(p)],
           peer'[p].sender = peer[p].sender,
           peer'[p].receiver.fin => peer[p].receiver.fin,
           net'[p] = net[p] \/ (net[p] # << >> /\ net'[p] = Tail(net[p]))
    PROVE  Firsts'
<1> DEFINE q == Other(p)
           none == << >>
<1>1. net[q] \in Seq(Datagram)
    BY TwoPeers DEF Inv, TypeInv
<1>2. net[q] \o none = net[q] /\ none \in Seq(Datagram)
    BY <1>1, ConcatEmptySeq
<1>3. Members(none) = {}
    BY EmptySeq DEF Members
<1>4. peer'[q] = peer[q] /\ net'[q] = net[q] \o none /\ q = Other(p)
    BY <1>2
<1> HIDE DEF none, q
<1>5. Opener(peer'[p], none)
    BY <1>3 DEF Opener, Firsts, First
<1> QED
    BY <1>2, <1>4, <1>5, FirstsKept

LEMMA NextFirsts ==
    ASSUME SupplyIsShort, Inv, Inv', Promises, NoLateSyn, Firsts,
           budget.delay = 0, [Next]_vars
    PROVE  Firsts'
<1>0. TypeInv
    BY DEF Inv
<1>1. /\ peer \in [Peers -> PeerType] /\ \A p \in Peers : PeerSound(peer[p])
      /\ net \in [Peers -> Seq(Datagram)]
    BY DEF Inv, TypeInv
<1>2. \A p \in Peers : /\ net[p] \in Seq(Datagram) /\ Greets(peer[p].sender)
                       /\ Other(p) \in Peers /\ Other(p) # p
    BY <1>1, TwoPeers DEF Firsts, First
<1>3. ASSUME NEW p \in Peers, Deliver(p) PROVE Firsts'
    <2> DEFINE d == Head(net[p])
               step == PeerReceive(peer[p], d)
               q == Other(p)
               out == step.out
    <2>1. d \in Datagram /\ d \in Members(net[p]) /\ net[p] # << >>
        BY <1>2, <1>3, NetWithoutFirst DEF Deliver, MayDeliver
    <2>2. d.receiver.hasAck \/ p \notin connected
        <3>1. PICK i \in 1 .. Len(net[p]) : d = net[p][i]
            BY <2>1 DEF Members
        <3>2. i \in DOMAIN net[p]
            BY <1>2, LenProperties
        <3> QED
            BY <3>1, <3>2 DEF NoLateSyn
    <2>3. /\ Opener(step.peer, out)
          /\ step.peer.receiver.fin => peer[p].receiver.fin \/ d.sender.FIN
        <3> HIDE DEF d
        <3> QED
            BY <1>2, <2>1, <2>2, ReceiveOpens
    <2>4. out \in Seq(Datagram)
        BY <1>1, <2>1, PeerReceiveSound DEF StepSound
    <2>5. /\ peer' = [peer EXCEPT ![p] = step.peer]
          /\ net' = [net EXCEPT ![p] = Tail(@), ![q] = @ \o step.out]
        BY <1>3 DEF Deliver
    <2> HIDE DEF step, d
    <2>6. /\ net'[p] = Tail(net[p]) /\ net'[q] = net[q] \o out
          /\ peer'[p] = step.peer /\ peer'[q] = peer[q] /\ q = Other(p)
        BY <1>1, <1>2, <2>5
    <2> HIDE DEF out, q
    <2>7. peer'[p].receiver.fin => peer[p].receiver.fin \/ Head(net[p]).sender.FIN
        BY <2>3, <2>6 DEF d
    <2>8. Opener(peer'[p], out)
        BY <2>3, <2>6
    <2> QED
        BY <2>1, <2>4, <2>6, <2>7, <2>8, FirstsKept
<1>4. ASSUME NEW p \in Peers, NEW step, StepSound(step), Does(p, step),
             Opener(step.peer, step.out), step.peer.receiver = peer[p].receiver
      PROVE  Firsts'
    <2> DEFINE q == Other(p)
               out == step.out
    <2>1. /\ peer' = [peer EXCEPT ![p] = step.peer]
          /\ net' = [net EXCEPT ![q] = @ \o step.out]
        BY <1>4 DEF Does
    <2>2. /\ net'[p] = net[p] /\ net'[q] = net[q] \o out
          /\ peer'[p] = step.peer /\ peer'[q] = peer[q] /\ q = Other(p)
        BY <1>1, <1>2, <2>1
    <2>3. out \in Seq(Datagram) /\ Opener(peer'[p], out)
        BY <1>4, <2>2 DEF StepSound
    <2>4. peer'[p].receiver.fin => peer[p].receiver.fin
        BY <1>4, <2>2
    <2> HIDE DEF q, out
    <2> QED
        BY <2>2, <2>3, <2>4, FirstsKept
<1>5. ASSUME NEW p \in Peers, NEW f, InPlace(f), p \in connected,
             ~peer[p].sender.finSent, PeerSound(WithInput(p, f)),
             f.popped = peer[p].sender.input.popped,
             f.error = peer[p].sender.input.error,
             Does(p, PeerPush(WithInput(p, f)))
      PROVE  Firsts'
    <2> DEFINE step == PeerPush(WithInput(p, f))
    <2>1. StepSound(step)
        BY <1>5, PeerPushSound
    <2>2. Opener(step.peer, step.out) /\ step.peer.receiver = peer[p].receiver
        BY <1>2, <1>5, WriterOpens
    <2>3. Does(p, step)
        BY <1>5
    <2> HIDE DEF step
    <2> QED
        BY <1>4, <2>1, <2>2, <2>3
<1>6. ASSUME NEW p \in Peers, NEW n \in 1 .. SendCapacity, Write(p, n) PROVE Firsts'
    <2> DEFINE f == peer[p].sender.input
               w == Written(f, n)
    <2>1. /\ ~f.closed /\ p \in connected
          /\ Does(p, PeerPush(WithInput(p, w)))
        BY <1>6 DEF Write, MayWrite, Written
    <2>2. InPlace(f) /\ ~peer[p].sender.finSent /\ PeerSound(WithInput(p, w))
        BY <1>0, <1>1, <2>1, WriterSound
    <2>3. InPlace(w) /\ w.popped = f.popped /\ w.error = f.error
        BY <2>2, WrittenInPlace
    <2> HIDE DEF w
    <2> QED
        BY <1>5, <2>1, <2>2, <2>3
<1>7. ASSUME NEW p \in Peers, CloseOutbound(p) PROVE Firsts'
    <2> DEFINE f == peer[p].sender.input
               w == Close(f)
    <2>1. /\ ~f.closed /\ p \in connected
          /\ Does(p, PeerPush(WithInput(p, w)))
        BY <1>7 DEF CloseOutbound, MayClose, MayWrite
    <2>2. InPlace(f) /\ ~peer[p].sender.finSent /\ PeerSound(WithInput(p, w))
        BY <1>0, <1>1, <2>1, WriterSound
    <2>3. InPlace(w) /\ w.popped = f.popped /\ w.error = f.error
        BY <2>2, MarksInPlace
    <2> HIDE DEF w
    <2> QED
        BY <1>5, <2>1, <2>2, <2>3
<1>8. ASSUME NEW p \in Peers, Tick(p) \/ EarlyTick(p) PROVE Firsts'
    <2> DEFINE step == PeerTick(peer[p])
    <2>1. Does(p, step)
        BY <1>8 DEF Tick, EarlyTick, TimerRunsOut
    <2>2. StepSound(step)
        BY <1>1, PeerTickSound
    <2>3. Opener(step.peer, step.out) /\ step.peer.receiver = peer[p].receiver
        BY <1>2, TickOpens
    <2> HIDE DEF step
    <2> QED
        BY <1>4, <2>1, <2>2, <2>3
<1>9. ASSUME NEW p \in Peers, Read(p) \/ LingerExpires(p) \/ Lose(p) PROVE Firsts'
    <2> DEFINE q == Other(p)
    <2>1. /\ q \in Peers /\ q # p /\ peer[p] \in PeerType
          /\ peer[p].receiver \in ReceiverType
        BY <1>1, <1>2 DEF PeerType
    <2>2. /\ net'[q] = net[q]
          /\ net'[p] = net[p] \/ (net[p] # << >> /\ net'[p] = Tail(net[p]))
        BY <1>1, <1>9, <2>1 DEF Read, LingerExpires, Lose
    <2>3. /\ peer'[p].sender = peer[p].sender /\ peer'[q] = peer[q]
          /\ peer'[p].receiver.fin = peer[p].receiver.fin
        <3>1. CASE Read(p)
            <4>1. PICK n \in 1 .. Buffered(Inbound(peer[p])) :
                      peer' = [peer EXCEPT ![p].receiver.reasm.output = Pop(@, n)]
                BY <3>1 DEF Read
            <4> QED
                BY <1>1, <2>1, <4>1 DEF PeerType, ReceiverType
        <3>2. CASE LingerExpires(p)
            BY <1>1, <2>1, <3>2 DEF LingerExpires, PeerType
        <3>3. CASE Lose(p)
            BY <3>3 DEF Lose
        <3> QED
            BY <1>9, <3>1, <3>2, <3>3
    <2>4. Inv /\ Inv' /\ Firsts /\ p \in Peers
        BY <1>9
    <2> QED
        BY <2>2, <2>3, <2>4, QuietFirsts
<1>10. ASSUME NEW p \in Peers, Delay(p) PROVE FALSE
    BY <1>10 DEF Delay
<1>11. peer' = peer /\ net' = net => Firsts'
    BY <1>2 DEF Firsts, First
<1>12. ASSUME NEW p \in Peers, Connects(p) PROVE Firsts'
    BY <1>11, <1>12 DEF Connects
<1>13. UNCHANGED vars => Firsts'
    BY <1>11 DEF vars
<1> QED
    BY <1>3, <1>6, <1>7, <1>8, <1>9, <1>10, <1>12, <1>13 DEF Next, Done

LEMMA FirstsSay == Inv /\ Firsts => NoSynAfterFin
<1> SUFFICES ASSUME Inv, Firsts, NEW p \in Peers, NEW i \in DOMAIN net[p],
                    net[p][i].sender.SYN
             PROVE  ~peer[p].receiver.fin
    BY DEF NoSynAfterFin
<1>1. Other(p) \in Peers /\ Other(Other(p)) = p
    BY TwoPeers
<1>2. net[p] \in Seq(Datagram)
    BY DEF Inv, TypeInv
<1>3. net[p][i] \in Members(net[p])
    BY <1>2, LenProperties DEF Members
<1> QED
    BY <1>1, <1>3 DEF Firsts, First, NoSyns

LEMMA InitFirsts == Init => Firsts
<1> SUFFICES ASSUME Init PROVE Firsts
    OBVIOUS
<1> DEFINE fresh == [p \in Peers |-> NewPeer(SendCapacity, RecvCapacity, ISN[p])]
           c == Client
           q == Other(c)
           x == fresh[c]
           z == fresh[q]
           step == PeerPush(x)
           y == step.peer
           s == x.sender
           v == z.sender
           r == z.receiver
           t == PushAll(s).sender
<1>1. /\ c \in Peers /\ q \in Peers /\ q # c /\ Other(q) = c
      /\ \A p \in Peers : p = c \/ p = q
    BY ConnectionConstants, TwoPeers
<1>2. /\ peer = [fresh EXCEPT ![c] = y]
      /\ net = [p \in Peers |-> IF p = c THEN << >> ELSE step.out]
    BY DEF Init
<1>3. peer[c] = y /\ peer[q] = z
    BY <1>1, <1>2
<1>4. ISN[c] \in 0 .. Modulus - 1 /\ ISN[q] \in 0 .. Modulus - 1
    BY <1>1, ConnectionConstants
<1>5. /\ s = NewSender(SendCapacity, ISN[c]) /\ x.receiver = NewReceiver(RecvCapacity)
      /\ v = NewSender(SendCapacity, ISN[q]) /\ r = NewReceiver(RecvCapacity)
    BY <1>1 DEF NewPeer
<1>6. PeerSound(x) /\ PeerSound(z)
    BY <1>1, <1>4, NewPeerSound
<1>7. y.sender = t /\ y.receiver = x.receiver
    BY <1>6, PeerPushSound
<1> HIDE DEF fresh, q, step, x, z, s, v, r, t
<1>8. SenderSound(s) /\ ReceiverSound(r) /\ y.receiver = r
    BY <1>5, <1>6, <1>7 DEF PeerSound, s, r
<1>9. /\ SendRight(s, WindowEdge(r.reasm)) /\ s.ost = {} /\ v.ost = {} /\ ~r.init
    BY <1>4, <1>5, NewRight
<1>10. Greets(s) /\ Greets(v)
    BY <1>9 DEF Greets
<1>11. Greets(t)
    <2>1. WindowEdge(r.reasm) \in Nat
        BY <1>8, ReceiverNumbers
    <2> QED
        BY <1>8, <1>9, <1>10, <2>1, PushOpens DEF t
<1> HIDE DEF y
<1>12. \A p \in Peers : Greets(peer[p].sender) /\ ~peer[p].receiver.init
    BY <1>1, <1>3, <1>7, <1>8, <1>9, <1>10, <1>11 DEF v, r
<1>13. ASSUME NEW p \in Peers PROVE First(p)
    <2> DEFINE o == Other(p)
               f == peer[p].sender
               u == peer[o].receiver
    <2>1. o \in Peers /\ Inv /\ Promises
        BY TwoPeers, InitAckInv DEF AckInv
    <2>2. ~f.finSent
        <3>1. Ends(f, u)
            BY <2>1, PromisesSay
        <3>2. ~u.init
            BY <1>12, <2>1
        <3> QED
            BY <3>1, <3>2 DEF Ends
    <2>3. RecvRight(u, f) /\ \E edge : \A d \in Members(net[o]) : Sent(d.sender, f, edge)
        BY <2>1 DEF Inv, Right, Agree
    <2>4. ~u.fin /\ \A d \in Members(net[o]) : ~d.sender.FIN
        BY <2>2, <2>3, FinSent DEF RecvRight
    <2>5. FinsLast(net[o])
        BY <2>4 DEF FinsLast, Members
    <2> QED
        BY <1>12, <2>4, <2>5 DEF First
<1> QED
    BY <1>13 DEF Firsts

\* All of it, in a network that keeps the order: no SYN comes late there, and
\* none after the FIN.
LEMMA InOrderAckInv ==
    ASSUME SupplyIsShort, CloseOnlyIdle, NothingOvertakes
    PROVE  Spec => []AckInv
<1> DEFINE All == WaitInv /\ OrderHolds /\ Firsts
<1>1. Init => All
    BY InitAckInv, InitWaits, InitInOrder, InitFirsts DEF WaitInv
<1>2. ASSUME All, [Next]_vars PROVE All'
    <2>1. Inv /\ NoLateSyn /\ NoSynAfterFin /\ budget.delay = 0
        BY <1>2, InOrderOpens, FirstsSay DEF WaitInv, AckInv, OrderHolds
    <2>2. WaitInv'
        BY <1>2, <2>1, NextWaitInv
    <2>3. OrderHolds'
        BY <1>2, <2>1, NextInOrder
    <2>4. Firsts'
        BY <1>2, <2>1, <2>2, NextFirsts DEF WaitInv, AckInv
    <2> QED
        BY <2>2, <2>3, <2>4
<1>3. All => AckInv
    BY DEF WaitInv
<1> HIDE DEF All
<1> QED
    BY <1>1, <1>2, <1>3, PTL DEF Spec

\* In a network that loses but keeps the order, with nothing assumed of the
\* SYN: the number a receiver acknowledges is the one it needs next.
THEOREM AcknoSaysNextInOrder ==
    ASSUME SupplyIsShort, CloseOnlyIdle, NothingOvertakes
    PROVE  Spec => []AcknoIsNextNeeded
BY InOrderAckInv, AckInvAckno, PTL

\* What a sender takes as acknowledged has arrived, and so has the FIN.
THEOREM AcknowledgedArrivesInOrder ==
    ASSUME SupplyIsShort, CloseOnlyIdle, NothingOvertakes
    PROVE  Spec => []AcknowledgedHasArrived
BY InOrderAckInv, AckInvArrived, PTL

\* A peer that leaves has delivered its stream, and its partner has nothing in
\* flight: with at most three datagrams lost or timers early, nobody waits for
\* an answer that never comes.
THEOREM NobodyLeftBehindInOrder ==
    ASSUME SupplyIsShort, CloseOnlyIdle, NothingOvertakes, FewFaults
    PROVE  Spec => []NobodyIsLeftBehind
BY InOrderAckInv, AckInvNobody, PTL

=============================================================================
