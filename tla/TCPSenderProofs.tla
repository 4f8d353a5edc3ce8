--------------------------- MODULE TCPSenderProofs ---------------------------
(***************************************************************************)
(* Proofs about TCPSender.tla, for every capacity, payload, timeout, size  *)
(* of the number space, choice of windows and initial sequence numbers;    *)
(* and, at the end, about SeqnoTracking.tla, the sequence numbers that     *)
(* sender and receiver exchange, for numbers as large as wanted.           *)
(***************************************************************************)
EXTENDS TCPSender, SeqnoTracking, OperatorLemmas

-----------------------------------------------------------------------------
(***************************************************************************)
(* Types, and what the loop of push carries.                               *)
(***************************************************************************)
TypeInv ==
    /\ sender \in SenderType
    /\ InPlace(sender.input) /\ sender.input.cap = Capacity
    /\ pc \in {"idle", "push"}
    /\ loop.wnd \in Nat /\ loop.data \in Nat
    /\ pc = "push" =>
         /\ loop.wnd = sender.last + Window(sender) - sender.exp
         /\ loop.data = LeftToSend(sender)
    /\ sender.finSent => sender.input.closed /\ Buffered(sender.input) = 0

LEMMA InitTypeInv == Init => TypeInv
<1> SUFFICES ASSUME Init PROVE TypeInv
    OBVIOUS
<1>1. PICK isn \in ISNs : sender = NewSender(Capacity, isn)
    BY DEF Init
<1>2. isn \in 0 .. Modulus - 1 /\ Capacity \in Nat
    BY EnvironmentConstants
<1>3. sender \in SenderType
    BY <1>1, <1>2, NewSenderType
<1>4. sender.input = NewFifo(Capacity) /\ sender.finSent = FALSE
    BY <1>1 DEF NewSender
<1>5. InPlace(sender.input) /\ sender.input.cap = Capacity
    BY <1>2, <1>4, NewFifoInPlace DEF NewFifo
<1>6. pc = "idle" /\ loop.wnd \in Nat /\ loop.data \in Nat
    BY DEF Init, NoLoop
<1> QED
    BY <1>3, <1>4, <1>5, <1>6 DEF TypeInv

\* Inside the loop it is right, and a turn is one of those of OperatorLemmas.
LEMMA InLoop ==
    TypeInv /\ pc = "push" => LoopRight(sender, loop)
BY DEF TypeInv, LoopRight

LEMMA TurnSends ==
    ASSUME TypeInv, pc = "push", Turns(loop)
    PROVE  LET msg == TurnMessage(sender, loop)
               n   == TurnBytes(sender, loop)
           IN  /\ msg \in Message
               /\ n \in Nat /\ n <= Buffered(sender.input)
               /\ Len(msg.payload) = n
               /\ \A i \in 1 .. n : msg.payload[i] = sender.input.popped + i - 1
               /\ msg.SYN = (sender.exp = 0)
               /\ msg.seqno = Wrap(sender.exp, sender.isn)
               /\ msg.FIN \in BOOLEAN
               /\ msg.FIN => sender.input.closed /\ n = Buffered(sender.input)
               /\ SequenceLength(msg) = Flag(sender.exp = 0) + n + Flag(msg.FIN)
               /\ SequenceLength(msg) \in Nat
               /\ SequenceLength(msg) > 0 /\ SequenceLength(msg) <= loop.wnd
<1>1. LoopRight(sender, loop)
    BY InLoop
<1> QED
    BY <1>1, TurnSendsSome

LEMMA TurnChanges ==
    ASSUME TypeInv, PushTurns
    PROVE  /\ Turned(sender, loop, sender', loop')
           /\ pc = "push" /\ pc' = "push"
           /\ LoopRight(sender', loop') /\ sender'.input.cap = sender.input.cap
<1>1. /\ LoopRight(sender, loop) /\ Turns(loop) /\ pc = "push" /\ pc' = "push"
      /\ sender' = TurnSender(sender, TurnMessage(sender, loop))
      /\ loop' = TurnLoop(sender, loop, TurnMessage(sender, loop))
    BY InLoop DEF PushTurns
<1> QED
    BY <1>1, TurnMoves, TurnKeepsLoop

LEMMA TurnsKeepTypeInv == TypeInv /\ PushTurns => TypeInv'
<1> SUFFICES ASSUME TypeInv, PushTurns PROVE TypeInv'
    OBVIOUS
<1>1. /\ pc' = "push" /\ LoopRight(sender', loop')
      /\ sender'.input.cap = sender.input.cap
    BY TurnChanges
<1>2. sender.input.cap = Capacity
    BY DEF TypeInv
<1>3. /\ InPlace(sender.input)' = InPlace(sender'.input)
      /\ Window(sender)' = Window(sender')
      /\ LeftToSend(sender)' = LeftToSend(sender')
      /\ Buffered(sender.input)' = Buffered(sender'.input)
    BY DEF InPlace, Window, LeftToSend, Buffered
<1> QED
    BY <1>1, <1>2, <1>3 DEF TypeInv, LoopRight

\* The messages of this environment are messages of a receiver.
LEMMA PeerMessagesType == PeerMessages \subseteq AckMessage
<1>1. 0 \in 0 .. Modulus - 1 /\ Windows \subseteq Nat
    BY EnvironmentConstants, ModulusType
<1>2. [hasAck : {TRUE}, ackno : 0 .. Modulus - 1, window : Windows, RST : {FALSE}]
        \subseteq AckMessage
    BY <1>1 DEF AckMessage
<1>3. [hasAck : {FALSE}, ackno : {0}, window : Windows, RST : {FALSE}]
        \subseteq AckMessage
    BY <1>1 DEF AckMessage
<1>4. [hasAck : {FALSE}, ackno : {0}, window : {0}, RST : {TRUE}] \subseteq AckMessage
    <2>1. {0} \subseteq 0 .. Modulus - 1 /\ {0} \subseteq Nat
        BY <1>1
    <2> QED
        BY <2>1 DEF AckMessage
<1> QED
    BY <1>2, <1>3, <1>4 DEF PeerMessages

LEMMA ReceiveCases ==
    ASSUME NEW s \in SenderType, NEW m \in PeerMessages
    PROVE  LET t == SenderReceive(s, m) IN
           \/ m.RST /\ TakesReset(s, t)
           \/ m.hasAck /\ ~m.RST /\ TakesAck(s, t)
           \/ ~m.hasAck /\ ~m.RST /\ TakesNoAck(s, t)
BY PeerMessagesType, AckCases

\* The application's calls change the stream only.
LEMMA WriteChanges ==
    ASSUME TypeInv, NEW n \in 1 .. Capacity, Write(n)
    PROVE  /\ sender' \in SenderType
           /\ sender' = [sender EXCEPT !.input = sender'.input]
           /\ InPlace(sender'.input)
           /\ sender'.input.cap = sender.input.cap
           /\ sender'.input.closed = sender.input.closed
           /\ sender'.input.popped = sender.input.popped
           /\ sender.input.closed =>
                 Buffered(sender'.input) = Buffered(sender.input)
<1> DEFINE data == [i \in 1 .. n |-> sender.input.pushed + i - 1]
           f == Push(sender.input, data)
<1>1. /\ sender \in SenderType /\ InPlace(sender.input)
      /\ sender' = [sender EXCEPT !.input = f]
      /\ sender.input.pushed \in Nat /\ n \in Nat
    BY InPlaceNumbers, EnvironmentConstants DEF TypeInv, Write
<1>2. data \in Seq(Nat) /\ Len(data) = n
    <2>1. data \in [1 .. n -> Nat]
        BY <1>1
    <2> QED
        BY <1>1, <2>1, SeqDef, LenProperties
<1>3. \A i \in 1 .. Len(data) : data[i] = sender.input.pushed + i - 1
    BY <1>2
<1> HIDE DEF data
<1>4. /\ InPlace(f) /\ f.cap = sender.input.cap /\ f.closed = sender.input.closed
      /\ f.popped = sender.input.popped
      /\ Buffered(f) = Buffered(sender.input) + Room(sender.input, data)
    BY <1>1, <1>2, <1>3, PushInPlace
<1>5. sender.input.closed => Room(sender.input, data) = 0
    BY DEF Room
<1>6. Buffered(sender.input) \in Nat
    BY <1>1, InPlaceNumbers
<1> HIDE DEF f
<1>7. sender' \in SenderType
    BY <1>1, <1>4 DEF SenderType, InPlace
<1>8. sender'.input = f
    BY <1>1 DEF SenderType
<1> QED
    BY <1>1, <1>4, <1>5, <1>6, <1>7, <1>8

LEMMA CloseChanges ==
    ASSUME TypeInv, CloseInput
    PROVE  /\ sender' \in SenderType
           /\ sender' = [sender EXCEPT !.input = sender'.input]
           /\ InPlace(sender'.input)
           /\ sender'.input.cap = sender.input.cap
           /\ sender'.input.closed
           /\ sender'.input.popped = sender.input.popped
           /\ Buffered(sender'.input) = Buffered(sender.input)
<1> DEFINE f == Close(sender.input)
<1>1. /\ sender \in SenderType /\ InPlace(sender.input)
      /\ sender' = [sender EXCEPT !.input = f]
    BY DEF TypeInv, CloseInput
<1>2. InPlace(f) /\ f.cap = sender.input.cap /\ f.closed
      /\ f.popped = sender.input.popped /\ f.buf = sender.input.buf
    BY <1>1, MarksInPlace
<1> HIDE DEF f
<1>3. sender' \in SenderType
    BY <1>1, <1>2 DEF SenderType, InPlace
<1>4. sender'.input = f
    BY <1>1 DEF SenderType
<1> QED
    BY <1>1, <1>2, <1>3, <1>4 DEF Buffered

LEMMA NextTypeInv == TypeInv /\ [Next]_vars => TypeInv'
<1> SUFFICES ASSUME TypeInv, [Next]_vars PROVE TypeInv'
    OBVIOUS
<1>1. /\ sender \in SenderType /\ InPlace(sender.input)
      /\ sender.input.cap = Capacity
      /\ pc \in {"idle", "push"} /\ loop.wnd \in Nat /\ loop.data \in Nat
      /\ sender.finSent => sender.input.closed /\ Buffered(sender.input) = 0
    BY DEF TypeInv
<1> DEFINE Kept == /\ sender' \in SenderType /\ InPlace(sender'.input)
                   /\ sender'.input.cap = sender.input.cap
                   /\ sender'.finSent => /\ sender'.input.closed
                                         /\ Buffered(sender'.input) = 0
\* Between calls of push the loop carries nothing.
<1>2. ASSUME Kept, pc' = "idle", UNCHANGED loop PROVE TypeInv'
    <2>1. pc' \in {"idle", "push"} /\ pc' # "push"
        BY <1>2
    <2>2. loop'.wnd \in Nat /\ loop'.data \in Nat
        BY <1>1, <1>2
    <2>3. InPlace(sender.input)' = InPlace(sender'.input)
          /\ Buffered(sender.input)' = Buffered(sender'.input)
        BY DEF InPlace, Buffered
    <2> QED
        BY <1>1, <1>2, <2>1, <2>2, <2>3 DEF TypeInv
<1>3. ASSUME NEW n \in 1 .. Capacity, Write(n) PROVE TypeInv'
    <2>1. pc' = "idle" /\ UNCHANGED loop
        BY <1>3 DEF Write
    <2>2. /\ sender' \in SenderType
          /\ sender' = [sender EXCEPT !.input = sender'.input]
          /\ InPlace(sender'.input) /\ sender'.input.cap = sender.input.cap
          /\ sender'.input.closed = sender.input.closed
          /\ sender.input.closed => Buffered(sender'.input) = Buffered(sender.input)
        BY <1>3, WriteChanges
    <2>3. sender'.finSent = sender.finSent
        BY <1>1, <2>2 DEF SenderType
    <2>4. Kept
        BY <1>1, <2>2, <2>3
    <2> QED
        BY <1>2, <2>1, <2>4
<1>4. ASSUME CloseInput PROVE TypeInv'
    <2>1. pc' = "idle" /\ UNCHANGED loop
        BY <1>4 DEF CloseInput
    <2>2. /\ sender' \in SenderType
          /\ sender' = [sender EXCEPT !.input = sender'.input]
          /\ InPlace(sender'.input) /\ sender'.input.cap = sender.input.cap
          /\ sender'.input.closed
          /\ Buffered(sender'.input) = Buffered(sender.input)
        BY <1>4, CloseChanges
    <2>3. sender'.finSent = sender.finSent
        BY <1>1, <2>2 DEF SenderType
    <2>4. Kept
        BY <1>1, <2>2, <2>3
    <2> QED
        BY <1>2, <2>1, <2>4
<1>5. ASSUME PushBegins PROVE TypeInv'
    <2>1. /\ sender' = sender /\ pc' = "push" /\ ~PushReturns(sender)
          /\ loop' = PushLoop(sender)
        BY <1>5 DEF PushBegins
    <2>2. loop'.wnd = sender.last + Window(sender) - sender.exp
          /\ loop'.data = LeftToSend(sender)
        BY <2>1 DEF PushLoop, LeftToSend
    <2>3. sender.last \in Nat /\ sender.exp \in Nat /\ Window(sender) \in Nat
        BY <1>1, WindowIs DEF SenderType
    <2>4. loop'.wnd \in Nat
        BY <2>1, <2>2, <2>3 DEF PushReturns
    <2>5. LeftToSend(sender) \in Nat
        BY <1>1, InPlaceNumbers DEF LeftToSend, Flag
    <2> QED
        BY <1>1, <2>1, <2>2, <2>4, <2>5
           DEF TypeInv, Window, LeftToSend, InPlace, Buffered
<1>6. ASSUME PushTurns PROVE TypeInv'
    BY <1>6, TurnsKeepTypeInv
<1>7. ASSUME PushEnds PROVE TypeInv'
    <2>1. sender' = sender /\ pc' = "idle" /\ loop' = NoLoop
        BY <1>7 DEF PushEnds
    <2>2. loop'.wnd \in Nat /\ loop'.data \in Nat
        BY <2>1 DEF NoLoop
    <2> QED
        BY <1>1, <2>1, <2>2 DEF TypeInv, InPlace, Buffered
<1>8. ASSUME NEW m \in PeerMessages, Receive(m) PROVE TypeInv'
    <2>1. pc' = "idle" /\ UNCHANGED loop /\ sender' = SenderReceive(sender, m)
        BY <1>8 DEF Receive
    <2>2. /\ sender' \in SenderType /\ InPlace(sender'.input)
          /\ sender'.input.cap = sender.input.cap
          /\ sender'.input.closed = sender.input.closed
          /\ sender'.input.buf = sender.input.buf
          /\ sender'.finSent = sender.finSent
        BY <1>1, <2>1, PeerMessagesType, ReceiveKeepsStream
    <2>3. Kept
        BY <1>1, <2>2 DEF Buffered
    <2> QED
        BY <1>2, <2>1, <2>3
<1>9. ASSUME Tick PROVE TypeInv'
    <2>1. pc' = "idle" /\ UNCHANGED loop /\ sender' = TickExpires(sender)
        BY <1>9 DEF Tick
    <2>2. /\ sender' \in SenderType /\ sender'.input = sender.input
          /\ sender'.finSent = sender.finSent
        BY <1>1, <2>1, TickChanges
    <2>3. Kept
        BY <1>1, <2>2
    <2> QED
        BY <1>2, <2>1, <2>3
<1>10. ASSUME UNCHANGED vars PROVE TypeInv'
    BY <1>10 DEF TypeInv, vars, Window, LeftToSend, InPlace, Buffered
<1> QED
    BY <1>3, <1>4, <1>5, <1>6, <1>7, <1>8, <1>9, <1>10 DEF Next

LEMMA SpecTypeInv == Spec => []TypeInv
BY InitTypeInv, NextTypeInv, PTL DEF Spec

\* The sender's counters never go below zero, nor the two locals of push
\* (tcp_sender.cc:31-42), whatever the peer acknowledges and announces, late
\* messages with no ackno included.
THEOREM TypeCorrect == Spec => []TypeOK
<1>1. TypeInv => TypeOK
    <2> SUFFICES ASSUME TypeInv PROVE TypeOK
        OBVIOUS
    <2>1. sender \in SenderType /\ InPlace(sender.input)
          /\ sender.input.cap = Capacity
        BY DEF TypeInv
    <2>2. Available(sender.input) \in 0 .. Capacity
        <3>1. Available(sender.input) \in Nat
              /\ Available(sender.input) = Capacity - Len(sender.input.buf)
              /\ Buffered(sender.input) \in Nat
              /\ Buffered(sender.input) = Len(sender.input.buf)
            BY <2>1, InPlaceNumbers
        <3> QED
            BY <3>1, EnvironmentConstants
    <2>3. sender.ost \subseteq [at : Nat, msg : Message]
        BY <2>1 DEF SenderType, Segment
    <2>4. /\ sender.last \in Nat /\ sender.exp \in Nat /\ sender.wnd \in Nat
          /\ sender.finSent \in BOOLEAN /\ sender.finAcked \in BOOLEAN
          /\ sender.retx \in Nat /\ sender.conRetx \in BOOLEAN
          /\ sender.rto \in Nat /\ sender.expTime \in Nat
          /\ sender.running \in BOOLEAN /\ sender.isn \in 0 .. Modulus - 1
        BY <2>1 DEF SenderType
    <2> QED
        BY <2>2, <2>3, <2>4 DEF TypeInv, TypeOK
<1> QED
    BY <1>1, SpecTypeInv, PTL

-----------------------------------------------------------------------------
(***************************************************************************)
(* The window.                                                             *)
(***************************************************************************)
\* No action but a turn of push's loop raises the next number to send.
LEMMA OnlyTurnsSend ==
    ASSUME TypeInv, [Next]_vars
    PROVE  PushTurns \/ sender'.exp = sender.exp
             \/ \E m \in PeerMessages :
                   /\ MayArrive(m) /\ Receive(m)
                   /\ ~m.hasAck /\ ~m.RST /\ sender'.exp = 0
<1>1. sender \in SenderType
    BY DEF TypeInv
<1>2. ASSUME NEW n \in 1 .. Capacity, Write(n) PROVE sender'.exp = sender.exp
    BY <1>1, <1>2 DEF Write, SenderType
<1>3. ASSUME CloseInput PROVE sender'.exp = sender.exp
    BY <1>1, <1>3 DEF CloseInput, SenderType
<1>4. ASSUME PushBegins \/ PushEnds \/ UNCHANGED vars PROVE sender'.exp = sender.exp
    BY <1>4 DEF PushBegins, PushEnds, vars
<1>5. ASSUME Tick PROVE sender'.exp = sender.exp
    BY <1>1, <1>5, TickChanges DEF Tick
<1>6. ASSUME NEW m \in PeerMessages, MayArrive(m), Receive(m)
      PROVE  sender'.exp = sender.exp \/ (~m.hasAck /\ ~m.RST /\ sender'.exp = 0)
    <2>1. sender' = SenderReceive(sender, m)
        BY <1>6 DEF Receive
    <2>2. CASE TakesReset(sender, sender')
        BY <1>1, <2>2 DEF TakesReset, SenderType
    <2>3. CASE TakesAck(sender, sender')
        BY <1>1, <2>3, TakeAckChanges DEF TakesAck
    <2>4. CASE ~m.hasAck /\ ~m.RST /\ TakesNoAck(sender, sender')
        <3>1. PICK w \in Nat : sender' = TakeAck(StartOver(sender, w), 0, w)
            BY <2>4 DEF TakesNoAck
        <3>2. StartOver(sender, w) \in SenderType /\ StartOver(sender, w).exp = 0
            BY <1>1, StartOverChanges
        <3>3. sender'.exp = 0
            BY <3>1, <3>2, TakeAckChanges
        <3> QED
            BY <2>4, <3>3
    <2> QED
        BY <1>1, <2>1, <2>2, <2>3, <2>4, ReceiveCases
<1> QED
    BY <1>2, <1>3, <1>4, <1>5, <1>6 DEF Next

\* push sends nothing beyond the window the peer announced, counting SYN and
\* FIN (tcp_sender.cc:26-50).
THEOREM WindowKept == Spec => WindowRespected
<1>1. TypeInv /\ [Next]_vars =>
        [sender'.exp > sender.exp => sender'.exp <= sender.last + Window(sender)]_vars
    <2> SUFFICES ASSUME TypeInv, [Next]_vars, sender'.exp > sender.exp
                 PROVE  sender'.exp <= sender.last + Window(sender)
        OBVIOUS
    <2>1. sender.exp \in Nat /\ sender.last \in Nat /\ Window(sender) \in Nat
        BY WindowIs DEF TypeInv, SenderType
    <2>2. PushTurns
        BY <2>1, OnlyTurnsSend
    <2> DEFINE len == SequenceLength(TurnMessage(sender, loop))
    <2>3. sender'.exp = sender.exp + len /\ pc = "push" /\ Turns(loop)
        BY <2>2, TurnChanges DEF PushTurns, Turned
    <2>4. len \in Nat /\ len <= loop.wnd
        BY <2>3, TurnSends
    <2> HIDE DEF len
    <2>5. loop.wnd = sender.last + Window(sender) - sender.exp
        BY <2>3 DEF TypeInv
    <2> QED
        BY <2>1, <2>3, <2>4, <2>5
<1> QED
    BY <1>1, SpecTypeInv, PTL DEF Spec, WindowRespected

-----------------------------------------------------------------------------
(***************************************************************************)
(* The retransmission timer.                                               *)
(***************************************************************************)
\* The timer's half of the state of s.
Doubled(s) == s.rto = InitialRTO * 2 ^ s.retx

TimerRight(s) ==
    /\ s.running <=> s.ost # {}
    /\ s.running => s.expTime = s.rto
    /\ Doubled(s)
    /\ s.conRetx <=> s.retx > 0

LEMMA TimerIsRight == TimerRunsWhileOutstanding <=> TimerRight(sender)
BY DEF TimerRunsWhileOutstanding, TimerRight, Doubled

\* An ack leaves the timer right, however it is taken.
LEMMA AckKeepsTimer ==
    ASSUME NEW s \in SenderType, NEW ackno \in Nat, NEW window \in Nat,
           Doubled(s), s.conRetx <=> s.retx > 0,
           s.running /\ s.ost # {} => s.expTime = s.rto,
           s.ost # {} => s.running,
           s.running /\ s.ost = {} => ackno <= s.exp
    PROVE  TimerRight(TakeAck(s, ackno, window))
<1> DEFINE t == TakeAck(s, ackno, window)
<1>1. /\ t \in SenderType
      /\ \/ ackno > s.exp /\ t = s
         \/ TakenAsNew(s, t, ackno)
         \/ TakenAsOld(s, t, ackno)
    BY TakeAckChanges
<1>2. InitialRTO \in Nat /\ 2 ^ 0 = 1
    BY SenderConstants
<1> HIDE DEF t
<1>3. CASE ackno > s.exp /\ t = s
    <2>1. s.exp \in Nat /\ s.running \in BOOLEAN
        BY DEF SenderType
    <2>2. s.running <=> s.ost # {}
        BY <1>3, <2>1
    <2> QED
        BY <1>3, <2>2 DEF TimerRight, t
<1>4. CASE TakenAsNew(s, t, ackno)
    <2>1. Doubled(t)
        <3>1. t.rto = InitialRTO /\ t.retx = 0
            BY <1>4 DEF TakenAsNew
        <3> QED
            BY <1>2, <3>1 DEF Doubled
    <2>2. t.conRetx <=> t.retx > 0
        BY <1>4 DEF TakenAsNew
    <2>3. (t.running <=> t.ost # {}) /\ (t.running => t.expTime = t.rto)
        BY <1>4 DEF TakenAsNew
    <2> QED
        BY <2>1, <2>2, <2>3 DEF TimerRight, t
<1>5. CASE TakenAsOld(s, t, ackno)
    <2>1. Doubled(t)
        <3>1. t.rto = s.rto /\ t.retx = s.retx
            BY <1>5 DEF TakenAsOld
        <3> QED
            BY <3>1 DEF Doubled
    <2>2. t.conRetx <=> t.retx > 0
        BY <1>5 DEF TakenAsOld
    <2>3. (t.running <=> t.ost # {}) /\ (t.running => t.expTime = t.rto)
        BY <1>5 DEF TakenAsOld
    <2> QED
        BY <2>1, <2>2, <2>3 DEF TimerRight, t
<1> QED
    BY <1>1, <1>3, <1>4, <1>5

LEMMA InitTimer == Init => TimerRunsWhileOutstanding
<1> SUFFICES ASSUME Init PROVE TimerRight(sender)
    BY TimerIsRight
<1>1. PICK isn \in ISNs : sender = NewSender(Capacity, isn)
    BY DEF Init
<1>2. /\ sender.running = FALSE /\ sender.ost = {} /\ sender.rto = InitialRTO
      /\ sender.retx = 0 /\ sender.conRetx = FALSE
    BY <1>1 DEF NewSender
<1>3. InitialRTO \in Nat /\ 2 ^ 0 = 1
    BY SenderConstants
<1>4. Doubled(sender)
    BY <1>2, <1>3 DEF Doubled
<1> QED
    BY <1>2, <1>4 DEF TimerRight

LEMMA NextTimer ==
    TypeInv /\ TimerRunsWhileOutstanding /\ [Next]_vars => TimerRunsWhileOutstanding'
<1> SUFFICES ASSUME TypeInv, TimerRight(sender), [Next]_vars
             PROVE  TimerRight(sender')
    BY TimerIsRight DEF TimerRunsWhileOutstanding, TimerRight, Doubled
<1>1. sender \in SenderType
    BY DEF TypeInv
<1>2. ASSUME sender' = [sender EXCEPT !.input = sender'.input]
      PROVE  TimerRight(sender')
    <2>1. /\ sender'.running = sender.running /\ sender'.ost = sender.ost
          /\ sender'.expTime = sender.expTime /\ sender'.rto = sender.rto
          /\ sender'.retx = sender.retx /\ sender'.conRetx = sender.conRetx
        BY <1>1, <1>2 DEF SenderType
    <2> QED
        BY <2>1 DEF TimerRight, Doubled
<1>3. ASSUME NEW n \in 1 .. Capacity, Write(n) PROVE TimerRight(sender')
    BY <1>2, <1>3, WriteChanges
<1>4. ASSUME CloseInput PROVE TimerRight(sender')
    BY <1>2, <1>4, CloseChanges
<1>5. ASSUME PushBegins \/ PushEnds \/ UNCHANGED vars PROVE TimerRight(sender')
    BY <1>5 DEF PushBegins, PushEnds, vars, TimerRight, Doubled
<1>6. ASSUME PushTurns PROVE TimerRight(sender')
    <2> DEFINE x == [at |-> sender.exp, msg |-> TurnMessage(sender, loop)]
    <2>1. /\ sender'.ost = sender.ost \cup {x} /\ sender'.running = TRUE
          /\ sender'.rto = sender.rto
          /\ sender'.expTime = (IF sender.running THEN sender.expTime ELSE sender.rto)
          /\ sender'.retx = sender.retx /\ sender'.conRetx = sender.conRetx
        BY <1>6, TurnChanges DEF Turned
    <2> HIDE DEF x
    <2>2. sender'.ost # {}
        BY <2>1
    <2>3. sender'.expTime = sender'.rto
        BY <2>1 DEF TimerRight
    <2>4. Doubled(sender')
        BY <2>1 DEF TimerRight, Doubled
    <2> QED
        BY <2>1, <2>2, <2>3, <2>4 DEF TimerRight
<1>7. ASSUME NEW m \in PeerMessages, Receive(m) PROVE TimerRight(sender')
    <2>1. sender' = SenderReceive(sender, m)
        BY <1>7 DEF Receive
    <2>2. CASE TakesReset(sender, sender')
        <3>1. sender'.input = SetError(sender.input)
            BY <1>1, <2>2 DEF TakesReset, SenderType
        <3>2. sender' = [sender EXCEPT !.input = sender'.input]
            BY <2>2, <3>1 DEF TakesReset
        <3> QED
            BY <1>2, <3>2
    <2>3. CASE TakesAck(sender, sender')
        <3>1. PICK a \in Nat, w \in Nat : sender' = TakeAck(sender, a, w)
            BY <2>3 DEF TakesAck
        <3>2. TimerRight(TakeAck(sender, a, w))
            BY <1>1, AckKeepsTimer DEF TimerRight
        <3> QED
            BY <3>1, <3>2
    <2>4. CASE TakesNoAck(sender, sender')
        <3>1. PICK w \in Nat : sender' = TakeAck(StartOver(sender, w), 0, w)
            BY <2>4 DEF TakesNoAck
        <3> DEFINE o == StartOver(sender, w)
        <3>2. /\ o \in SenderType /\ o.exp = 0 /\ o.ost = {}
              /\ o.rto = sender.rto /\ o.retx = sender.retx
              /\ o.conRetx = sender.conRetx
            BY <1>1, StartOverChanges
        <3>5. Doubled(sender) <=> Doubled(o)
            BY <3>2 DEF Doubled
        <3>3. sender' = TakeAck(o, 0, w)
            BY <3>1
        <3> HIDE DEF o
        <3>4. TimerRight(TakeAck(o, 0, w))
            BY <3>2, <3>5, AckKeepsTimer DEF TimerRight
        <3> QED
            BY <3>3, <3>4
    <2> QED
        BY <1>1, <2>1, <2>2, <2>3, <2>4, ReceiveCases
<1>8. ASSUME Tick PROVE TimerRight(sender')
    <2> DEFINE t == TickExpires(sender)
    <2>1. sender' = t
        BY <1>8 DEF Tick
    <2>2. /\ t.ost = sender.ost
          /\ t.running <=> sender.ost # {}
          /\ t.running => t.expTime = t.rto
          /\ \/ t.rto = sender.rto /\ t.retx = sender.retx /\ t.conRetx = sender.conRetx
             \/ /\ t.rto = 2 * sender.rto /\ t.conRetx
                /\ t.retx = IF sender.conRetx THEN sender.retx + 1 ELSE 1
        BY <1>1, TickChanges
    <2> HIDE DEF t
    <2>3. sender.retx \in Nat /\ sender.conRetx \in BOOLEAN /\ InitialRTO \in Nat
        BY <1>1, SenderConstants DEF SenderType
    <2>4. CASE t.rto = sender.rto /\ t.retx = sender.retx /\ t.conRetx = sender.conRetx
        <3>1. Doubled(t)
            BY <2>4 DEF TimerRight, Doubled
        <3>2. t.conRetx <=> t.retx > 0
            BY <2>4 DEF TimerRight
        <3> QED
            BY <2>1, <2>2, <3>1, <3>2 DEF TimerRight
    <2>5. CASE /\ t.rto = 2 * sender.rto /\ t.conRetx
               /\ t.retx = IF sender.conRetx THEN sender.retx + 1 ELSE 1
        <3>1. t.retx = sender.retx + 1
            BY <2>3, <2>5 DEF TimerRight
        <3> DEFINE p == 2 ^ sender.retx
        <3>2. p \in Nat /\ 2 ^ (sender.retx + 1) = 2 * p
            BY <2>3, PowersDouble
        <3>3. sender.rto = InitialRTO * p
            BY DEF TimerRight, Doubled
        <3>4. 2 ^ t.retx = 2 * p
            BY <3>1, <3>2
        <3> HIDE DEF p
        <3>5. 2 * (InitialRTO * p) = InitialRTO * (2 * p)
            BY <2>3, <3>2
        <3>6. Doubled(t)
            BY <2>5, <3>3, <3>4, <3>5 DEF Doubled
        <3>7. t.conRetx <=> t.retx > 0
            BY <2>3, <2>5, <3>1
        <3> QED
            BY <2>1, <2>2, <3>6, <3>7 DEF TimerRight
    <2> QED
        BY <2>2, <2>4, <2>5
<1> QED
    BY <1>3, <1>4, <1>5, <1>6, <1>7, <1>8 DEF Next

\* Nothing waits for an ack without a timer, no timer runs with nothing in
\* flight (the assertion of tcp_sender.cc:176), and the timeout is the initial
\* one doubled for every retransmission in a row (tcp_sender.cc:160-190).
THEOREM TimerCorrect == Spec => []TimerRunsWhileOutstanding
BY InitTimer, NextTimer, SpecTypeInv, PTL DEF Spec

-----------------------------------------------------------------------------
(***************************************************************************)
(* The segments in flight.  That exactly one of them holds each number in  *)
(* flight is not inductive: an ack drops segments by where they end, and a *)
(* turn adds one at the end, so the invariant says that every number is    *)
(* held, that two segments share none, and where the stream stands between *)
(* the bytes sent and the bytes not yet taken from it.                     *)
(***************************************************************************)
Tiled(s) ==
    /\ s.last <= s.exp
    /\ \A x \in s.ost : End(x) > x.at /\ s.last < End(x) /\ End(x) <= s.exp
    /\ \A n \in s.last .. s.exp - 1 : \E x \in s.ost : x.at <= n /\ n < End(x)
    /\ \A x, y \in s.ost : x # y => End(x) <= y.at \/ End(y) <= x.at

NumberingRight(s) ==
    /\ s.exp = IF s.exp = 0 THEN 0 ELSE 1 + s.input.popped + Flag(s.finSent)
    /\ s.exp = 0 => s.input.popped = 0 /\ ~s.finSent

ContentRight(s, x) ==
    /\ x.msg.seqno = Wrap(x.at, s.isn)
    /\ x.msg.SYN <=> x.at = 0
    /\ x.msg.payload =
          [i \in 1 .. Len(x.msg.payload) |-> x.at + Flag(x.msg.SYN) - 1 + i - 1]
    /\ x.msg.FIN => s.finSent /\ End(x) = s.exp

RightIn(s) ==
    Tiled(s) /\ NumberingRight(s) /\ \A x \in s.ost : ContentRight(s, x)

FlightInv == RightIn(sender)

\* A segment's numbers.
LEMMA SegmentNumbers ==
    ASSUME NEW x \in Segment
    PROVE  x.at \in Nat /\ x.msg \in Message /\ End(x) \in Nat
           /\ End(x) = x.at + SequenceLength(x.msg)
BY SequenceLengthIs DEF Segment, End

\* An ack keeps exactly the segments that end beyond it: none that starts
\* before one of those does not.
LEMMA UnackedIs ==
    ASSUME NEW s \in SenderType, Tiled(s), NEW ackno \in Nat
    PROVE  \A x : x \in Unacked(s.ost, ackno) <=> x \in s.ost /\ End(x) > ackno
<1>1. s.ost \in SUBSET Segment
    BY DEF SenderType
<1>2. ASSUME NEW x \in Unacked(s.ost, ackno) PROVE x \in s.ost /\ End(x) > ackno
    <2>1. x \in s.ost
        BY DEF Unacked
    <2>2. PICK y \in s.ost : y.at <= x.at /\ y.at + SequenceLength(y.msg) > ackno
        BY DEF Unacked
    <2>3. /\ x.at \in Nat /\ End(x) \in Nat /\ y.at \in Nat /\ End(y) \in Nat
          /\ End(y) > ackno
        BY <1>1, <2>1, <2>2, SegmentNumbers
    <2>4. End(x) > x.at
        BY <2>1 DEF Tiled
    <2>5. CASE x = y
        BY <2>1, <2>3, <2>5
    <2>6. CASE x # y
        <3>1. End(x) <= y.at \/ End(y) <= x.at
            BY <2>1, <2>2, <2>6 DEF Tiled
        <3> QED
            BY <2>1, <2>2, <2>3, <2>4, <3>1
    <2> QED
        BY <2>5, <2>6
<1>3. ASSUME NEW x \in s.ost, End(x) > ackno PROVE x \in Unacked(s.ost, ackno)
    <2>1. x.at \in Nat /\ End(x) = x.at + SequenceLength(x.msg)
        BY <1>1, <1>3, SegmentNumbers
    <2>2. x.at <= x.at /\ x.at + SequenceLength(x.msg) > ackno
        BY <1>3, <2>1
    <2> QED
        BY <1>3, <2>2 DEF Unacked
<1> QED
    BY <1>2, <1>3

\* What stays of the tiling when the lower edge of the flight moves up.
LEMMA AckKeepsTiling ==
    ASSUME NEW s \in SenderType, Tiled(s), NEW t \in SenderType, NEW ackno \in Nat,
           t.exp = s.exp, ackno <= s.exp, ackno >= s.last,
           t.last = ackno, t.ost = Unacked(s.ost, ackno)
    PROVE  Tiled(t)
<1>1. /\ s.ost \in SUBSET Segment /\ s.last \in Nat /\ s.exp \in Nat
    BY DEF SenderType
<1>2. \A x : x \in t.ost <=> x \in s.ost /\ End(x) > ackno
    BY UnackedIs
<1>3. t.last <= t.exp
    OBVIOUS
<1>4. \A x \in t.ost : End(x) > x.at /\ t.last < End(x) /\ End(x) <= t.exp
    <2> SUFFICES ASSUME NEW x \in t.ost
                 PROVE  End(x) > x.at /\ t.last < End(x) /\ End(x) <= t.exp
        OBVIOUS
    <2>1. x \in s.ost /\ End(x) > ackno
        BY <1>2
    <2>2. End(x) > x.at /\ End(x) <= s.exp /\ End(x) \in Nat
        BY <1>1, <2>1, SegmentNumbers DEF Tiled
    <2> QED
        BY <2>1, <2>2
<1>5. ASSUME NEW n \in t.last .. t.exp - 1 PROVE \E x \in t.ost : x.at <= n /\ n < End(x)
    <2>1. n \in s.last .. s.exp - 1 /\ n \in Int /\ n >= ackno
        BY <1>1
    <2>2. PICK x \in s.ost : x.at <= n /\ n < End(x)
        BY <2>1 DEF Tiled
    <2>3. End(x) > ackno
        BY <1>1, <2>1, <2>2, SegmentNumbers
    <2>4. x \in t.ost
        BY <1>2, <2>3
    <2> QED
        BY <2>2, <2>4
<1>6. \A x, y \in t.ost : x # y => End(x) <= y.at \/ End(y) <= x.at
    BY <1>2 DEF Tiled
<1> QED
    BY <1>3, <1>4, <1>5, <1>6 DEF Tiled

\* However an ack is taken, the flight stays right.
LEMMA AckKeepsFlight ==
    ASSUME NEW s \in SenderType, RightIn(s), NEW ackno \in Nat, NEW window \in Nat
    PROVE  RightIn(TakeAck(s, ackno, window))
<1> DEFINE t == TakeAck(s, ackno, window)
<1>1. /\ t \in SenderType
      /\ t.input = s.input /\ t.isn = s.isn /\ t.exp = s.exp
      /\ t.finSent = s.finSent
      /\ \/ ackno > s.exp /\ t = s
         \/ TakenAsNew(s, t, ackno)
         \/ TakenAsOld(s, t, ackno)
    BY TakeAckChanges
<1>2. s.last \in Nat /\ s.exp \in Nat
    BY DEF SenderType
<1> HIDE DEF t
<1>3. CASE t = s
    BY <1>3 DEF t
<1>4. CASE TakenAsNew(s, t, ackno)
    <2>1. /\ ackno <= s.exp /\ ackno >= s.last
          /\ t.last = ackno /\ t.ost = Unacked(s.ost, ackno)
        BY <1>2, <1>4 DEF TakenAsNew
    <2>2. Tiled(s)
        BY DEF RightIn
    <2>3. Tiled(t)
        BY <1>1, <2>1, <2>2, AckKeepsTiling
    <2>4. NumberingRight(t)
        BY <1>1 DEF NumberingRight, RightIn
    <2>5. ASSUME NEW x \in t.ost PROVE ContentRight(t, x)
        <3>1. x \in s.ost
            BY <2>1, <2>2, UnackedIs
        <3>2. ContentRight(s, x)
            BY <3>1 DEF RightIn
        <3> QED
            BY <1>1, <3>2 DEF ContentRight
    <2>6. RightIn(t)
        BY <2>3, <2>4, <2>5 DEF RightIn
    <2> QED
        BY <2>6 DEF t
<1>5. CASE TakenAsOld(s, t, ackno)
    <2>1. t.last = s.last /\ t.ost = s.ost
        BY <1>5 DEF TakenAsOld
    <2>2. Tiled(t) /\ NumberingRight(t)
        BY <1>1, <2>1 DEF Tiled, NumberingRight, RightIn
    <2>3. ASSUME NEW x \in t.ost PROVE ContentRight(t, x)
        <3>1. ContentRight(s, x)
            BY <2>1 DEF RightIn
        <3> QED
            BY <1>1, <3>1 DEF ContentRight
    <2>4. RightIn(t)
        BY <2>2, <2>3 DEF RightIn
    <2> QED
        BY <2>4 DEF t
<1> QED
    BY <1>1, <1>3, <1>4, <1>5

\* A turn adds a segment next to the last, with the bytes that come next.
LEMMA TurnKeepsFlight ==
    ASSUME TypeInv, RightIn(sender), PushTurns
    PROVE  RightIn(sender')
<1> DEFINE s == sender
           t == sender'
           msg == TurnMessage(sender, loop)
           n == TurnBytes(sender, loop)
           len == SequenceLength(msg)
           new == [at |-> sender.exp, msg |-> msg]
<1>1. /\ t \in SenderType /\ t.input = Pop(s.input, n) /\ t.isn = s.isn
      /\ t.last = s.last /\ t.exp = s.exp + len
      /\ t.finSent = (s.finSent \/ msg.FIN) /\ t.ost = s.ost \cup {new}
      /\ pc = "push"
    BY TurnChanges DEF Turned
<1>2. /\ msg \in Message /\ n \in Nat /\ n <= Buffered(s.input)
      /\ Len(msg.payload) = n
      /\ \A i \in 1 .. n : msg.payload[i] = s.input.popped + i - 1
      /\ msg.SYN = (s.exp = 0) /\ msg.seqno = Wrap(s.exp, s.isn)
      /\ msg.FIN \in BOOLEAN
      /\ msg.FIN => s.input.closed /\ n = Buffered(s.input)
      /\ len = Flag(s.exp = 0) + n + Flag(msg.FIN)
      /\ len \in Nat /\ len > 0
    BY <1>1, TurnSends DEF PushTurns
<1>3. /\ s \in SenderType /\ s.ost \in SUBSET Segment
      /\ s.exp \in Nat /\ s.last \in Nat /\ s.finSent \in BOOLEAN
    BY DEF TypeInv, SenderType
<1>4. new.at = s.exp /\ new.msg = msg /\ End(new) = s.exp + len
    BY DEF End
<1>5. Tiled(s) /\ NumberingRight(s) /\ \A x \in s.ost : ContentRight(s, x)
    BY DEF RightIn
<1>6. t.input.popped = s.input.popped + n /\ s.input.popped \in Nat
    <2>1. InPlace(s.input)
        BY DEF TypeInv
    <2>2. s.input.popped \in Nat
        BY <2>1, InPlaceNumbers
    <2>3. Pop(s.input, n).popped = s.input.popped + n
        BY <1>2, <2>1, PopInPlace
    <2> QED
        BY <1>1, <2>2, <2>3
<1>7. ~s.finSent
    <2>1. CASE s.finSent
        <3>1. s.exp # 0
            BY <1>5, <2>1 DEF NumberingRight
        <3>2. loop.data = LeftToSend(s) /\ Buffered(s.input) = 0
            BY <1>1, <2>1 DEF TypeInv
        <3>3. loop.data = 0
            BY <2>1, <3>1, <3>2 DEF LeftToSend, Flag
        <3> QED
            BY <3>3 DEF PushTurns, Turns
    <2> QED
        BY <2>1
<1> HIDE DEF s, t, msg, n, len, new
<1>8. Tiled(t)
    <2>1. t.last <= t.exp
        BY <1>1, <1>2, <1>3, <1>5 DEF Tiled
    <2>2. ASSUME NEW x \in s.ost
          PROVE  /\ End(x) > x.at /\ t.last < End(x)
                 /\ End(x) <= s.exp /\ End(x) \in Nat /\ x.at \in Nat
        BY <1>1, <1>3, <1>5, SegmentNumbers DEF Tiled
    <2>3. \A x \in t.ost : End(x) > x.at /\ t.last < End(x) /\ End(x) <= t.exp
        <3>1. End(new) > new.at /\ t.last < End(new) /\ End(new) <= t.exp
            BY <1>1, <1>2, <1>3, <1>4, <1>5 DEF Tiled
        <3>2. ASSUME NEW x \in s.ost PROVE End(x) <= t.exp
            BY <1>1, <1>2, <1>3, <2>2
        <3> QED
            BY <1>1, <2>2, <3>1, <3>2
    <2>4. ASSUME NEW k \in t.last .. t.exp - 1
          PROVE  \E x \in t.ost : x.at <= k /\ k < End(x)
        <3>1. CASE k < s.exp
            <4>1. k \in s.last .. s.exp - 1
                BY <1>1, <1>2, <1>3, <3>1
            <4>2. PICK x \in s.ost : x.at <= k /\ k < End(x)
                BY <1>5, <4>1 DEF Tiled
            <4> QED
                BY <1>1, <4>2
        <3>2. CASE k >= s.exp
            <4>1. new.at <= k /\ k < End(new)
                BY <1>1, <1>2, <1>3, <1>4, <3>2
            <4> QED
                BY <1>1, <4>1
        <3> QED
            BY <1>1, <1>2, <1>3, <3>1, <3>2
    <2>5. ASSUME NEW x \in t.ost, NEW y \in t.ost, x # y
          PROVE  End(x) <= y.at \/ End(y) <= x.at
        <3>1. CASE x \in s.ost /\ y \in s.ost
            BY <1>5, <2>5, <3>1 DEF Tiled
        <3>2. CASE x \in s.ost /\ y = new
            BY <1>4, <2>2, <3>2
        <3>3. CASE x = new /\ y \in s.ost
            BY <1>4, <2>2, <3>3
        <3> QED
            BY <1>1, <2>5, <3>1, <3>2, <3>3
    <2> QED
        BY <2>1, <2>3, <2>4, <2>5 DEF Tiled
<1>9. /\ Flag(s.finSent) = 0 /\ Flag(t.finSent) = Flag(msg.FIN)
      /\ Flag(s.exp = 0) = IF s.exp = 0 THEN 1 ELSE 0
      /\ Flag(msg.FIN) \in {0, 1}
    BY <1>1, <1>2, <1>7 DEF Flag
<1>10. NumberingRight(t)
    <2>1. t.exp # 0
        BY <1>1, <1>2, <1>3
    <2>2. t.exp = 1 + t.input.popped + Flag(t.finSent)
        <3>1. CASE s.exp = 0
            BY <1>1, <1>2, <1>5, <1>6, <1>9, <3>1 DEF NumberingRight
        <3>2. CASE s.exp # 0
            <4>1. s.exp = 1 + s.input.popped + 0
                BY <1>5, <1>9, <3>2 DEF NumberingRight
            <4>2. len = 0 + n + Flag(msg.FIN)
                BY <1>2, <1>9, <3>2
            <4>3. t.exp = s.exp + len
                BY <1>1
            <4>4. Flag(t.finSent) = Flag(msg.FIN) /\ Flag(msg.FIN) \in Int
                BY <1>9
            <4>5. n \in Int /\ s.input.popped \in Int
                  /\ t.input.popped = s.input.popped + n
                BY <1>2, <1>6
            <4> QED
                BY <4>1, <4>2, <4>3, <4>4, <4>5
        <3> QED
            BY <3>1, <3>2
    <2> QED
        BY <2>1, <2>2 DEF NumberingRight
<1>11. ASSUME NEW x \in t.ost PROVE ContentRight(t, x)
    <2>1. CASE x \in s.ost
        <3>1. ContentRight(s, x)
            BY <1>5, <2>1
        <3>2. ~x.msg.FIN
            BY <1>7, <3>1 DEF ContentRight
        <3> QED
            BY <1>1, <3>1, <3>2 DEF ContentRight
    <2>2. CASE x = new
        <3>1. x.msg.seqno = Wrap(x.at, t.isn) /\ (x.msg.SYN <=> x.at = 0)
            BY <1>1, <1>2, <1>4, <2>2
        <3>2. x.msg.FIN => t.finSent /\ End(x) = t.exp
            BY <1>1, <1>2, <1>4, <2>2
        <3>3. \A i \in 1 .. n : msg.payload[i] = s.exp + Flag(msg.SYN) - 1 + i - 1
            <4>1. s.exp + Flag(msg.SYN) - 1 = s.input.popped
                <5>1. CASE s.exp = 0
                    BY <1>2, <1>5, <1>9, <5>1 DEF NumberingRight
                <5>2. CASE s.exp # 0
                    BY <1>2, <1>3, <1>5, <1>6, <1>9, <5>2 DEF NumberingRight
                <5> QED
                    BY <5>1, <5>2
            <4> QED
                BY <1>2, <4>1
        <3>4. msg.payload = [i \in 1 .. n |-> msg.payload[i]]
            BY <1>2, LenProperties DEF Message
        <3>5. msg.payload = [i \in 1 .. n |-> s.exp + Flag(msg.SYN) - 1 + i - 1]
            BY <3>3, <3>4
        <3> QED
            BY <1>2, <1>4, <2>2, <3>1, <3>2, <3>5 DEF ContentRight
    <2> QED
        BY <1>1, <2>1, <2>2
<1> QED
    BY <1>8, <1>10, <1>11 DEF RightIn, t

\* A change of the stream that leaves the bytes popped alone.
LEMMA StreamKeepsFlight ==
    ASSUME TypeInv, RightIn(sender), NEW t,
           t = [sender EXCEPT !.input = t.input],
           t.input.popped = sender.input.popped
    PROVE  RightIn(t)
<1>1. sender \in SenderType
    BY DEF TypeInv
<1>2. /\ t.last = sender.last /\ t.exp = sender.exp /\ t.ost = sender.ost
      /\ t.finSent = sender.finSent /\ t.isn = sender.isn
    BY <1>1 DEF SenderType
<1>3. Tiled(t) /\ NumberingRight(t)
    BY <1>2 DEF RightIn, Tiled, NumberingRight
<1>4. ASSUME NEW x \in t.ost PROVE ContentRight(t, x)
    <2>1. ContentRight(sender, x)
        BY <1>2 DEF RightIn
    <2> QED
        BY <1>2, <2>1 DEF ContentRight
<1> QED
    BY <1>3, <1>4 DEF RightIn

\* Starting over before more than the SYN was sent forgets no byte.
LEMMA StartOverKeepsFlight ==
    ASSUME NEW s \in SenderType, InPlace(s.input), RightIn(s), s.exp <= 1,
           NEW w \in Nat
    PROVE  RightIn(StartOver(s, w))
<1> DEFINE t == StartOver(s, w)
<1>1. /\ t \in SenderType /\ t.input = s.input /\ t.finSent = s.finSent
      /\ t.last = 0 /\ t.exp = 0 /\ t.ost = {}
    BY StartOverChanges
<1>2. s.exp \in Nat /\ s.input.popped \in Nat /\ s.finSent \in BOOLEAN
    BY InPlaceNumbers DEF SenderType
<1>3. s.input.popped = 0 /\ ~s.finSent
    <2>1. CASE s.exp = 0
        BY <2>1 DEF RightIn, NumberingRight
    <2>2. CASE s.exp = 1
        <3>1. 1 = 1 + s.input.popped + Flag(s.finSent)
            BY <2>2 DEF RightIn, NumberingRight
        <3>2. Flag(s.finSent) = IF s.finSent THEN 1 ELSE 0
            BY DEF Flag
        <3> QED
            BY <1>2, <3>1, <3>2
    <2> QED
        BY <1>2, <2>1, <2>2
<1> HIDE DEF t
<1>4. Tiled(t) /\ NumberingRight(t)
    BY <1>1, <1>3 DEF Tiled, NumberingRight
<1> QED
    BY <1>1, <1>4 DEF RightIn, t

LEMMA InitFlight == Init => FlightInv
<1> SUFFICES ASSUME Init PROVE RightIn(sender)
    BY DEF FlightInv
<1>1. PICK isn \in ISNs : sender = NewSender(Capacity, isn)
    BY DEF Init
<1>2. /\ sender.last = 0 /\ sender.exp = 0 /\ sender.ost = {}
      /\ sender.finSent = FALSE /\ sender.input.popped = 0
    BY <1>1 DEF NewSender, NewFifo
<1>3. Tiled(sender) /\ NumberingRight(sender)
    BY <1>2 DEF Tiled, NumberingRight
<1> QED
    BY <1>2, <1>3 DEF RightIn

LEMMA NextFlight ==
    ASSUME LateSyn = FALSE
    PROVE  TypeInv /\ FlightInv /\ [Next]_vars => FlightInv'
<1> SUFFICES ASSUME TypeInv, RightIn(sender), [Next]_vars PROVE RightIn(sender')
    BY DEF FlightInv, RightIn, Tiled, NumberingRight, ContentRight
<1>1. sender \in SenderType /\ InPlace(sender.input)
    BY DEF TypeInv
<1>2. ASSUME NEW n \in 1 .. Capacity, Write(n) PROVE RightIn(sender')
    BY <1>2, WriteChanges, StreamKeepsFlight
<1>3. ASSUME CloseInput PROVE RightIn(sender')
    BY <1>3, CloseChanges, StreamKeepsFlight
<1>4. ASSUME PushBegins \/ PushEnds \/ UNCHANGED vars PROVE RightIn(sender')
    <2>1. sender' = sender
        BY <1>4 DEF PushBegins, PushEnds, vars
    <2> QED
        BY <2>1
<1>5. ASSUME PushTurns PROVE RightIn(sender')
    BY <1>5, TurnKeepsFlight
<1>6. ASSUME NEW m \in PeerMessages, MayArrive(m), Receive(m) PROVE RightIn(sender')
    <2>1. sender' = SenderReceive(sender, m)
        BY <1>6 DEF Receive
    <2>2. CASE TakesReset(sender, sender')
        <3>1. sender' = [sender EXCEPT !.input = SetError(sender.input)]
            BY <2>2 DEF TakesReset
        <3>2. sender'.input = SetError(sender.input)
            BY <1>1, <3>1 DEF SenderType
        <3>3. sender'.input.popped = sender.input.popped
            BY <1>1, <3>2, MarksInPlace
        <3> QED
            BY <3>1, <3>2, <3>3, StreamKeepsFlight
    <2>3. CASE TakesAck(sender, sender')
        BY <1>1, <2>3, AckKeepsFlight DEF TakesAck
    <2>4. CASE ~m.hasAck /\ ~m.RST /\ TakesNoAck(sender, sender')
        <3>1. sender.exp <= 1
            BY <1>6, <2>4 DEF MayArrive
        <3>2. PICK w \in Nat : sender' = TakeAck(StartOver(sender, w), 0, w)
            BY <2>4 DEF TakesNoAck
        <3> DEFINE o == StartOver(sender, w)
        <3>3. o \in SenderType /\ RightIn(o)
            BY <1>1, <3>1, StartOverChanges, StartOverKeepsFlight
        <3>4. sender' = TakeAck(o, 0, w)
            BY <3>2
        <3> HIDE DEF o
        <3> QED
            BY <3>3, <3>4, AckKeepsFlight
    <2> QED
        BY <1>1, <2>1, <2>2, <2>3, <2>4, ReceiveCases
<1>7. ASSUME Tick PROVE RightIn(sender')
    <2>1. sender' = TickExpires(sender)
        BY <1>7 DEF Tick
    <2>2. /\ sender'.input = sender.input /\ sender'.isn = sender.isn
          /\ sender'.last = sender.last /\ sender'.exp = sender.exp
          /\ sender'.finSent = sender.finSent /\ sender'.ost = sender.ost
        BY <1>1, <2>1, TickChanges
    <2>3. Tiled(sender') /\ NumberingRight(sender')
        BY <2>2 DEF RightIn, Tiled, NumberingRight
    <2>4. ASSUME NEW x \in sender'.ost PROVE ContentRight(sender', x)
        <3>1. ContentRight(sender, x)
            BY <2>2 DEF RightIn
        <3> QED
            BY <2>2, <3>1 DEF ContentRight
    <2> QED
        BY <2>3, <2>4 DEF RightIn
<1> QED
    BY <1>2, <1>3, <1>4, <1>5, <1>6, <1>7 DEF Next

LEMMA SpecFlight ==
    ASSUME LateSyn = FALSE
    PROVE  Spec => [](TypeInv /\ FlightInv)
BY InitFlight, NextFlight, InitTypeInv, NextTypeInv, PTL DEF Spec

\* Every number in flight is in exactly one outstanding segment, which holds
\* the bytes of its own (tcp_sender.cc:44-92, 128-150), if no message without
\* an ackno comes once more than the SYN has been sent.
THEOREM FlightTiled ==
    ASSUME LateSyn = FALSE
    PROVE  Spec => []OutstandingTilesFlight
<1>1. TypeInv /\ FlightInv => OutstandingTilesFlight
    <2> SUFFICES ASSUME TypeInv, RightIn(sender) PROVE OutstandingTilesFlight
        BY DEF FlightInv
    <2> DEFINE s == sender
    <2>1. s \in SenderType /\ s.ost \in SUBSET Segment
          /\ s.last \in Nat /\ s.exp \in Nat
        BY DEF TypeInv, SenderType
    <2>2. Tiled(s) /\ NumberingRight(s) /\ \A x \in s.ost : ContentRight(s, x)
        BY DEF RightIn
    <2>3. s.last = s.exp <=> s.ost = {}
        <3>1. ASSUME NEW x \in s.ost PROVE s.last < s.exp
            BY <2>1, <2>2, SegmentNumbers DEF Tiled
        <3>2. ASSUME s.last # s.exp PROVE s.ost # {}
            <4>1. s.last \in s.last .. s.exp - 1
                BY <2>1, <2>2, <3>2 DEF Tiled
            <4> QED
                BY <2>2, <4>1 DEF Tiled
        <3> QED
            BY <2>1, <3>1, <3>2
    <2>4. ASSUME NEW n \in s.last .. s.exp - 1
          PROVE  Cardinality({x \in s.ost : x.at <= n /\ n < End(x)}) = 1
        <3> DEFINE H == {x \in s.ost : x.at <= n /\ n < End(x)}
        <3>1. PICK x \in s.ost : x.at <= n /\ n < End(x)
            BY <2>2 DEF Tiled
        <3>2. ASSUME NEW y \in H PROVE y = x
            <4>1. /\ y \in s.ost /\ y.at <= n /\ n < End(y)
                  /\ y.at \in Nat /\ End(y) \in Nat /\ x.at \in Nat /\ End(x) \in Nat
                  /\ n \in Int
                BY <2>1, <3>1, SegmentNumbers
            <4>2. x # y => End(x) <= y.at \/ End(y) <= x.at
                BY <2>2, <3>1, <4>1 DEF Tiled
            <4> QED
                BY <3>1, <4>1, <4>2
        <3>3. H = {x}
            BY <3>1, <3>2
        <3> QED
            BY <3>3, FS_Singleton
    <2>5. ASSUME NEW x \in s.ost
          PROVE  /\ SequenceLength(x.msg) > 0 /\ s.last < End(x) /\ End(x) <= s.exp
                 /\ x.msg.seqno = Wrap(x.at, s.isn)
                 /\ x.msg.SYN <=> x.at = 0
                 /\ x.msg.payload =
                      [i \in 1 .. Len(x.msg.payload) |->
                          x.at + Flag(x.msg.SYN) - 1 + i - 1]
                 /\ x.msg.FIN => s.finSent /\ End(x) = s.exp
        <3>1. End(x) > x.at /\ s.last < End(x) /\ End(x) <= s.exp
            BY <2>2 DEF Tiled
        <3>2. SequenceLength(x.msg) > 0
            <4>1. /\ x.at \in Nat /\ x.msg \in Message
                  /\ End(x) = x.at + SequenceLength(x.msg)
                BY <2>1, SegmentNumbers
            <4>2. SequenceLength(x.msg) \in Nat
                BY <4>1, SequenceLengthIs
            <4> QED
                BY <3>1, <4>1, <4>2
        <3> QED
            BY <2>2, <3>1, <3>2 DEF ContentRight
    <2>6. /\ s.last <= s.exp
          /\ s.exp = IF s.exp = 0 THEN 0 ELSE 1 + s.input.popped + Flag(s.finSent)
        BY <2>2 DEF Tiled, NumberingRight
    <2> QED
        BY <2>3, <2>4, <2>5, <2>6 DEF OutstandingTilesFlight
<1> QED
    BY <1>1, SpecFlight, PTL

\* Nothing follows the FIN, and it is sent with the last byte of a stream that
\* is closed (tcp_sender.cc:66-73).
THEOREM FinIsLast ==
    ASSUME LateSyn = FALSE
    PROVE  Spec => NothingAfterFin
<1>1. TypeInv /\ FlightInv /\ TypeInv' /\ [Next]_vars =>
        [/\ sender.finSent => sender'.exp = sender.exp
         /\ sender'.finSent => Finished(sender'.input)]_vars
    <2> SUFFICES ASSUME TypeInv, RightIn(sender), TypeInv', [Next]_vars
                 PROVE  /\ sender.finSent => sender'.exp = sender.exp
                        /\ sender'.finSent => Finished(sender'.input)
        BY DEF FlightInv
    <2>1. ASSUME sender'.finSent PROVE Finished(sender'.input)
        <3>1. InPlace(sender'.input) /\ sender'.input.closed
              /\ Buffered(sender'.input) = 0
            BY <2>1 DEF TypeInv, InPlace, Buffered
        <3> QED
            BY <3>1, InPlaceNumbers
    <2>2. ASSUME sender.finSent PROVE sender'.exp = sender.exp
        <3>1. NumberingRight(sender)
              /\ sender.input.popped \in Nat /\ sender.exp \in Nat
            BY InPlaceNumbers DEF RightIn, TypeInv, SenderType
        <3>2. sender.exp # 0
            BY <2>2, <3>1 DEF NumberingRight
        <3>3. sender.exp > 1
            <4>1. Flag(sender.finSent) = 1
                BY <2>2 DEF Flag
            <4> QED
                BY <3>1, <3>2, <4>1 DEF NumberingRight
        <3>4. ~PushTurns
            <4>1. CASE PushTurns
                <5>1. loop.data = LeftToSend(sender) /\ Buffered(sender.input) = 0
                    BY <2>2, <4>1 DEF TypeInv, PushTurns
                <5>2. loop.data = 0
                    BY <2>2, <3>2, <5>1 DEF LeftToSend, Flag
                <5> QED
                    BY <4>1, <5>2 DEF PushTurns, Turns
            <4> QED
                BY <4>1
        <3>5. ASSUME NEW m \in PeerMessages, MayArrive(m), ~m.hasAck, ~m.RST
              PROVE  FALSE
            BY <3>1, <3>3, <3>5 DEF MayArrive
        <3> QED
            BY <3>4, <3>5, OnlyTurnsSend
    <2> QED
        BY <2>1, <2>2
<1> QED
    BY <1>1, SpecFlight, PTL DEF Spec, NothingAfterFin

\* A timeout sends again the segment that holds the first number not yet
\* acknowledged, and none else (tcp_sender.cc:186): the assertion of line 176
\* cannot fail.
THEOREM TimeoutResendsRight ==
    ASSUME LateSyn = FALSE
    PROVE  Spec => TimeoutResendsFirstMissing
<1>1. TypeInv /\ FlightInv /\ TimerRunsWhileOutstanding /\ [Next]_vars =>
        [Tick => /\ \E x \in sender.ost :
                       /\ transmitted' = << x.msg >>
                       /\ x.at <= sender.last /\ sender.last < End(x)
                 /\ sender.wnd = 0 => sender'.rto = sender.rto]_vars
    <2> SUFFICES ASSUME TypeInv, RightIn(sender), TimerRunsWhileOutstanding, Tick
                 PROVE  /\ \E x \in sender.ost :
                              /\ transmitted' = << x.msg >>
                              /\ x.at <= sender.last /\ sender.last < End(x)
                        /\ sender.wnd = 0 => sender'.rto = sender.rto
        BY DEF FlightInv
    <2> DEFINE s == sender
    <2>1. /\ s \in SenderType /\ s.ost \in SUBSET Segment
          /\ s.last \in Nat /\ s.exp \in Nat /\ Tiled(s)
        BY DEF TypeInv, SenderType, RightIn
    <2>2. s.running /\ s.ost # {}
        BY DEF Tick, TimerRunsWhileOutstanding
    <2>3. transmitted' = << Oldest(s.ost).msg >> /\ sender' = TickExpires(s)
        BY <2>2 DEF Tick, TickTransmits
    <2>4. s.last \in s.last .. s.exp - 1
        <3>1. PICK y \in s.ost : TRUE
            BY <2>2
        <3>2. s.last < End(y) /\ End(y) <= s.exp /\ End(y) \in Nat
            BY <2>1, <3>1, SegmentNumbers DEF Tiled
        <3> QED
            BY <2>1, <3>2
    <2>5. PICK x \in s.ost : x.at <= s.last /\ s.last < End(x)
        BY <2>1, <2>4 DEF Tiled
    <2>6. \A y \in s.ost : x.at <= y.at
        <3> SUFFICES ASSUME NEW y \in s.ost PROVE x.at <= y.at
            OBVIOUS
        <3>1. /\ x.at \in Nat /\ End(x) \in Nat /\ y.at \in Nat /\ End(y) \in Nat
              /\ s.last < End(y) /\ End(x) > x.at
            BY <2>1, SegmentNumbers DEF Tiled
        <3>2. x = y \/ End(x) <= y.at \/ End(y) <= x.at
            BY <2>1 DEF Tiled
        <3> QED
            BY <2>1, <2>5, <3>1, <3>2
    <2> DEFINE z == Oldest(s.ost)
    <2>7. z \in s.ost /\ \A y \in s.ost : z.at <= y.at
        BY <2>6 DEF Oldest
    <2> HIDE DEF z
    <2>8. z.at <= s.last /\ s.last < End(z)
        <3>1. z.at <= x.at /\ z.at \in Nat /\ x.at \in Nat
            BY <2>1, <2>7, SegmentNumbers
        <3> QED
            BY <2>1, <2>5, <2>7, <3>1 DEF Tiled
    <2>9. \E y \in s.ost : /\ transmitted' = << y.msg >>
                           /\ y.at <= s.last /\ s.last < End(y)
        BY <2>3, <2>7, <2>8 DEF z
    <2>10. s.wnd = 0 => sender'.rto = s.rto
        BY <2>1, <2>3, TickChanges
    <2> QED
        BY <2>9, <2>10
<1>2. TypeInv /\ TimerRunsWhileOutstanding /\ [Next]_vars
        => TimerRunsWhileOutstanding'
    BY NextTimer
<1> QED
    BY <1>1, <1>2, InitTimer, SpecFlight, PTL DEF Spec, TimeoutResendsFirstMissing

-----------------------------------------------------------------------------
(***************************************************************************)
(* The numbers both ends follow (SeqnoTracking.tla).  The inductive        *)
(* invariant: they have their types, and the receiver has taken the last   *)
(* message for what it was.  That much is needed for the next jump to stay *)
(* below half the number space.                                            *)
(***************************************************************************)
NumbersInv ==
    /\ zero_point \in 0 .. Modulus - 1
    /\ sent \in Nat
    /\ checkpoint \in Nat
    /\ NumberIsRecovered

LEMMA InitNumbers == StartNumbers => NumbersInv
BY ModulusType DEF StartNumbers, NumbersInv, NumberIsRecovered

LEMMA NextNumbers == NumbersInv /\ [MoreNumbers]_numbers => NumbersInv'
<1> SUFFICES ASSUME NumbersInv, [MoreNumbers]_numbers PROVE NumbersInv'
    OBVIOUS
<1>1. /\ zero_point \in Int /\ sent \in Nat /\ checkpoint \in Nat
      /\ checkpoint = sent /\ Half \in Nat
    BY ModulusType DEF NumbersInv, NumberIsRecovered
<1>2. ASSUME NEW n \in 0 .. MaxSeqno, Arrive(n) PROVE NumbersInv'
    <2>1. n \in Nat /\ n - checkpoint < Half /\ checkpoint - n < Half
        BY <1>1, <1>2, BoundAssumption, JumpAssumption DEF Arrive
    <2>2. Unwrap(Wrap(n, zero_point), zero_point, checkpoint) = n
        BY <1>1, <2>1, UnwrapInvertsWrap
    <2>3. sent' = n /\ checkpoint' = n /\ zero_point' = zero_point
        BY <1>2, <2>2 DEF Arrive, Carries
    <2> QED
        BY <2>1, <2>3 DEF NumbersInv, NumberIsRecovered
<1>3. CASE UNCHANGED numbers
    BY <1>3 DEF NumbersInv, NumberIsRecovered, numbers
<1> QED
    BY <1>2, <1>3 DEF MoreNumbers

LEMMA SpecNumbers == NumbersSpec => []NumbersInv
BY InitNumbers, NextNumbers, PTL DEF NumbersSpec

\* Both ends take every message for the number it was sent with (receive of
\* tcp_receiver.cc and tcp_sender.cc), through any number of wraps.
THEOREM NumbersRecovered ==
    NumbersSpec => []NumberIsRecovered
<1>1. NumbersInv => NumberIsRecovered
    BY DEF NumbersInv
<1> QED
    BY <1>1, SpecNumbers, PTL

\* unwrap returns, of all numbers that wrap to a raw value, the closest to the
\* checkpoint (wrapping_integers.hh:19-25), wherever the checkpoint is.
THEOREM UnwrapReturnsClosest ==
    NumbersSpec => []UnwrapIsClosest
<1>1. NumbersInv => UnwrapIsClosest
    <2> SUFFICES ASSUME NumbersInv, NEW raw \in 0 .. Modulus - 1
                 PROVE  LET u == Unwrap(raw, zero_point, checkpoint)
                            Far(n) == IF n >= checkpoint THEN n - checkpoint
                                                         ELSE checkpoint - n
                        IN  /\ u \in Nat /\ Wrap(u, zero_point) = raw
                            /\ \A v \in 0 .. checkpoint + Modulus :
                                  Wrap(v, zero_point) = raw => Far(u) <= Far(v)
        BY DEF UnwrapIsClosest
    <2> DEFINE u == Unwrap(raw, zero_point, checkpoint)
    <2>1. zero_point \in Int /\ checkpoint \in Nat /\ Modulus \in Nat
        BY ModulusType DEF NumbersInv
    <2>2. u \in Nat /\ Wrap(u, zero_point) = raw
        BY <2>1, UnwrapWraps
    <2>3. ASSUME NEW v \in 0 .. checkpoint + Modulus, Wrap(v, zero_point) = raw
          PROVE  Gap(u, checkpoint) <= Gap(v, checkpoint)
        <3>1. v \in Nat
            BY <2>1
        <3> QED
            BY <2>1, <2>3, <3>1, UnwrapClosest
    <2> QED
        BY <2>2, <2>3 DEF Gap
<1> QED
    BY <1>1, SpecNumbers, PTL
=============================================================================
