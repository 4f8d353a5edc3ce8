----------------------------- MODULE TCPSender -----------------------------
(***************************************************************************)
(* The TCPSender of src/src/tcp_sender.cc at work, against an application  *)
(* that writes, closes and calls push when it likes, a timer that expires  *)
(* whenever it runs, and a peer that acknowledges whatever number and      *)
(* announces whatever window it likes.  A call of push takes as many steps *)
(* as its loop takes turns (pc); callers see only the states in between.   *)
(* A byte is the number of its place in the stream.                        *)
(***************************************************************************)
EXTENDS TCPSenderOps

CONSTANTS
    Capacity,   \* capacity of the application's stream
    ISNs,       \* initial sequence numbers
    Windows,    \* windows the peer announces
    MaxBytes,   \* bound: bytes the application writes
    LateSyn     \* whether a message with no ackno may come once bytes are sent

ASSUME EnvironmentConstants ==
    /\ Capacity \in Nat /\ MaxBytes \in Nat
    /\ ISNs \subseteq 0 .. Modulus - 1
    /\ Windows \subseteq Nat
    /\ LateSyn \in BOOLEAN

VARIABLES
    sender,       \* the record of TCPSenderOps
    pc,           \* "push" inside the loop of push, else "idle"
    loop,         \* the local variables of that loop
    transmitted   \* what the last call of tick transmitted

vars == << sender, pc, loop, transmitted >>

NoLoop == [wnd |-> 0, data |-> 0, out |-> << >>]

Init ==
    /\ \E isn \in ISNs : sender = NewSender(Capacity, isn)
    /\ pc = "idle"
    /\ loop = NoLoop
    /\ transmitted = << >>

\* The application writes n bytes; the stream takes those it has room for.
Write(n) ==
    /\ pc = "idle"
    /\ sender.input.pushed + n <= MaxBytes
    /\ sender' = [sender EXCEPT !.input =
                     Push(sender.input, [i \in 1 .. n |-> sender.input.pushed + i - 1])]
    /\ UNCHANGED << pc, loop, transmitted >>

CloseInput ==
    /\ pc = "idle"
    /\ sender' = [sender EXCEPT !.input = Close(sender.input)]
    /\ UNCHANGED << pc, loop, transmitted >>

\* push up to its loop: lines 21-42.
PushBegins ==
    /\ pc = "idle"
    /\ ~PushReturns(sender)
    /\ loop' = PushLoop(sender)
    /\ pc' = "push"
    /\ UNCHANGED << sender, transmitted >>

\* One turn of the loop: lines 44-92.
PushTurns ==
    /\ pc = "push"
    /\ Turns(loop)
    /\ LET msg == TurnMessage(sender, loop) IN
          /\ sender' = TurnSender(sender, msg)
          /\ loop' = TurnLoop(sender, loop, msg)
    /\ UNCHANGED << pc, transmitted >>

PushEnds ==
    /\ pc = "push"
    /\ ~Turns(loop)
    /\ pc' = "idle"
    /\ loop' = NoLoop
    /\ UNCHANGED << sender, transmitted >>

Receive(m) ==
    /\ pc = "idle"
    /\ sender' = SenderReceive(sender, m)
    /\ UNCHANGED << pc, loop, transmitted >>

Tick ==
    /\ pc = "idle"
    /\ sender.running
    /\ sender' = TickExpires(sender)
    /\ transmitted' = TickTransmits(sender)
    /\ UNCHANGED << pc, loop >>

\* The peer's messages.  One with no ackno says that the peer has not seen the
\* SYN yet; unless LateSyn, none comes once more than the SYN has been sent.
PeerMessages ==
    [hasAck : {TRUE}, ackno : 0 .. Modulus - 1, window : Windows, RST : {FALSE}]
      \cup
    [hasAck : {FALSE}, ackno : {0}, window : Windows, RST : {FALSE}]
      \cup
    [hasAck : {FALSE}, ackno : {0}, window : {0}, RST : {TRUE}]

MayArrive(m) == m.hasAck \/ m.RST \/ LateSyn \/ sender.exp <= 1

Next ==
    \/ \E n \in 1 .. Capacity : Write(n)
    \/ CloseInput
    \/ PushBegins
    \/ PushTurns
    \/ PushEnds
    \/ \E m \in PeerMessages : MayArrive(m) /\ Receive(m)
    \/ Tick

Spec == Init /\ [][Next]_vars

-----------------------------------------------------------------------------
TypeOK ==
    /\ sender.last \in Nat /\ sender.exp \in Nat /\ sender.wnd \in Nat
    /\ sender.finSent \in BOOLEAN /\ sender.finAcked \in BOOLEAN
    /\ sender.retx \in Nat /\ sender.conRetx \in BOOLEAN
    /\ sender.rto \in Nat /\ sender.expTime \in Nat
    /\ sender.running \in BOOLEAN
    /\ sender.isn \in 0 .. Modulus - 1
    /\ sender.ost \subseteq [at : Nat, msg : Message]
    /\ Available(sender.input) \in 0 .. Capacity
    /\ pc \in {"idle", "push"}
    /\ loop.wnd \in Nat /\ loop.data \in Nat

End(x) == x.at + SequenceLength(x.msg)

\* The outstanding segments lie side by side, each with something in it, from
\* one that holds the first number not acknowledged up to the next number to
\* send: nothing sent and not acknowledged is forgotten (tcp_sender.cc:143-150
\* after any partial, repeated or impossible ack), and nothing acknowledged in
\* full is kept.  One number is for the SYN, one for every byte taken from the
\* stream and one for the FIN, and every segment holds the bytes of its own.
OutstandingTilesFlight ==
    LET s == sender IN
    /\ s.last <= s.exp
    /\ s.last = s.exp <=> s.ost = {}
    /\ \A n \in s.last .. s.exp - 1 :
          Cardinality({x \in s.ost : x.at <= n /\ n < End(x)}) = 1
    /\ s.exp = IF s.exp = 0 THEN 0 ELSE 1 + s.input.popped + Flag(s.finSent)
    /\ \A x \in s.ost :
          /\ SequenceLength(x.msg) > 0 /\ s.last < End(x) /\ End(x) <= s.exp
          /\ x.msg.seqno = Wrap(x.at, s.isn)
          /\ x.msg.SYN <=> x.at = 0
          /\ x.msg.payload =
                [i \in 1 .. Len(x.msg.payload) |-> x.at + Flag(x.msg.SYN) - 1 + i - 1]
          /\ x.msg.FIN => s.finSent /\ End(x) = s.exp

\* The timer runs exactly while something is outstanding, and for the current
\* timeout: the initial one doubled for every retransmission in a row (up to
\* the bound).  No segment waits without a timer, tick never expires with
\* nothing in flight (tcp_sender.cc:176), and only an ack of something new
\* starts the count again.
TimerRunsWhileOutstanding ==
    /\ sender.running <=> sender.ost # {}
    /\ sender.running => sender.expTime = sender.rto
    /\ sender.rto = InitialRTO * 2 ^ sender.retx
    /\ sender.conRetx <=> sender.retx > 0

\* No turn of push sends beyond the window the peer announced, counting SYN
\* and FIN; a window of zero counts as one.
WindowRespected ==
    [][sender'.exp > sender.exp => sender'.exp <= sender.last + Window(sender)]_vars

\* Nothing is sent after the FIN, and the stream is finished when it is sent.
NothingAfterFin ==
    [][/\ sender.finSent => sender'.exp = sender.exp
       /\ sender'.finSent => Finished(sender'.input)]_vars

\* A timeout retransmits the segment that holds the first number the peer is
\* still waiting for, and it backs off only while the window is open.
TimeoutResendsFirstMissing ==
    [][Tick => /\ \E x \in sender.ost :
                    /\ transmitted' = << x.msg >>
                    /\ x.at <= sender.last /\ sender.last < End(x)
               /\ sender.wnd = 0 => sender'.rto = sender.rto]_vars
=============================================================================
