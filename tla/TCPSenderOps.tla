---------------------------- MODULE TCPSenderOps ----------------------------
(***************************************************************************)
(* src/src/tcp_sender.cc as operators over one record                      *)
(*                                                                         *)
(*   input     input_, the stream the application writes to (Fifo.tla)     *)
(*   isn       isn_                                                        *)
(*   last      abs_last_ackno_       exp       abs_exp_ackno_              *)
(*   finSent   has_FIN_sent_         finAcked  is_FIN_acked                *)
(*   retx      retx_cnt_             conRetx   is_con_retx_                *)
(*   rto       cur_RTO_ms_           running   timer_.is_running_          *)
(*   expTime   timer_.exp_time_      wnd       wnd_size_                   *)
(*   ost       ost_segs_, a set of records [at, msg] for the map's pairs   *)
(*                                                                         *)
(* A message to the peer's receiver has the fields of TCPSenderMessage.    *)
(* The time a timer has run is left out: a tick that lets it expire is     *)
(* TickExpires, and any other tick changes nothing that matters.           *)
(***************************************************************************)
EXTENDS Integers, Sequences, FiniteSets, Fifo, Wrap32

CONSTANTS
    MaxPayload,   \* TCPConfig::MAX_PAYLOAD_SIZE
    InitialRTO,   \* initial_RTO_ms_
    RetxBound     \* bound: retx_cnt_ and cur_RTO_ms_ grow no further

ASSUME SenderConstants ==
    MaxPayload \in Nat \ {0} /\ InitialRTO \in Nat \ {0} /\ RetxBound \in Nat

NewSender(capacity, isn) ==
    [input |-> NewFifo(capacity), isn |-> isn, last |-> 0, exp |-> 0,
     finSent |-> FALSE, finAcked |-> FALSE, retx |-> 0, conRetx |-> FALSE,
     rto |-> InitialRTO, running |-> FALSE, expTime |-> 0, wnd |-> 1,
     ost |-> {}]

\* A message to the peer's receiver, and how many numbers it takes.
Message == [seqno : 0 .. Modulus - 1, SYN : BOOLEAN, payload : Seq(Nat),
            FIN : BOOLEAN, RST : BOOLEAN]

SequenceLength(msg) == Flag(msg.SYN) + Len(msg.payload) + Flag(msg.FIN)

InFlight(s) == s.exp - s.last            \* sequence_numbers_in_flight()

StartTimer(s) == [s EXCEPT !.running = TRUE, !.expTime = s.rto]

(***************************************************************************)
(* push.  One turn of its loop makes one segment; loop carries the two     *)
(* local variables remain_wnd_size and remain_data_size and the messages   *)
(* transmitted so far.                                                     *)
(***************************************************************************)
WindowIgnoringZero(s) == s.wnd           \* mutant: a zero window is not probed
Window(s) == IF s.wnd = 0 THEN 1 ELSE s.wnd

PushReturns(s) == s.finAcked \/ s.last + Window(s) <= s.exp

PushLoopFinAgain(s) ==                   \* mutant: FIN is always due
    [wnd  |-> s.last + Window(s) - s.exp,
     data |-> Flag(s.exp = 0) + Buffered(s.input) + Flag(s.input.closed),
     out  |-> << >>]
PushLoop(s) ==
    [wnd  |-> s.last + Window(s) - s.exp,
     data |-> Flag(s.exp = 0) + Buffered(s.input)
                + Flag(s.input.closed /\ ~s.finSent),
     out  |-> << >>]

Turns(loop) == loop.data > 0 /\ loop.wnd > 0

\* The message of a turn: the SYN at sequence number 0, as many bytes as the
\* window and the payload allow, and the FIN with the last of them if the
\* window has room for it.
TurnSYN(s) == s.exp = 0

TurnBytes(s, loop) ==
    Least(Buffered(s.input), Least(loop.wnd - Flag(TurnSYN(s)), MaxPayload))

TurnFINUnchecked(s, loop) ==             \* mutant: FIN needs no room
    s.input.closed /\ TurnBytes(s, loop) = Buffered(s.input)
TurnFIN(s, loop) ==
    /\ loop.wnd - Flag(TurnSYN(s)) - TurnBytes(s, loop) > 0
    /\ s.input.closed /\ TurnBytes(s, loop) = Buffered(s.input)

TurnMessage(s, loop) ==
    [seqno   |-> Wrap(s.exp, s.isn),
     SYN     |-> TurnSYN(s),
     payload |-> SubSeq(s.input.buf, 1, TurnBytes(s, loop)),
     FIN     |-> TurnFIN(s, loop),
     RST     |-> s.input.error]

TurnKeepsTimer(s, msg) ==                \* mutant: sent with no timer running
    [s EXCEPT !.input = Pop(s.input, Len(msg.payload)),
              !.finSent = s.finSent \/ msg.FIN,
              !.ost = s.ost \cup {[at |-> s.exp, msg |-> msg]},
              !.exp = s.exp + SequenceLength(msg)]
TurnSender(s, msg) ==
    [s EXCEPT !.input = Pop(s.input, Len(msg.payload)),
              !.finSent = s.finSent \/ msg.FIN,
              !.ost = s.ost \cup {[at |-> s.exp, msg |-> msg]},
              !.exp = s.exp + SequenceLength(msg),
              !.running = TRUE,
              !.expTime = IF s.running THEN s.expTime ELSE s.rto]

TurnLoop(s, loop, msg) ==
    [wnd  |-> loop.wnd - SequenceLength(msg),
     data |-> IF msg.FIN THEN 0
              ELSE loop.data - Flag(msg.SYN) - Len(msg.payload),
     out  |-> Append(loop.out, msg)]

\* The whole loop.  A turn sends something, so there are no more of them than
\* bytes, SYN and FIN; those after the last are idle.
PushTurn(at) ==
    LET msg == TurnMessage(at.sender, at.loop)
    IN  IF Turns(at.loop)
          THEN [sender |-> TurnSender(at.sender, msg),
                loop   |-> TurnLoop(at.sender, at.loop, msg)]
          ELSE at

PushLoops(s) ==
    LET after[turns \in 0 .. Buffered(s.input) + 2] ==
            IF turns = 0 THEN [sender |-> s, loop |-> PushLoop(s)]
                         ELSE PushTurn(after[turns - 1])
    IN  after[Buffered(s.input) + 2]

PushAll(s) ==
    LET done == PushLoops(s)
    IN  IF PushReturns(s) THEN [sender |-> s, out |-> << >>]
        ELSE [sender |-> done.sender, out |-> done.loop.out]

\* make_empty_message
EmptyMessage(s) ==
    [seqno |-> Wrap(s.exp, s.isn), SYN |-> FALSE, payload |-> << >>,
     FIN |-> FALSE, RST |-> s.input.error]

(***************************************************************************)
(* receive.  A message from the peer's receiver is a record [hasAck, ackno,*)
(* window, RST].                                                           *)
(***************************************************************************)
\* The loop of lines 144-150 erases from the front and stops at the first
\* segment that is not acknowledged in full.
KeepUnacked(ost, ackno) ==               \* mutant: a partial ack is enough
    {x \in ost : x.at >= ackno}
Unacked(ost, ackno) ==
    {x \in ost : \E y \in ost :
        y.at <= x.at /\ y.at + SequenceLength(y.msg) > ackno}

NewDataAcked(s, ackno, window) ==
    [s EXCEPT !.last = ackno, !.wnd = window,
              !.rto = InitialRTO, !.retx = 0, !.conRetx = FALSE,
              !.ost = Unacked(s.ost, ackno)]

\* An ack of nothing new moves the right edge of the window, which is kept
\* relative to last.
OldAckUnclamped(s, ackno, window) ==     \* mutant: may fall below zero
    [s EXCEPT !.wnd = ackno + window - s.last]
OldAck(s, ackno, window) ==
    [s EXCEPT !.wnd = IF ackno + window > s.last THEN ackno + window - s.last
                                                ELSE 0]

TimerAfterAck(s, isNew) ==
    IF s.ost = {} THEN [s EXCEPT !.running = FALSE]
    ELSE IF isNew THEN StartTimer(s) ELSE s

TakeAckAsFinal(s, ackno, window) ==      \* mutant: any full ack ends it
    LET noted == [s EXCEPT !.finAcked = ackno = s.exp]
        isNew == ackno > s.last
    IN  IF ackno > s.exp
          THEN s
          ELSE TimerAfterAck(IF isNew THEN NewDataAcked(noted, ackno, window)
                                      ELSE OldAck(noted, ackno, window), isNew)
TakeAck(s, ackno, window) ==
    LET noted == [s EXCEPT !.finAcked = s.finSent /\ ackno = s.exp]
        isNew == ackno > s.last
    IN  IF ackno > s.exp
          THEN s
          ELSE TimerAfterAck(IF isNew THEN NewDataAcked(noted, ackno, window)
                                      ELSE OldAck(noted, ackno, window), isNew)

\* Lines 113-117: a peer with no ackno has not seen the SYN; start over.
StartOver(s, window) ==
    [s EXCEPT !.last = 0, !.exp = 0, !.wnd = window, !.ost = {}]

SenderReceive(s, m) ==
    IF m.RST THEN [s EXCEPT !.input = SetError(s.input)]
    ELSE IF m.hasAck THEN TakeAck(s, Unwrap(m.ackno, s.isn, s.last), m.window)
    ELSE TakeAck(StartOver(s, m.window), 0, m.window)

(***************************************************************************)
(* tick, when the timer runs and has reached its time.                     *)
(***************************************************************************)
Oldest(ost) == CHOOSE x \in ost : \A y \in ost : x.at <= y.at

BackOffAlways(s) ==                      \* mutant: backs off at window 0 too
    IF s.retx >= RetxBound THEN s
    ELSE [s EXCEPT !.retx = IF s.conRetx THEN s.retx + 1 ELSE 1,
                   !.conRetx = TRUE, !.rto = 2 * s.rto]
BackOff(s) ==
    IF s.wnd = 0 \/ s.retx >= RetxBound THEN s
    ELSE [s EXCEPT !.retx = IF s.conRetx THEN s.retx + 1 ELSE 1,
                   !.conRetx = TRUE, !.rto = 2 * s.rto]

TickExpires(s) ==
    IF s.ost = {} THEN [s EXCEPT !.running = FALSE] ELSE StartTimer(BackOff(s))

TickTransmits(s) == IF s.ost = {} THEN << >> ELSE << Oldest(s.ost).msg >>
=============================================================================
