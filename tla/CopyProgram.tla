---------------------------- MODULE CopyProgram ----------------------------
(***************************************************************************)
(* A program such as src/apps/tcp_ipv4.cc once it is connected: its main   *)
(* thread copies standard input and output to and from a TCPMinnowSocket   *)
(* (StreamCopy.tla) and then calls wait_until_closed; the socket's own     *)
(* thread (SocketThread.tla) does the same between the socket pair and the *)
(* connection.  Between poll and what is done with its answer either       *)
(* thread may be overtaken by the other, the user or the partner.          *)
(***************************************************************************)
EXTENDS StreamCopy, SocketThread

CONSTANTS
    CopyCapacity,     \* buffer_size of bidirectional_stream_copy
    StreamCapacity,   \* cfg_.send_capacity and recv_capacity
    PipeCapacity,     \* what the kernel takes in each direction
    Loads,            \* a set of [up, down]: how many bytes the user writes
                      \* and how many the partner
    FaultBudget       \* bound: users that close standard output, and RSTs

ASSUME CopyProgramConstants ==
    /\ CopyCapacity \in Nat \ {0} /\ StreamCapacity \in Nat \ {0}
    /\ PipeCapacity \in Nat \ {0} /\ FlightLimit \in Nat \ {0}
    /\ Loads \subseteq [up : Nat, down : Nat] /\ FaultBudget \in Nat

VARIABLES
    k,        \* the kernel: stdin, stdout, up, down; and the partner
    copy,     \* the variables of bidirectional_stream_copy
    tcp,      \* those of the socket's thread
    loop,     \* each thread's event loop: [rules, asked, answer]
    phase,    \* each thread: "copying", "closing", "joining", "ended" and so
              \* on; and missed, see ThreadCounts
    sent,     \* bytes the partner has written so far, whether it closed, and
              \* the behaviour's member of Loads
    read,     \* history: what the user has read from standard output
    faults    \* faults so far

vars == << k, copy, tcp, loop, phase, sent, read, faults >>

NoAnswer == << >>

Prepared(p) == [rules |-> p.rules, asked |-> p.asked, answer |-> NoAnswer]

RuleSet(order) == {order[i] : i \in DOMAIN order}

Init ==
    /\ k = [stdin |-> NewChannel(PipeCapacity), stdout |-> NewChannel(PipeCapacity),
            up |-> NewChannel(PipeCapacity), down |-> NewChannel(PipeCapacity),
            partner |-> NewPartner]
    /\ copy = NewCopy(CopyCapacity)
    /\ tcp = NewThread(StreamCapacity)
    /\ loop = [main |-> Prepared(Copy!Prepares([k |-> k, m |-> copy],
                                               RuleSet(CopyRules))),
               thread |-> Prepared(Thread!Prepares([k |-> k, m |-> tcp],
                                                   RuleSet(ThreadRules)))]
    /\ phase = [main |-> "copying", thread |-> "copying", missed |-> 0]
    /\ \E load \in Loads : sent = [bytes |-> 0, closed |-> FALSE, load |-> load]
    /\ read = << >>
    /\ faults = 0

Channels == {k.stdin, k.stdout, k.up, k.down}
Killed   == \E c \in Channels : c.broken        \* by a write that fails
Alive    == ~Killed /\ phase.main # "thrown" /\ phase.thread # "thrown"

(***************************************************************************)
(* What poll finds                                                         *)
(***************************************************************************)
Set(b, e) == IF b THEN {e} ELSE {}

\* Either end of the socket pair; in reads and out writes.
SocketEvents(in, out) ==
    Set(Readable(in) \/ in.shut, "IN") \cup Set(Space(out) > 0, "OUT")
        \cup Set(in.shut /\ out.shut, "HUP")

CopyEvents ==
    [r \in RuleSet(CopyRules) |->
        CASE r = "input"  -> Set(Readable(k.stdin), "IN") \cup Set(k.stdin.shut, "HUP")
          [] r = "output" -> Set(Space(k.stdout) > 0, "OUT")
                                \cup Set(k.stdout.gone, "ERR")
          [] OTHER        -> SocketEvents(k.down, k.up)]

ThreadEvents ==
    [r \in RuleSet(ThreadRules) |->
        IF r = "segment" THEN Set(k.partner.coming # << >>, "IN")
                         ELSE SocketEvents(k.up, k.down)]

(***************************************************************************)
(* The main thread                                                         *)
(***************************************************************************)
CopyPolls ==
    /\ Alive /\ phase.main = "copying" /\ loop.main.answer = NoAnswer
    /\ Copy!PollReturns(loop.main.rules, loop.main.asked, CopyEvents)
    /\ loop' = [loop EXCEPT !.main.answer = << CopyEvents >>]
    /\ UNCHANGED << k, copy, tcp, phase, sent, read, faults >>

CopyMayServe == Alive /\ loop.main.answer # NoAnswer

\* What the callbacks do, and the next call up to its poll.  If the other thread
\* stores its count while a callback reads the socket, and has missed one read
\* before, the count is what it was before the callback.
Miscounted(s) ==
    /\ phase.thread = "counting" /\ phase.missed = 1
    /\ s.served = << "from socket" >>

CopyServes ==
    /\ CopyMayServe
    /\ \E s \in {Copy!Serves([k |-> k, m |-> copy], loop.main.rules,
                             loop.main.asked, loop.main.answer[1])} :
       \E p \in {Copy!Prepares(s.st, s.rules)} :
       \E stores \in {FALSE} \cup {Miscounted(s)} :
          /\ k' = p.st.k
          /\ copy' = p.st.m
          /\ loop' = [loop EXCEPT !.main = Prepared(p)]
          /\ phase' = [phase EXCEPT
                 !.main = IF s.busy \/ (stores /\ s.again) THEN "thrown"
                          ELSE IF p.asked = {} THEN "closing" ELSE @,
                 !.thread = IF stores THEN "ended" ELSE @,
                 !.missed = IF phase.thread = "counting"
                               /\ s.served = << "from socket" >>
                              THEN Least(@ + 1, 2) ELSE @]
    /\ UNCHANGED << tcp, sent, read, faults >>

Hangs(kernel) == [kernel EXCEPT !.up = Shutdown(@), !.down = Shutdown(@)]

\* wait_until_closed: shutdown( SHUT_RDWR ), then join; then the program ends.
ShutsDown ==
    /\ Alive /\ phase.main = "closing"
    /\ k' = Hangs(k)
    /\ phase' = [phase EXCEPT !.main = "joining"]
    /\ UNCHANGED << copy, tcp, loop, sent, read, faults >>

Joins ==
    /\ Alive /\ phase.main = "joining" /\ phase.thread = "ended"
    /\ k' = [k EXCEPT !.stdout = Shutdown(@)]
    /\ phase' = [phase EXCEPT !.main = "ended"]
    /\ UNCHANGED << copy, tcp, loop, sent, read, faults >>

(***************************************************************************)
(* The socket's thread: _tcp_main and _tcp_loop                            *)
(***************************************************************************)
ThreadPolls ==
    /\ Alive /\ phase.thread = "copying" /\ loop.thread.answer = NoAnswer
    /\ Thread!PollReturns(loop.thread.rules, loop.thread.asked, ThreadEvents)
    /\ loop' = [loop EXCEPT !.thread.answer = << ThreadEvents >>]
    /\ UNCHANGED << k, copy, tcp, phase, sent, read, faults >>

\* The thread goes on from what Prepares has made of its rules: with nothing to
\* poll it shuts the application's end down.
ThreadGoesOn(p, busy) ==
    /\ k' = IF p.asked = {} THEN Hangs(p.st.k) ELSE p.st.k
    /\ tcp' = p.st.m
    /\ loop' = [loop EXCEPT !.thread = Prepared(p)]
    /\ phase' = [phase EXCEPT !.thread = IF busy THEN "thrown"
                                         ELSE IF p.asked = {} THEN "hung up" ELSE @]
    /\ UNCHANGED << copy, sent, read, faults >>

ThreadMayServe == Alive /\ loop.thread.answer # NoAnswer

ThreadServes ==
    /\ ThreadMayServe
    /\ \E s \in {Thread!Serves([k |-> k, m |-> tcp], loop.thread.rules,
                               loop.thread.asked, loop.thread.answer[1])} :
          ThreadGoesOn(Thread!Prepares(s.st, s.rules), s.busy)

\* Then, in shutdown and without a lock, it adds one to read_count_ of the main
\* thread's descriptor, which that thread's loop compares to find a busy wait.
\* The value loaded may have missed reads by the time it is stored: one, or more.
\* (After this nothing is written, so write_count_ makes no difference.)
ThreadCounts ==
    /\ Alive /\ phase.thread \in {"hung up", "counting"}
    /\ phase' = [phase EXCEPT
           !.thread = IF @ = "hung up" THEN "counting" ELSE "ended"]
    /\ UNCHANGED << k, copy, tcp, loop, sent, read, faults >>

\* Both streams are done and poll has timed out until nobody lingers any more.
MayLinger ==
    /\ Alive /\ phase.thread = "copying" /\ loop.thread.answer = NoAnswer
    /\ tcp.linger /\ tcp.flight = 0 /\ Finished(tcp.out) /\ tcp.in.closed

LingerEnds ==
    /\ MayLinger
    /\ ThreadGoesOn(Thread!Prepares([k |-> k, m |-> [tcp EXCEPT !.linger = FALSE]],
                                    loop.thread.rules), FALSE)

(***************************************************************************)
(* The user at standard input and output                                   *)
(***************************************************************************)
UserWrites ==
    /\ ~k.stdin.shut /\ Space(k.stdin) > 0
    /\ \E byte \in 1 .. sent.load.up :
          /\ byte = 1 + Len(k.partner.got) + Buffered(tcp.out) + Len(k.up.buf)
                      + Buffered(copy.out) + Len(k.stdin.buf)
          /\ k' = [k EXCEPT !.stdin.buf = Append(@, byte)]
    /\ UNCHANGED << copy, tcp, loop, phase, sent, read, faults >>

UserCloses ==
    /\ ~k.stdin.shut
    /\ k' = [k EXCEPT !.stdin = Shutdown(@)]
    /\ UNCHANGED << copy, tcp, loop, phase, sent, read, faults >>

UserReads ==
    /\ Readable(k.stdout) /\ ~k.stdout.gone
    /\ read' = read \o k.stdout.buf
    /\ k' = [k EXCEPT !.stdout.buf = << >>]
    /\ UNCHANGED << copy, tcp, loop, phase, sent, faults >>

UserLeaves ==
    /\ ~k.stdout.gone /\ faults < FaultBudget
    /\ k' = [k EXCEPT !.stdout.gone = TRUE]
    /\ faults' = faults + 1
    /\ UNCHANGED << copy, tcp, loop, phase, sent, read >>

(***************************************************************************)
(* The partner: bytes for which there is room, the FIN, acks, RST          *)
(***************************************************************************)
Sends(msg) ==
    /\ k.partner.coming = << >> /\ ~tcp.in.error
    /\ k' = [k EXCEPT !.partner.coming = << msg >>]

PartnerSends ==
    /\ ~sent.closed /\ sent.bytes < sent.load.down /\ Available(tcp.in) > 0
    /\ Sends([kind |-> "byte", byte |-> sent.bytes + 1])
    /\ sent' = [sent EXCEPT !.bytes = @ + 1]
    /\ UNCHANGED << copy, tcp, loop, phase, read, faults >>

PartnerCloses ==
    /\ ~sent.closed
    /\ Sends([kind |-> "fin"])
    /\ sent' = [sent EXCEPT !.closed = TRUE]
    /\ UNCHANGED << copy, tcp, loop, phase, read, faults >>

PartnerAcks ==
    /\ tcp.flight > 0
    /\ Sends([kind |-> "ack"])
    /\ UNCHANGED << copy, tcp, loop, phase, sent, read, faults >>

PartnerResets ==
    /\ faults < FaultBudget
    /\ Sends([kind |-> "rst"])
    /\ faults' = faults + 1
    /\ UNCHANGED << copy, tcp, loop, phase, sent, read >>

\* The program has ended or is dead; after a fault it may also wait for ever.
Stays ==
    /\ phase.main = "ended" \/ ~Alive \/ faults > 0
    /\ UNCHANGED vars

Next ==
    \/ CopyPolls
    \/ CopyServes
    \/ ShutsDown
    \/ Joins
    \/ ThreadPolls
    \/ ThreadServes
    \/ ThreadCounts
    \/ LingerEnds
    \/ UserWrites
    \/ UserCloses
    \/ UserReads
    \/ UserLeaves
    \/ PartnerSends
    \/ PartnerCloses
    \/ PartnerAcks
    \/ PartnerResets
    \/ Stays

\* Both threads run, the user reads and closes some time, and so does the
\* partner, which acknowledges as well.  Weak fairness of CopyServes,
\* ThreadServes and LingerEnds is stated by their guards: nothing else, and any
\* of their steps, makes them false.
Fairness ==
    /\ WF_vars(CopyPolls) /\ []<>(~CopyMayServe)
    /\ WF_vars(ShutsDown) /\ WF_vars(Joins)
    /\ WF_vars(ThreadPolls) /\ WF_vars(ThreadCounts) /\ []<>(~ThreadMayServe) /\ []<>(~MayLinger)
    /\ WF_vars(UserCloses) /\ WF_vars(UserReads)
    /\ WF_vars(PartnerCloses) /\ WF_vars(PartnerAcks)

Spec == Init /\ [][Next]_vars /\ Fairness

-----------------------------------------------------------------------------
\* No buffer holds more than its capacity.
TypeOK ==
    /\ \A c \in Channels : Len(c.buf) \in 0 .. c.cap
    /\ \A f \in {copy.out, copy.in, tcp.out, tcp.in} : Available(f) \in 0 .. f.cap
    /\ tcp.flight \in 0 .. FlightLimit
    /\ loop.main.rules \subseteq RuleSet(CopyRules)
    /\ loop.thread.rules \subseteq RuleSet(ThreadRules)

\* Both directions are streams: whatever the threads' order, the rooms left and
\* the rules served, every byte arrives once and in order, and an end arrives
\* only behind the last byte of a source that has ended, unless a fault has
\* struck.
ByteOf(coming) == IF coming # << >> /\ Head(coming).kind = "byte"
                    THEN << Head(coming).byte >> ELSE << >>

Up == [transit |-> tcp.out.buf \o k.up.buf \o copy.out.buf \o k.stdin.buf,
       left |-> k.partner.got, closed |-> k.stdin.shut, ended |-> k.partner.ended]

Down == [transit |-> k.stdout.buf \o copy.in.buf \o k.down.buf \o tcp.in.buf
                        \o ByteOf(k.partner.coming),
         left |-> read, closed |-> sent.closed,
         ended |-> k.stdout.shut /\ k.stdout.buf = << >>]

Promised == INSTANCE Relay WITH up <- Up, down <- Down, failed <- faults > 0

ImplementsRelay == Promised!Spec

\* No write of either thread fails, neither because of what the other one has
\* shut down between poll and the write nor because nothing is taken, and no
\* rule is found to be served in vain (eventloop.cc:211-215): only the user who
\* leaves or a RST can stop the program short (src/ does not handle SIGPIPE) --
\* or a count that is stored too late: then a rule that has read its descriptor
\* seems not to have, an exception ends the copy, and what was to be written to
\* standard output is lost.
ThrownByCount == phase.main = "thrown" /\ phase.thread = "ended"
                    /\ phase.missed = 2 /\ ~Killed

StoppedOnlyByFault == ~Alive => faults > 0 \/ ThrownByCount

\* Without a fault the program ends with all bytes delivered and both streams
\* ended; after one it does not hang in wait_until_closed either.
Complete ==
    /\ phase.main = "ended"
    /\ Up.transit = << >> /\ Up.ended
    /\ Down.transit = << >> /\ Down.ended

ProgramEnds ==
    <>(\/ IF faults = 0 THEN Complete ELSE phase.main = "ended" \/ Killed
       \/ ThrownByCount)
=============================================================================
