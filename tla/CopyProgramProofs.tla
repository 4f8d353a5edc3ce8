-------------------------- MODULE CopyProgramProofs --------------------------
(***************************************************************************)
(* Proofs about CopyProgram.tla, for every capacity, window and load: two  *)
(* threads copy two streams, in any order of their steps, and whatever the *)
(* user and the partner do to them.                                        *)
(***************************************************************************)
EXTENDS CopyProgram, SequenceTheorems, TLAPS

-----------------------------------------------------------------------------
(***************************************************************************)
(* The invariant, of a kernel kk, the variables c of the stream copy and   *)
(* those t of the socket's thread.                                         *)
(***************************************************************************)
Channel == [buf : Seq(Nat), cap : Nat, shut : BOOLEAN, gone : BOOLEAN,
            broken : BOOLEAN]
Stream  == [cap : Nat, buf : Seq(Nat), closed : BOOLEAN, error : BOOLEAN,
            pushed : Nat, popped : Nat]

ChannelFits(ch) == ch \in Channel /\ Len(ch.buf) <= ch.cap
StreamFits(f)   == f \in Stream /\ Len(f.buf) <= f.cap

Message == [kind : {"byte"}, byte : Nat] \cup [kind : {"fin", "ack", "rst"}]
Partner == [got : Seq(Nat), ended : BOOLEAN, coming : Seq(Message)]

KernelFits(kk) ==
    /\ kk \in [stdin : Channel, stdout : Channel, up : Channel, down : Channel,
               partner : Partner]
    /\ ChannelFits(kk.stdin) /\ ChannelFits(kk.stdout)
    /\ ChannelFits(kk.up) /\ ChannelFits(kk.down)
    /\ Len(kk.partner.coming) <= 1

\* The marks of an end are set when the stream is closed.
CopyFits(c) ==
    /\ c \in [out : Stream, in : Stream, outShut : BOOLEAN, inShut : BOOLEAN,
              inputEof : BOOLEAN, sockEof : BOOLEAN]
    /\ StreamFits(c.out) /\ StreamFits(c.in)
    /\ 0 < c.out.cap /\ 0 < c.in.cap
    /\ c.inputEof => c.out.closed
    /\ c.sockEof \/ c.inShut => c.in.closed

ThreadFits(t) ==
    /\ t \in [out : Stream, in : Stream, outShut : BOOLEAN, inShut : BOOLEAN,
              eof : BOOLEAN, flight : 0 .. FlightLimit, finSent : BOOLEAN,
              linger : BOOLEAN]
    /\ StreamFits(t.out) /\ StreamFits(t.in)
    /\ t.eof => t.out.closed
    /\ t.out.closed => t.outShut

\* What has come from the partner is in place: a byte finds room.
Comes(kk, t, se) ==
    /\ t.in.closed => se.closed
    /\ kk.partner.coming # << >> =>
          LET kind == Head(kk.partner.coming).kind IN
          /\ kind = "byte" => ~se.closed /\ Available(t.in) > 0
          /\ kind = "fin" => se.closed

\* Nothing has failed.
Calm(kk, c, t) ==
    /\ ~c.out.error /\ ~c.in.error /\ ~t.out.error /\ ~t.in.error
    /\ \A ch \in {kk.stdin, kk.stdout, kk.up, kk.down} : ~ch.gone /\ ~ch.broken
    /\ kk.partner.coming # << >> => Head(kk.partner.coming).kind # "rst"

\* An end follows the last byte from each place to the next.
UpEnds(kk, c, t) ==
    /\ c.out.closed => kk.stdin.shut /\ kk.stdin.buf = << >>
    /\ kk.up.shut => Finished(c.out)
    /\ c.outShut => kk.up.shut
    /\ t.out.closed => kk.up.shut /\ kk.up.buf = << >>
    /\ t.finSent => Finished(t.out)
    /\ kk.partner.ended => t.finSent

DownEnds(kk, c, t) ==
    /\ kk.down.shut => Finished(t.in)
    /\ t.inShut => kk.down.shut
    /\ c.in.closed => kk.down.shut /\ kk.down.buf = << >>
    /\ kk.stdout.shut => Finished(c.in)
    /\ c.inShut => kk.stdout.shut

Good(kk, c, t) == Calm(kk, c, t) /\ UpEnds(kk, c, t) /\ DownEnds(kk, c, t)

\* A rule is erased when there is nothing left for it to do.
CopyRulesGone(kk, c, rules) ==
    /\ "input" \notin rules => c.out.closed
    /\ "to socket" \notin rules => kk.up.shut
    /\ "from socket" \notin rules => c.in.closed
    /\ "output" \notin rules => c.inShut

ThreadRulesGone(kk, t, rules) ==
    /\ "push bytes" \notin rules => t.out.closed
    /\ "inbound" \notin rules => kk.down.shut

\* What poll has found stays so until its answer is dealt with.
CopyAnswer(kk, rev) ==
    /\ rev["input"] \subseteq {"IN", "HUP"}
    /\ "IN" \in rev["input"] => Readable(kk.stdin)
    /\ "HUP" \in rev["input"] =>
          kk.stdin.shut /\ ("IN" \notin rev["input"] => kk.stdin.buf = << >>)
    /\ \A r \in {"to socket", "from socket"} :
          /\ "IN" \in rev[r] => Readable(kk.down) \/ kk.down.shut
          /\ "OUT" \in rev[r] => Space(kk.up) > 0
          /\ "HUP" \in rev[r] => kk.up.shut /\ kk.down.shut /\ "IN" \in rev[r]
          /\ "ERR" \notin rev[r]
    /\ rev["output"] \subseteq {"OUT", "ERR"}
    /\ "OUT" \in rev["output"] => Space(kk.stdout) > 0
    /\ "ERR" \in rev["output"] => kk.stdout.gone

ThreadAnswer(kk, rev) ==
    /\ rev["segment"] \subseteq {"IN"}
    /\ "IN" \in rev["segment"] => kk.partner.coming # << >>
    /\ \A r \in {"push bytes", "inbound"} :
          /\ "IN" \in rev[r] => Readable(kk.up) \/ kk.up.shut
          /\ "OUT" \in rev[r] => Space(kk.down) > 0
          /\ "HUP" \in rev[r] => kk.up.shut /\ kk.down.shut /\ "IN" \in rev[r]
          /\ "ERR" \notin rev[r]

CopyRuleSet   == {"input", "to socket", "from socket", "output"}
ThreadRuleSet == {"segment", "push bytes", "inbound"}

MainLoop(kk, c, l) ==
    /\ l = [rules |-> l.rules, asked |-> l.asked, answer |-> l.answer]
    /\ l.rules \subseteq CopyRuleSet
    /\ l.asked \subseteq l.rules
    /\ \A r \in l.asked : CopyInterest([k |-> kk, m |-> c], r)
    /\ l.answer # NoAnswer => CopyAnswer(kk, l.answer[1])

ThreadLoop(kk, t, l) ==
    /\ l = [rules |-> l.rules, asked |-> l.asked, answer |-> l.answer]
    /\ l.rules \subseteq ThreadRuleSet
    /\ "segment" \in l.rules
    /\ l.asked \subseteq l.rules
    /\ \A r \in l.asked : ThreadInterest([k |-> kk, m |-> t], r)
    /\ l.answer # NoAnswer => ThreadAnswer(kk, l.answer[1])

\* The phases of the two threads.
Phases ==
    /\ phase \in [main : {"copying", "closing", "joining", "ended", "thrown"},
                 thread : {"copying", "hung up", "counting", "ended"},
                 missed : 0 .. 2]
    /\ phase.main = "thrown" => phase.thread = "ended" /\ phase.missed = 2

TypeInv ==
    /\ KernelFits(k) /\ CopyFits(copy) /\ ThreadFits(tcp)
    /\ Comes(k, tcp, sent)
    /\ sent \in [bytes : Nat, closed : BOOLEAN, load : [up : Nat, down : Nat]]
    /\ read \in Seq(Nat) /\ faults \in Nat
    /\ ~k.stdin.gone /\ ~k.up.gone /\ ~k.down.gone
    /\ sent.bytes = Len(Down.left) + Len(Down.transit)
    /\ loop = [main |-> loop.main, thread |-> loop.thread]
    /\ MainLoop(k, copy, loop.main)
    /\ ThreadLoop(k, tcp, loop.thread)
    /\ Phases

\* As long as there has been no fault.
Faultless ==
    /\ Good(k, copy, tcp)
    /\ CopyRulesGone(k, copy, loop.main.rules)
    /\ ThreadRulesGone(k, tcp, loop.thread.rules)
    /\ phase.main \in {"closing", "joining", "ended"} =>
          k.up.shut /\ k.down.shut /\ k.stdout.shut

Inv == TypeInv /\ (faults = 0 => Faultless)

-----------------------------------------------------------------------------
(***************************************************************************)
(* Streams and channels.                                                   *)
(***************************************************************************)
\* A sequence is what comes up to some place and what comes behind it.
LEMMA Cut ==
    ASSUME NEW S, NEW s \in Seq(S), NEW n \in 0 .. Len(s)
    PROVE  /\ SubSeq(s, 1, n) \in Seq(S) /\ SubSeq(s, n + 1, Len(s)) \in Seq(S)
           /\ Len(SubSeq(s, 1, n)) = n /\ Len(SubSeq(s, n + 1, Len(s))) = Len(s) - n
           /\ SubSeq(s, 1, n) \o SubSeq(s, n + 1, Len(s)) = s
<1>1. Len(s) \in Nat
    BY LenProperties
<1>2. \A i \in 1 .. Len(s) : s[i] \in S
    BY ElementOfSeq
<1>3. SubSeq(s, 1, n) \in Seq(S) /\ Len(SubSeq(s, 1, n)) = n
    <2>1. \A i \in 1 .. n : s[i] \in S
        BY <1>1, <1>2
    <2>2. /\ SubSeq(s, 1, n) \in Seq(S)
          /\ Len(SubSeq(s, 1, n)) = IF 1 <= n THEN n - 1 + 1 ELSE 0
        BY <2>1, <1>1, SubSeqProperties
    <2> QED
        BY <1>1, <2>2
<1>4. SubSeq(s, n + 1, Len(s)) \in Seq(S) /\ Len(SubSeq(s, n + 1, Len(s))) = Len(s) - n
    <2>1. \A i \in n + 1 .. Len(s) : s[i] \in S
        BY <1>1, <1>2
    <2>2. n + 1 \in Int /\ Len(s) \in Int
        BY <1>1
    <2>3. /\ SubSeq(s, n + 1, Len(s)) \in Seq(S)
          /\ Len(SubSeq(s, n + 1, Len(s))) =
                IF n + 1 <= Len(s) THEN Len(s) - (n + 1) + 1 ELSE 0
        BY <2>1, <2>2, SubSeqProperties
    <2> QED
        BY <1>1, <2>3
<1>5. SubSeq(s, 1, n) \o SubSeq(s, n + 1, Len(s)) = s
    <2>1. /\ 1 \in 1 .. Len(s) + 1 /\ n \in 1 - 1 .. Len(s)
          /\ Len(s) \in n .. Len(s)
        BY <1>1
    <2>2. SubSeq(s, 1, n) \o SubSeq(s, n + 1, Len(s)) = SubSeq(s, 1, Len(s))
        BY <2>1, ConcatAdjacentSubSeq
    <2> QED
        BY <2>2, SubSeqFull
<1> QED
    BY <1>3, <1>4, <1>5

\* Concatenation is associative.
LEMMA Joined ==
    ASSUME NEW s \in Seq(Nat), NEW t \in Seq(Nat), NEW u \in Seq(Nat)
    PROVE  (s \o t) \o u = s \o (t \o u)
BY SMTT(30), ConcatAssociative

\* Pop takes the first bytes, those behind them stay.
LEMMA Pops ==
    ASSUME NEW f, StreamFits(f), NEW n \in 0 .. Len(f.buf)
    PROVE  LET g == Pop(f, n) IN
           /\ StreamFits(g) /\ Len(g.buf) = Len(f.buf) - n
           /\ g.cap = f.cap /\ g.closed = f.closed /\ g.error = f.error
           /\ g.buf = SubSeq(f.buf, n + 1, Len(f.buf))
           /\ SubSeq(f.buf, 1, n) \o g.buf = f.buf
<1> DEFINE g == Pop(f, n)
           rest == SubSeq(f.buf, n + 1, Len(f.buf))
           sum == f.popped + n
<1>1. /\ f \in Stream /\ f.buf \in Seq(Nat) /\ Len(f.buf) \in Nat
      /\ f.popped \in Nat /\ f.cap \in Nat /\ Len(f.buf) <= f.cap
    BY LenProperties DEF StreamFits, Stream
<1>2. Gone(f, n) = n
    BY <1>1 DEF Gone, Least, Buffered
<1>3. g = [f EXCEPT !.buf = rest, !.popped = sum]
    BY <1>2 DEF Pop
<1>4. /\ rest \in Seq(Nat) /\ Len(rest) = Len(f.buf) - n
      /\ SubSeq(f.buf, 1, n) \o rest = f.buf
    BY <1>1, Cut
<1>5. sum \in Nat
    BY <1>1
<1>6. Len(rest) <= f.cap
    BY <1>1, <1>4
<1> HIDE DEF g, rest, sum
<1>7. g \in Stream /\ g.buf = rest
      /\ g.cap = f.cap /\ g.closed = f.closed /\ g.error = f.error
    BY <1>1, <1>3, <1>4, <1>5 DEF Stream
<1>8. StreamFits(g)
    BY <1>6, <1>7 DEF StreamFits
<1> QED
    BY <1>4, <1>7, <1>8 DEF g, rest

\* Push of what there is room for puts all of it behind the rest.
LEMMA Pushes ==
    ASSUME NEW f, StreamFits(f), ~f.closed,
           NEW data \in Seq(Nat), Len(data) <= Available(f)
    PROVE  LET g == Push(f, data) IN
           /\ StreamFits(g) /\ g.buf = f.buf \o data
           /\ Len(g.buf) = Len(f.buf) + Len(data)
           /\ g.cap = f.cap /\ g.closed = f.closed /\ g.error = f.error
<1> DEFINE g == Push(f, data)
           both == f.buf \o data
           sum == f.pushed + Len(data)
<1>1. f \in Stream /\ f.buf \in Seq(Nat) /\ Len(f.buf) \in Nat /\ Len(data) \in Nat
      /\ f.cap \in Nat /\ f.pushed \in Nat
    BY LenProperties DEF StreamFits, Stream
<1>2. Room(f, data) = Len(data)
    BY <1>1 DEF Room, Least, Available
<1>3. g = [f EXCEPT !.buf = both, !.pushed = sum]
    BY <1>2, SubSeqFull DEF Push
<1>4. both \in Seq(Nat) /\ Len(both) = Len(f.buf) + Len(data)
    BY <1>1, ConcatProperties
<1>5. sum \in Nat
    BY <1>1
<1>6. Len(both) <= f.cap
    BY <1>1, <1>4 DEF Available
<1> HIDE DEF g, both, sum
<1>7. g \in Stream /\ g.buf = both
      /\ g.cap = f.cap /\ g.closed = f.closed /\ g.error = f.error
    BY <1>1, <1>3, <1>4, <1>5 DEF Stream
<1>8. StreamFits(g)
    BY <1>6, <1>7 DEF StreamFits
<1> QED
    BY <1>4, <1>7, <1>8 DEF g, both

\* The marks of a stream leave its bytes alone.
LEMMA Marks ==
    ASSUME NEW f, StreamFits(f)
    PROVE  /\ StreamFits(Close(f)) /\ Close(f).closed
           /\ Close(f).buf = f.buf /\ Close(f).cap = f.cap /\ Close(f).error = f.error
           /\ StreamFits(SetError(f)) /\ SetError(f).closed = f.closed
           /\ SetError(f).buf = f.buf /\ SetError(f).cap = f.cap
           /\ f.closed => Close(f) = f
BY DEF StreamFits, Stream, Close, SetError

\* Shutdown marks a channel and does nothing else; a second one does nothing.
LEMMA Shuts ==
    ASSUME NEW ch, ChannelFits(ch)
    PROVE  LET d == Shutdown(ch) IN
           /\ ChannelFits(d) /\ d.shut /\ d.buf = ch.buf /\ d.cap = ch.cap
           /\ d.gone = ch.gone /\ d.broken = ch.broken
           /\ ch.shut => d = ch
BY DEF ChannelFits, Channel, Shutdown

\* The first half of a callback: what is read is pushed, in the order in which
\* it came, and the stream is closed behind the last byte of a channel.
Filled(f, ch, g, d) ==
    /\ StreamFits(g) /\ ChannelFits(d)
    /\ g.buf \o d.buf = f.buf \o ch.buf
    /\ g.cap = f.cap /\ g.error = f.error
    /\ g.closed = ReadsEof(ch)
    /\ Len(d.buf) <= Len(ch.buf) /\ d.cap = ch.cap
    /\ d.shut = ch.shut /\ d.gone = ch.gone /\ d.broken = ch.broken
    /\ ReadsEof(ch) => d.buf = << >> /\ ch.shut

\* Fill of Descriptors.tla is the first half of every callback.
LEMMA Fills ==
    ASSUME NEW f, StreamFits(f), NEW ch, ChannelFits(ch), ~f.closed
    PROVE  Filled(f, ch, Fill(f, ch).stream, Fill(f, ch).channel)
<1> DEFINE n == Least(Available(f), Len(ch.buf))
           data == ReadBytes(ch, Available(f))
           p == Push(f, data)
           rest == SubSeq(ch.buf, n + 1, Len(ch.buf))
           g == Fill(f, ch).stream
           d == Fill(f, ch).channel
<1>1. /\ f \in Stream /\ f.buf \in Seq(Nat) /\ Len(f.buf) \in Nat /\ f.cap \in Nat
      /\ ch \in Channel /\ ch.buf \in Seq(Nat) /\ Len(ch.buf) \in Nat
      /\ Len(f.buf) <= f.cap /\ Len(ch.buf) <= ch.cap /\ ch.cap \in Nat
    BY LenProperties DEF StreamFits, ChannelFits, Stream, Channel
<1>2. n \in 0 .. Len(ch.buf) /\ n <= Available(f)
    BY <1>1 DEF Least, Available
<1>3. data = SubSeq(ch.buf, 1, n) /\ d = [ch EXCEPT !.buf = rest]
    BY DEF ReadBytes, Fill, AfterRead
<1>4. g = IF ReadsEof(ch) THEN Close(p) ELSE p
    BY DEF Fill
<1>5. /\ data \in Seq(Nat) /\ Len(data) = n
      /\ rest \in Seq(Nat) /\ Len(rest) = Len(ch.buf) - n
      /\ data \o rest = ch.buf
    <2> HIDE DEF n
    <2> QED
        <3> DEFINE b == ch.buf
        <3>1. b \in Seq(Nat) /\ n \in 0 .. Len(b)
            BY <1>1, <1>2
        <3> HIDE DEF b
        <3>2. /\ SubSeq(b, 1, n) \in Seq(Nat) /\ SubSeq(b, n + 1, Len(b)) \in Seq(Nat)
              /\ Len(SubSeq(b, 1, n)) = n /\ Len(SubSeq(b, n + 1, Len(b))) = Len(b) - n
              /\ SubSeq(b, 1, n) \o SubSeq(b, n + 1, Len(b)) = b
            BY <3>1, Cut
        <3> HIDE DEF data
        <3> QED
            BY <1>3, <3>2 DEF b
<1> HIDE DEF n, data, p, g, d, rest
<1>6. /\ StreamFits(p) /\ p.buf = f.buf \o data
      /\ p.cap = f.cap /\ p.closed = f.closed /\ p.error = f.error
    BY <1>2, <1>5, Pushes DEF p
<1>7. /\ StreamFits(g) /\ g.buf = f.buf \o data
      /\ g.cap = f.cap /\ g.error = f.error /\ g.closed = ReadsEof(ch)
    <2>0. f.closed = FALSE /\ ReadsEof(ch) \in BOOLEAN
        BY <1>1 DEF Stream, ReadsEof
    <2>1. CASE ReadsEof(ch)
        <3>1. g = Close(p)
            BY <1>4, <2>1
        <3>2. Close(p).closed = TRUE
            BY <1>6 DEF StreamFits, Stream, Close
        <3> QED
            BY <1>6, <2>0, <2>1, <3>1, <3>2, Marks
    <2>2. CASE ~ReadsEof(ch)
        BY <1>4, <1>6, <2>0, <2>2
    <2> QED
        BY <2>1, <2>2
<1>8. /\ d \in Channel /\ d.buf = rest /\ d.cap = ch.cap
      /\ d.shut = ch.shut /\ d.gone = ch.gone /\ d.broken = ch.broken
    BY <1>1, <1>3, <1>5 DEF Channel
<1>9. ChannelFits(d) /\ Len(d.buf) <= Len(ch.buf)
    BY <1>1, <1>2, <1>5, <1>8 DEF ChannelFits
<1>10. g.buf \o d.buf = f.buf \o ch.buf
    <2>1. d.buf = rest /\ g.buf = f.buf \o data
        BY <1>7, <1>8
    <2>2. (f.buf \o data) \o rest = f.buf \o (data \o rest)
        BY <1>1, <1>5, Joined
    <2> QED
        BY <1>5, <2>1, <2>2
<1>11. ReadsEof(ch) => d.buf = << >> /\ ch.shut
    <2> SUFFICES ASSUME ReadsEof(ch) PROVE d.buf = << >>
        BY DEF ReadsEof
    <2>1. ch.buf = << >>
        BY DEF ReadsEof, Readable
    <2>2. Len(ch.buf) = 0
        BY <2>1
    <2> QED
        BY <1>1, <1>2, <1>5, <1>8, <2>2, EmptySeq
<1>12. Filled(f, ch, g, d)
    BY <1>7, <1>8, <1>9, <1>10, <1>11 DEF Filled
<1> QED
    BY <1>12 DEF g, d

\* The second half: what is written is popped, and what the channel does not
\* take stays.  A write fails only into a channel that nobody reads or that is
\* shut or full.
Drained(f, ch, g, d) ==
    /\ StreamFits(g) /\ ChannelFits(d)
    /\ d.buf \o g.buf = ch.buf \o f.buf
    /\ g.cap = f.cap /\ g.error = f.error /\ g.closed = f.closed
    /\ Len(g.buf) <= Len(f.buf) /\ Len(ch.buf) <= Len(d.buf)
    /\ d.cap = ch.cap /\ d.shut = ch.shut /\ d.gone = ch.gone
    /\ f.buf = << >> => g = f /\ d = ch
    /\ ~Deaf(ch) /\ Space(ch) > 0 => d.broken = ch.broken
    /\ ch.shut => d.buf = ch.buf

\* Drain of Descriptors.tla is the second half.
LEMMA Drains ==
    ASSUME NEW f, StreamFits(f), NEW ch, ChannelFits(ch)
    PROVE  Drained(f, ch, Drain(f, ch).stream, Drain(f, ch).channel)
<1> DEFINE n == Written(ch, f.buf)
           g == Drain(f, ch).stream
           d == Drain(f, ch).channel
<1>1. /\ f \in Stream /\ f.buf \in Seq(Nat) /\ Len(f.buf) \in Nat
      /\ ch \in Channel /\ ch.buf \in Seq(Nat) /\ Len(ch.buf) \in Nat /\ ch.cap \in Nat
      /\ Len(f.buf) <= f.cap /\ Len(ch.buf) <= ch.cap
    BY LenProperties DEF StreamFits, ChannelFits, Stream, Channel
<1>2. CASE f.buf = << >>
    <2>1. g = f /\ d = ch
        BY <1>2 DEF Drain
    <2>2. Drained(f, ch, f, ch)
        BY <1>1 DEF Drained
    <2> QED
        BY <2>1, <2>2, Zenon
<1>3. CASE f.buf # << >>
    <2>1. n \in 0 .. Len(f.buf) /\ n <= Space(ch) /\ (ch.shut => n = 0)
        BY <1>1 DEF Written, Least, Space, Deaf
    <2>2. g = Pop(f, n)
          /\ d = [ch EXCEPT !.buf = ch.buf \o SubSeq(f.buf, 1, n),
                            !.broken = @ \/ n = 0]
        BY <1>3 DEF Drain, AfterWrite
    <2>3. ~Deaf(ch) /\ Space(ch) > 0 => n > 0
        <3>1. Len(f.buf) # 0
            BY <1>1, <1>3, EmptySeq
        <3> QED
            BY <1>1, <3>1 DEF Written, Least, Space
    <2> DEFINE first == SubSeq(f.buf, 1, n)
               both == ch.buf \o first
    <2> HIDE DEF n, g, d
    <2>4. first \in Seq(Nat) /\ Len(first) = n
        BY <1>1, <2>1, Cut
    <2>5. both \in Seq(Nat) /\ Len(both) = Len(ch.buf) + n
        BY <1>1, <2>4, ConcatProperties
    <2>6. /\ StreamFits(g) /\ Len(g.buf) = Len(f.buf) - n
          /\ g.cap = f.cap /\ g.closed = f.closed /\ g.error = f.error
          /\ first \o g.buf = f.buf
        BY <2>1, <2>2, Pops
    <2>7. d.broken = (ch.broken \/ n = 0) /\ (ch.broken \/ n = 0) \in BOOLEAN
        BY <1>1, <2>2 DEF Channel
    <2>8. /\ d \in Channel /\ d.buf = both /\ d.cap = ch.cap
          /\ d.shut = ch.shut /\ d.gone = ch.gone
        <3> DEFINE b == ch.broken \/ n = 0
        <3>1. d = [ch EXCEPT !.buf = both, !.broken = b] /\ b \in BOOLEAN
            BY <1>1, <2>2
        <3> HIDE DEF b, both
        <3> QED
            BY <1>1, <2>5, <3>1 DEF Channel
    <2>9. d.buf \o g.buf = ch.buf \o f.buf
        <3>1. g.buf \in Seq(Nat)
            BY <2>6 DEF StreamFits, Stream
        <3>2. (ch.buf \o first) \o g.buf = ch.buf \o (first \o g.buf)
            <4> HIDE DEF both
            <4> QED
                BY ZenonT(30), <1>1, <2>4, <3>1, Joined
        <3> QED
            BY <2>6, <2>8, <3>2
    <2> HIDE DEF both
    <2>10. ChannelFits(d) /\ Len(ch.buf) <= Len(d.buf) /\ Len(g.buf) <= Len(f.buf)
        BY SMTT(30), <1>1, <2>1, <2>5, <2>6, <2>8 DEF ChannelFits, Space
    <2>11. ch.shut => d.buf = ch.buf
        <3>1. n = 0 => first = << >>
            BY <2>4, EmptySeq
        <3> QED
            BY <1>1, <2>1, <2>8, <3>1, ConcatEmptySeq DEF both
    <2>12. ~Deaf(ch) /\ Space(ch) > 0 => d.broken = ch.broken
        <3>1. ch.broken \in BOOLEAN
            BY <1>1 DEF Channel
        <3> QED
            BY <2>1, <2>3, <2>7, <3>1
    <2>13. Drained(f, ch, g, d)
        BY <1>3, <2>6, <2>8, <2>9, <2>10, <2>11, <2>12 DEF Drained
    <2> QED
        BY <2>13 DEF g, d
<1> QED
    BY <1>2, <1>3

-----------------------------------------------------------------------------
(***************************************************************************)
(* The loops of wait_next_event, one rule after the other.                 *)
(***************************************************************************)
\* The main thread looks at its four rules in turn.
LEMMA CopyPreparesInTurn ==
    ASSUME NEW st, NEW rules
    PROVE  LET v0 == [st |-> st, rules |-> rules, asked |-> {}]
               v1 == Copy!LooksAt(v0, "input")
               v2 == Copy!LooksAt(v1, "to socket")
               v3 == Copy!LooksAt(v2, "from socket")
               v4 == Copy!LooksAt(v3, "output")
           IN  Copy!Prepares(st, rules) = v4
<1> DEFINE v0 == [st |-> st, rules |-> rules, asked |-> {}]
           v1 == Copy!LooksAt(v0, "input")
           v2 == Copy!LooksAt(v1, "to socket")
           v3 == Copy!LooksAt(v2, "from socket")
           v4 == Copy!LooksAt(v3, "output")
           Is(f) == f = [i \in 0 .. Len(CopyRules) |->
                            IF i = 0 THEN v0
                            ELSE Copy!LooksAt(f[i - 1], CopyRules[i])]
           upTo == CHOOSE f : Is(f)
           g == [i \in 0 .. 4 |->
                    IF i = 0 THEN v0
                    ELSE IF i = 1 THEN v1
                    ELSE IF i = 2 THEN v2
                    ELSE IF i = 3 THEN v3
                    ELSE v4]
<1>1. Copy!Prepares(st, rules) = upTo[Len(CopyRules)]
    BY DEF Copy!Prepares
<1>2. /\ Len(CopyRules) = 4
      /\ CopyRules[1] = "input"
      /\ CopyRules[2] = "to socket"
      /\ CopyRules[3] = "from socket"
      /\ CopyRules[4] = "output"
    BY DEF CopyRules
<1> HIDE DEF v0, v1, v2, v3, v4, upTo
<1>3. /\ g[0] = v0 /\ g[1] = v1 /\ g[2] = v2 /\ g[3] = v3 /\ g[4] = v4
      /\ g = [i \in 0 .. 4 |-> g[i]]
    OBVIOUS
<1> HIDE DEF g
<1>4. /\ g[1] = Copy!LooksAt(g[0], CopyRules[1])
      /\ g[2] = Copy!LooksAt(g[1], CopyRules[2])
      /\ g[3] = Copy!LooksAt(g[2], CopyRules[3])
      /\ g[4] = Copy!LooksAt(g[3], CopyRules[4])
    BY <1>2, <1>3, Zenon DEF v1, v2, v3, v4
<1>5. \A i \in 0 .. 4 :
          \/ i = 0
          \/ i = 1 /\ i - 1 = 0
          \/ i = 2 /\ i - 1 = 1
          \/ i = 3 /\ i - 1 = 2
          \/ i = 4 /\ i - 1 = 3
    <2> HIDE DEF Is
    <2> QED
        OBVIOUS
<1>6. \A i \in 0 .. 4 :
          g[i] = IF i = 0 THEN v0
                 ELSE Copy!LooksAt(g[i - 1], CopyRules[i])
    BY <1>3, <1>4, <1>5
<1>7. Is(g)
    BY <1>2, <1>3, <1>6
<1>8. Is(upTo)
    BY <1>7 DEF upTo
<1>9. \A i \in 0 .. 4 :
          upTo[i] = IF i = 0 THEN v0
                 ELSE Copy!LooksAt(upTo[i - 1], CopyRules[i])
    BY <1>2, <1>8
<1> HIDE DEF Is
<1>10. /\ upTo[0] = v0
       /\ upTo[1] = Copy!LooksAt(upTo[1 - 1], CopyRules[1])
       /\ upTo[2] = Copy!LooksAt(upTo[2 - 1], CopyRules[2])
       /\ upTo[3] = Copy!LooksAt(upTo[3 - 1], CopyRules[3])
       /\ upTo[4] = Copy!LooksAt(upTo[4 - 1], CopyRules[4])
    BY <1>9
<1>11. 1 - 1 = 0 /\ 2 - 1 = 1 /\ 3 - 1 = 2 /\ 4 - 1 = 3
    OBVIOUS
<1>12. upTo[4] = v4
    BY <1>2, <1>10, <1>11, Zenon DEF v1, v2, v3, v4
<1> QED
    BY <1>1, <1>2, <1>12 DEF v0, v1, v2, v3, v4

\* What the loop behind poll carries before a rule is served.
Unserved(st, rules, again) ==
    [st |-> st, rules |-> rules, served |-> << >>, again |-> again, busy |-> FALSE]

\* What a turn of the loop behind poll makes of a rule, by the answer it got:
\* nothing, if the rule is gone or another one has been served,
LEMMA TurnPassesBy ==
    ASSUME NEW acc, NEW r, NEW asked, NEW rev,
           acc.served # << >> \/ r \notin acc.rules
    PROVE  Copy!Answers(acc, r, asked, rev) = acc
BY DEF Copy!Answers

\* or if poll had no answer for it,
LEMMA TurnWaits ==
    ASSUME NEW acc, NEW r, NEW asked, NEW rev, acc.served = << >>, r \in acc.rules,
           "ERR" \notin rev[r], ~Copy!Defunct(asked, rev, r),
           ~Copy!Ready(asked, rev, r)
    PROVE  Copy!Answers(acc, r, asked, rev) = acc
BY DEF Copy!Answers

\* the error and cancel callbacks,
LEMMA TurnFails ==
    ASSUME NEW st, NEW rules, NEW again, NEW r \in rules, NEW asked, NEW rev,
           "ERR" \in rev[r]
    PROVE  Copy!Answers(Unserved(st, rules, again), r, asked, rev) =
              Unserved(CopyCancel(CopyFail(st, r), r), rules \ {r}, again)
BY DEF Copy!Answers, Unserved

\* the cancel callback,
LEMMA TurnCancels ==
    ASSUME NEW st, NEW rules, NEW again, NEW r \in rules, NEW asked, NEW rev,
           "ERR" \notin rev[r], Copy!Defunct(asked, rev, r)
    PROVE  Copy!Answers(Unserved(st, rules, again), r, asked, rev) =
              Unserved(CopyCancel(st, r), rules \ {r}, again)
BY DEF Copy!Answers, Unserved

\* or its own callback.
LEMMA TurnServes ==
    ASSUME NEW st, NEW rules, NEW again, NEW r \in rules, NEW asked, NEW rev,
           "ERR" \notin rev[r], ~Copy!Defunct(asked, rev, r),
           Copy!Ready(asked, rev, r)
    PROVE  Copy!Answers(Unserved(st, rules, again), r, asked, rev) =
              LET s == CopyCallback(st, r)
                  more == ~CopyIsClosed(s, r) /\ CopyInterest(s, r)
              IN  [st |-> s, rules |-> rules, served |-> << r >>, again |-> more,
                   busy |-> more /\ ~CopyTouches(st, r)]
BY DEF Copy!Answers, Unserved

\* And so when poll has returned.
LEMMA CopyServesInTurn ==
    ASSUME NEW st, NEW rules, NEW asked, NEW rev
    PROVE  LET v0 == [st |-> st, rules |-> rules, served |-> << >>,
                      again |-> FALSE, busy |-> FALSE]
               v1 == Copy!Answers(v0, "input", asked, rev)
               v2 == Copy!Answers(v1, "to socket", asked, rev)
               v3 == Copy!Answers(v2, "from socket", asked, rev)
               v4 == Copy!Answers(v3, "output", asked, rev)
           IN  Copy!Serves(st, rules, asked, rev) = v4
<1> DEFINE v0 == [st |-> st, rules |-> rules, served |-> << >>,
                  again |-> FALSE, busy |-> FALSE]
           v1 == Copy!Answers(v0, "input", asked, rev)
           v2 == Copy!Answers(v1, "to socket", asked, rev)
           v3 == Copy!Answers(v2, "from socket", asked, rev)
           v4 == Copy!Answers(v3, "output", asked, rev)
           Is(f) == f = [i \in 0 .. Len(CopyRules) |->
                            IF i = 0 THEN v0
                            ELSE Copy!Answers(f[i - 1], CopyRules[i], asked, rev)]
           upTo == CHOOSE f : Is(f)
           g == [i \in 0 .. 4 |->
                    IF i = 0 THEN v0
                    ELSE IF i = 1 THEN v1
                    ELSE IF i = 2 THEN v2
                    ELSE IF i = 3 THEN v3
                    ELSE v4]
<1>1. Copy!Serves(st, rules, asked, rev) = upTo[Len(CopyRules)]
    BY DEF Copy!Serves
<1>2. /\ Len(CopyRules) = 4
      /\ CopyRules[1] = "input"
      /\ CopyRules[2] = "to socket"
      /\ CopyRules[3] = "from socket"
      /\ CopyRules[4] = "output"
    BY DEF CopyRules
<1> HIDE DEF v0, v1, v2, v3, v4, upTo
<1>3. /\ g[0] = v0 /\ g[1] = v1 /\ g[2] = v2 /\ g[3] = v3 /\ g[4] = v4
      /\ g = [i \in 0 .. 4 |-> g[i]]
    OBVIOUS
<1> HIDE DEF g
<1>4. /\ g[1] = Copy!Answers(g[0], CopyRules[1], asked, rev)
      /\ g[2] = Copy!Answers(g[1], CopyRules[2], asked, rev)
      /\ g[3] = Copy!Answers(g[2], CopyRules[3], asked, rev)
      /\ g[4] = Copy!Answers(g[3], CopyRules[4], asked, rev)
    BY <1>2, <1>3, Zenon DEF v1, v2, v3, v4
<1>5. \A i \in 0 .. 4 :
          \/ i = 0
          \/ i = 1 /\ i - 1 = 0
          \/ i = 2 /\ i - 1 = 1
          \/ i = 3 /\ i - 1 = 2
          \/ i = 4 /\ i - 1 = 3
    <2> HIDE DEF Is
    <2> QED
        OBVIOUS
<1>6. \A i \in 0 .. 4 :
          g[i] = IF i = 0 THEN v0
                 ELSE Copy!Answers(g[i - 1], CopyRules[i], asked, rev)
    BY <1>3, <1>4, <1>5
<1>7. Is(g)
    BY <1>2, <1>3, <1>6
<1>8. Is(upTo)
    BY <1>7 DEF upTo
<1>9. \A i \in 0 .. 4 :
          upTo[i] = IF i = 0 THEN v0
                 ELSE Copy!Answers(upTo[i - 1], CopyRules[i], asked, rev)
    BY <1>2, <1>8
<1> HIDE DEF Is
<1>10. /\ upTo[0] = v0
       /\ upTo[1] = Copy!Answers(upTo[1 - 1], CopyRules[1], asked, rev)
       /\ upTo[2] = Copy!Answers(upTo[2 - 1], CopyRules[2], asked, rev)
       /\ upTo[3] = Copy!Answers(upTo[3 - 1], CopyRules[3], asked, rev)
       /\ upTo[4] = Copy!Answers(upTo[4 - 1], CopyRules[4], asked, rev)
    BY <1>9
<1>11. 1 - 1 = 0 /\ 2 - 1 = 1 /\ 3 - 1 = 2 /\ 4 - 1 = 3
    OBVIOUS
<1>12. upTo[4] = v4
    BY <1>2, <1>10, <1>11, Zenon DEF v1, v2, v3, v4
<1> QED
    BY <1>1, <1>2, <1>12 DEF v0, v1, v2, v3, v4

\* The socket's thread has three.
LEMMA ThreadPreparesInTurn ==
    ASSUME NEW st, NEW rules
    PROVE  LET v0 == [st |-> st, rules |-> rules, asked |-> {}]
               v1 == Thread!LooksAt(v0, "segment")
               v2 == Thread!LooksAt(v1, "push bytes")
               v3 == Thread!LooksAt(v2, "inbound")
           IN  Thread!Prepares(st, rules) = v3
<1> DEFINE v0 == [st |-> st, rules |-> rules, asked |-> {}]
           v1 == Thread!LooksAt(v0, "segment")
           v2 == Thread!LooksAt(v1, "push bytes")
           v3 == Thread!LooksAt(v2, "inbound")
           Is(f) == f = [i \in 0 .. Len(ThreadRules) |->
                            IF i = 0 THEN v0
                            ELSE Thread!LooksAt(f[i - 1], ThreadRules[i])]
           upTo == CHOOSE f : Is(f)
           g == [i \in 0 .. 3 |->
                    IF i = 0 THEN v0
                    ELSE IF i = 1 THEN v1
                    ELSE IF i = 2 THEN v2
                    ELSE v3]
<1>1. Thread!Prepares(st, rules) = upTo[Len(ThreadRules)]
    BY DEF Thread!Prepares
<1>2. /\ Len(ThreadRules) = 3
      /\ ThreadRules[1] = "segment"
      /\ ThreadRules[2] = "push bytes"
      /\ ThreadRules[3] = "inbound"
    BY DEF ThreadRules
<1> HIDE DEF v0, v1, v2, v3, upTo
<1>3. /\ g[0] = v0 /\ g[1] = v1 /\ g[2] = v2 /\ g[3] = v3
      /\ g = [i \in 0 .. 3 |-> g[i]]
    OBVIOUS
<1> HIDE DEF g
<1>4. /\ g[1] = Thread!LooksAt(g[0], ThreadRules[1])
      /\ g[2] = Thread!LooksAt(g[1], ThreadRules[2])
      /\ g[3] = Thread!LooksAt(g[2], ThreadRules[3])
    BY <1>2, <1>3, Zenon DEF v1, v2, v3
<1>5. \A i \in 0 .. 3 :
          \/ i = 0
          \/ i = 1 /\ i - 1 = 0
          \/ i = 2 /\ i - 1 = 1
          \/ i = 3 /\ i - 1 = 2
    <2> HIDE DEF Is
    <2> QED
        OBVIOUS
<1>6. \A i \in 0 .. 3 :
          g[i] = IF i = 0 THEN v0
                 ELSE Thread!LooksAt(g[i - 1], ThreadRules[i])
    BY <1>3, <1>4, <1>5
<1>7. Is(g)
    BY <1>2, <1>3, <1>6
<1>8. Is(upTo)
    BY <1>7 DEF upTo
<1>9. \A i \in 0 .. 3 :
          upTo[i] = IF i = 0 THEN v0
                 ELSE Thread!LooksAt(upTo[i - 1], ThreadRules[i])
    BY <1>2, <1>8
<1> HIDE DEF Is
<1>10. /\ upTo[0] = v0
       /\ upTo[1] = Thread!LooksAt(upTo[1 - 1], ThreadRules[1])
       /\ upTo[2] = Thread!LooksAt(upTo[2 - 1], ThreadRules[2])
       /\ upTo[3] = Thread!LooksAt(upTo[3 - 1], ThreadRules[3])
    BY <1>9
<1>11. 1 - 1 = 0 /\ 2 - 1 = 1 /\ 3 - 1 = 2
    OBVIOUS
<1>12. upTo[3] = v3
    BY <1>2, <1>10, <1>11, Zenon DEF v1, v2, v3
<1> QED
    BY <1>1, <1>2, <1>12 DEF v0, v1, v2, v3

\* And so when poll has returned.
LEMMA ThreadServesInTurn ==
    ASSUME NEW st, NEW rules, NEW asked, NEW rev
    PROVE  LET v0 == [st |-> st, rules |-> rules, served |-> << >>,
                      again |-> FALSE, busy |-> FALSE]
               v1 == Thread!Answers(v0, "segment", asked, rev)
               v2 == Thread!Answers(v1, "push bytes", asked, rev)
               v3 == Thread!Answers(v2, "inbound", asked, rev)
           IN  Thread!Serves(st, rules, asked, rev) = v3
<1> DEFINE v0 == [st |-> st, rules |-> rules, served |-> << >>,
                  again |-> FALSE, busy |-> FALSE]
           v1 == Thread!Answers(v0, "segment", asked, rev)
           v2 == Thread!Answers(v1, "push bytes", asked, rev)
           v3 == Thread!Answers(v2, "inbound", asked, rev)
           Is(f) == f = [i \in 0 .. Len(ThreadRules) |->
                            IF i = 0 THEN v0
                            ELSE Thread!Answers(f[i - 1], ThreadRules[i], asked, rev)]
           upTo == CHOOSE f : Is(f)
           g == [i \in 0 .. 3 |->
                    IF i = 0 THEN v0
                    ELSE IF i = 1 THEN v1
                    ELSE IF i = 2 THEN v2
                    ELSE v3]
<1>1. Thread!Serves(st, rules, asked, rev) = upTo[Len(ThreadRules)]
    BY DEF Thread!Serves
<1>2. /\ Len(ThreadRules) = 3
      /\ ThreadRules[1] = "segment"
      /\ ThreadRules[2] = "push bytes"
      /\ ThreadRules[3] = "inbound"
    BY DEF ThreadRules
<1> HIDE DEF v0, v1, v2, v3, upTo
<1>3. /\ g[0] = v0 /\ g[1] = v1 /\ g[2] = v2 /\ g[3] = v3
      /\ g = [i \in 0 .. 3 |-> g[i]]
    OBVIOUS
<1> HIDE DEF g
<1>4. /\ g[1] = Thread!Answers(g[0], ThreadRules[1], asked, rev)
      /\ g[2] = Thread!Answers(g[1], ThreadRules[2], asked, rev)
      /\ g[3] = Thread!Answers(g[2], ThreadRules[3], asked, rev)
    BY <1>2, <1>3, Zenon DEF v1, v2, v3
<1>5. \A i \in 0 .. 3 :
          \/ i = 0
          \/ i = 1 /\ i - 1 = 0
          \/ i = 2 /\ i - 1 = 1
          \/ i = 3 /\ i - 1 = 2
    <2> HIDE DEF Is
    <2> QED
        OBVIOUS
<1>6. \A i \in 0 .. 3 :
          g[i] = IF i = 0 THEN v0
                 ELSE Thread!Answers(g[i - 1], ThreadRules[i], asked, rev)
    BY <1>3, <1>4, <1>5
<1>7. Is(g)
    BY <1>2, <1>3, <1>6
<1>8. Is(upTo)
    BY <1>7 DEF upTo
<1>9. \A i \in 0 .. 3 :
          upTo[i] = IF i = 0 THEN v0
                 ELSE Thread!Answers(upTo[i - 1], ThreadRules[i], asked, rev)
    BY <1>2, <1>8
<1> HIDE DEF Is
<1>10. /\ upTo[0] = v0
       /\ upTo[1] = Thread!Answers(upTo[1 - 1], ThreadRules[1], asked, rev)
       /\ upTo[2] = Thread!Answers(upTo[2 - 1], ThreadRules[2], asked, rev)
       /\ upTo[3] = Thread!Answers(upTo[3 - 1], ThreadRules[3], asked, rev)
    BY <1>9
<1>11. 1 - 1 = 0 /\ 2 - 1 = 1 /\ 3 - 1 = 2
    OBVIOUS
<1>12. upTo[3] = v3
    BY <1>2, <1>10, <1>11, Zenon DEF v1, v2, v3
<1> QED
    BY <1>1, <1>2, <1>12 DEF v0, v1, v2, v3

-----------------------------------------------------------------------------
(***************************************************************************)
(* The steps of the main thread, whatever its callbacks and cancels do.    *)
(***************************************************************************)
Keeps(ch, d) == d.cap = ch.cap /\ d.gone = ch.gone /\ (ch.shut => d.shut)

\* From kk and c to kk2 and c2: no byte is lost or overtaken, no mark is taken
\* back, what the other thread's poll has found remains so, and nothing fails
\* that had not.
CopyMoves(kk, c, kk2, c2) ==
    /\ KernelFits(kk2) /\ CopyFits(c2)
    /\ kk2.partner = kk.partner
    /\ (kk2.up.buf \o c2.out.buf) \o kk2.stdin.buf
          = (kk.up.buf \o c.out.buf) \o kk.stdin.buf
    /\ (kk2.stdout.buf \o c2.in.buf) \o kk2.down.buf
          = (kk.stdout.buf \o c.in.buf) \o kk.down.buf
    /\ Keeps(kk.stdin, kk2.stdin) /\ Keeps(kk.stdout, kk2.stdout)
    /\ Keeps(kk.up, kk2.up) /\ Keeps(kk.down, kk2.down)
    /\ kk2.stdin.shut = kk.stdin.shut
    /\ kk.stdout.shut => kk2.stdout.buf = kk.stdout.buf
    /\ Readable(kk.up) => Readable(kk2.up)
    /\ Len(kk2.down.buf) <= Len(kk.down.buf)
    /\ c.out.closed => c2.out.closed
    /\ c.in.closed => c2.in.closed
    /\ c.inShut => c2.inShut

CopyGoes(kk, c, kk2, c2) ==
    /\ CopyMoves(kk, c, kk2, c2)
    /\ \A t : Good(kk, c, t) => Good(kk2, c2, t)

\* No step is a step of the main thread.
LEMMA CopyGoesNowhere ==
    ASSUME NEW kk, KernelFits(kk), NEW c, CopyFits(c)
    PROVE  CopyGoes(kk, c, kk, c)
BY LenProperties DEF CopyGoes, CopyMoves, Keeps, KernelFits, Channel

\* Two steps of the main thread are one.
LEMMA CopyGoesFurther ==
    ASSUME NEW k1, NEW c1, NEW k2, NEW c2, NEW k3, NEW c3, KernelFits(k1),
           CopyGoes(k1, c1, k2, c2), CopyGoes(k2, c2, k3, c3)
    PROVE  CopyGoes(k1, c1, k3, c3)
<1>1. /\ Len(k1.down.buf) \in Nat /\ Len(k2.down.buf) \in Nat
      /\ Len(k3.down.buf) \in Nat
    BY LenProperties DEF CopyGoes, CopyMoves, KernelFits, ChannelFits, Channel
<1>2. Len(k3.down.buf) <= Len(k1.down.buf)
    <2>1. Len(k2.down.buf) <= Len(k1.down.buf) /\ Len(k3.down.buf) <= Len(k2.down.buf)
        BY Zenon DEF CopyGoes, CopyMoves
    <2> QED
        BY <1>1, <2>1
<1>3. \A t : Good(k1, c1, t) => Good(k3, c3, t)
    BY DEF CopyGoes, CopyMoves
<1>4. /\ KernelFits(k3) /\ CopyFits(c3) /\ k3.partner = k1.partner
      /\ (k3.up.buf \o c3.out.buf) \o k3.stdin.buf
            = (k1.up.buf \o c1.out.buf) \o k1.stdin.buf
      /\ (k3.stdout.buf \o c3.in.buf) \o k3.down.buf
            = (k1.stdout.buf \o c1.in.buf) \o k1.down.buf
    BY Zenon DEF CopyGoes, CopyMoves
<1>5. /\ Keeps(k1.stdin, k3.stdin) /\ Keeps(k1.stdout, k3.stdout)
      /\ Keeps(k1.up, k3.up) /\ Keeps(k1.down, k3.down)
      /\ k3.stdin.shut = k1.stdin.shut
      /\ k1.stdout.shut => k3.stdout.buf = k1.stdout.buf
      /\ Readable(k1.up) => Readable(k3.up)
      /\ c1.out.closed => c3.out.closed
      /\ c1.in.closed => c3.in.closed
      /\ c1.inShut => c3.inShut
    BY ZenonT(30) DEF CopyGoes, CopyMoves, Keeps
<1> QED
    BY <1>2, <1>3, <1>4, <1>5 DEF CopyGoes, CopyMoves

\* The rule "input": standard input to _outbound.
LEMMA InputGoes ==
    ASSUME NEW kk, KernelFits(kk), NEW c, CopyFits(c), ~c.out.closed
    PROVE  LET s == FromInput([k |-> kk, m |-> c]) IN
           s = [k |-> s.k, m |-> s.m] /\ CopyGoes(kk, c, s.k, s.m)
<1> DEFINE o == c.out
           ch == kk.stdin
           g == Fill(o, ch).stream
           d == Fill(o, ch).channel
           b == c.inputEof \/ ReadsEof(kk.stdin)
           kk2 == [kk EXCEPT !.stdin = d]
           c2 == [c EXCEPT !.out = g, !.inputEof = b]
<1>1. FromInput([k |-> kk, m |-> c]) = [k |-> kk2, m |-> c2]
    BY DEF FromInput
<1>2. StreamFits(o) /\ ChannelFits(ch) /\ ~o.closed
    BY DEF CopyFits, KernelFits
<1>3. Filled(o, ch, g, d)
    BY <1>2, Fills
<1>4. b \in BOOLEAN /\ (b => g.closed)
    BY <1>3 DEF CopyFits, ReadsEof, Filled
<1> HIDE DEF g, d, b
<1>5. /\ KernelFits(kk2) /\ kk2.stdin = d /\ kk2.stdout = kk.stdout
      /\ kk2.up = kk.up /\ kk2.down = kk.down /\ kk2.partner = kk.partner
    BY <1>3 DEF KernelFits, ChannelFits, Filled
<1>6. /\ CopyFits(c2) /\ c2.out = g /\ c2.in = c.in /\ c2.outShut = c.outShut
      /\ c2.inShut = c.inShut
    BY <1>3, <1>4 DEF CopyFits, StreamFits, Filled
<1> HIDE DEF kk2, c2
<1>7. (kk2.up.buf \o c2.out.buf) \o kk2.stdin.buf
          = (kk.up.buf \o c.out.buf) \o kk.stdin.buf
    <2>1. /\ kk.up.buf \in Seq(Nat) /\ g.buf \in Seq(Nat) /\ d.buf \in Seq(Nat)
          /\ c.out.buf \in Seq(Nat) /\ kk.stdin.buf \in Seq(Nat)
        BY <1>2, <1>3 DEF KernelFits, ChannelFits, StreamFits, Channel, Stream, Filled
    <2>2. (kk.up.buf \o g.buf) \o d.buf = kk.up.buf \o (g.buf \o d.buf)
        BY ZenonT(30), <2>1, Joined
    <2>3. (kk.up.buf \o o.buf) \o ch.buf = kk.up.buf \o (o.buf \o ch.buf)
        BY ZenonT(30), <2>1, Joined
    <2> QED
        BY <1>3, <1>5, <1>6, <2>2, <2>3, Zenon DEF Filled
<1>8. ASSUME NEW t, Good(kk, c, t) PROVE Good(kk2, c2, t)
    <2>1. Calm(kk2, c2, t)
        BY <1>3, <1>5, <1>6, <1>8 DEF Good, Calm, Filled
    <2>2. UpEnds(kk2, c2, t)
        BY <1>3, <1>5, <1>6, <1>8 DEF Good, UpEnds, Finished, Filled
    <2>3. DownEnds(kk2, c2, t)
        BY <1>5, <1>6, <1>8 DEF Good, DownEnds
    <2> QED
        BY <2>1, <2>2, <2>3 DEF Good
<1>9. CopyGoes(kk, c, kk2, c2)
    <2>1. Len(kk.down.buf) \in Nat
        BY LenProperties DEF KernelFits, Channel
    <2> QED
        BY <1>3, <1>5, <1>6, <1>7, <1>8, <2>1 DEF CopyGoes, CopyMoves, Keeps, Filled
<1> QED
    BY <1>1, <1>9

\* The rule "from socket": the socket to _inbound.
LEMMA SocketReadGoes ==
    ASSUME NEW kk, KernelFits(kk), NEW c, CopyFits(c), ~c.in.closed
    PROVE  LET s == FromSocket([k |-> kk, m |-> c]) IN
           s = [k |-> s.k, m |-> s.m] /\ CopyGoes(kk, c, s.k, s.m)
<1> DEFINE o == c.in
           ch == kk.down
           g == Fill(o, ch).stream
           d == Fill(o, ch).channel
           b == c.sockEof \/ ReadsEof(kk.down)
           kk2 == [kk EXCEPT !.down = d]
           c2 == [c EXCEPT !.in = g, !.sockEof = b]
<1>1. FromSocket([k |-> kk, m |-> c]) = [k |-> kk2, m |-> c2]
    BY DEF FromSocket
<1>2. StreamFits(o) /\ ChannelFits(ch) /\ ~o.closed
    BY DEF CopyFits, KernelFits
<1>3. Filled(o, ch, g, d)
    BY <1>2, Fills
<1>4. b \in BOOLEAN /\ (b => g.closed)
    BY <1>3 DEF CopyFits, ReadsEof, Filled
<1> HIDE DEF g, d, b
<1>5. /\ KernelFits(kk2) /\ kk2.stdin = kk.stdin /\ kk2.stdout = kk.stdout
      /\ kk2.up = kk.up /\ kk2.down = d /\ kk2.partner = kk.partner
    BY <1>3 DEF KernelFits, ChannelFits, Filled
<1>6. /\ CopyFits(c2) /\ c2.out = c.out /\ c2.in = g /\ c2.outShut = c.outShut
      /\ c2.inShut = c.inShut
    BY <1>3, <1>4 DEF CopyFits, StreamFits, Filled
<1> HIDE DEF kk2, c2
<1>7. (kk2.stdout.buf \o c2.in.buf) \o kk2.down.buf
          = (kk.stdout.buf \o c.in.buf) \o kk.down.buf
    <2>1. /\ kk.stdout.buf \in Seq(Nat) /\ g.buf \in Seq(Nat) /\ d.buf \in Seq(Nat)
          /\ c.in.buf \in Seq(Nat) /\ kk.down.buf \in Seq(Nat)
        BY <1>2, <1>3 DEF KernelFits, ChannelFits, StreamFits, Channel, Stream, Filled
    <2>2. (kk.stdout.buf \o g.buf) \o d.buf = kk.stdout.buf \o (g.buf \o d.buf)
        BY ZenonT(30), <2>1, Joined
    <2>3. (kk.stdout.buf \o o.buf) \o ch.buf = kk.stdout.buf \o (o.buf \o ch.buf)
        BY ZenonT(30), <2>1, Joined
    <2> QED
        BY <1>3, <1>5, <1>6, <2>2, <2>3, Zenon DEF Filled
<1>8. ASSUME NEW t, Good(kk, c, t) PROVE Good(kk2, c2, t)
    <2>1. Calm(kk2, c2, t)
        BY <1>3, <1>5, <1>6, <1>8 DEF Good, Calm, Filled
    <2>2. UpEnds(kk2, c2, t)
        BY <1>5, <1>6, <1>8 DEF Good, UpEnds
    <2>3. DownEnds(kk2, c2, t)
        BY <1>3, <1>5, <1>6, <1>8 DEF Good, DownEnds, Finished, Filled
    <2> QED
        BY <2>1, <2>2, <2>3 DEF Good
<1>9. CopyGoes(kk, c, kk2, c2)
    BY <1>3, <1>5, <1>6, <1>7, <1>8 DEF CopyGoes, CopyMoves, Keeps, Filled
<1> QED
    BY <1>1, <1>9

\* The rule "to socket": _outbound to the socket.
LEMMA SocketWriteGoes ==
    ASSUME NEW kk, KernelFits(kk), NEW c, CopyFits(c), Space(kk.up) > 0
    PROVE  LET s == ToSocket([k |-> kk, m |-> c]) IN
           s = [k |-> s.k, m |-> s.m] /\ CopyGoes(kk, c, s.k, s.m)
<1> DEFINE o == c.out
           ch == kk.up
           g == Drain(o, ch).stream
           d == Drain(o, ch).channel
           b == c.outShut \/ Finished(g)
           e == IF Finished(g) THEN Shutdown(d) ELSE d
           kk2 == [kk EXCEPT !.up = e]
           c2 == [c EXCEPT !.out = g, !.outShut = b]
<1>1. ToSocket([k |-> kk, m |-> c]) = [k |-> kk2, m |-> c2]
    BY DEF ToSocket
<1>2. StreamFits(o) /\ ChannelFits(ch)
    BY DEF CopyFits, KernelFits
<1>3. Drained(o, ch, g, d)
    BY <1>2, Drains
<1> HIDE DEF g, d
<1>4. b \in BOOLEAN
    BY DEF CopyFits, Finished
<1>5. /\ ChannelFits(e) /\ e.buf = d.buf /\ e.cap = d.cap /\ e.gone = d.gone
      /\ e.broken = d.broken /\ (d.shut => e.shut) /\ (e.shut => d.shut \/ Finished(g))
      /\ (Finished(g) => e.shut)
    BY <1>3, Shuts DEF Drained
<1> HIDE DEF e, b
<1>6. /\ KernelFits(kk2) /\ kk2.stdin = kk.stdin /\ kk2.stdout = kk.stdout
      /\ kk2.up = e /\ kk2.down = kk.down /\ kk2.partner = kk.partner
    BY <1>5 DEF KernelFits, ChannelFits
<1>7. /\ CopyFits(c2) /\ c2.out = g /\ c2.in = c.in /\ c2.outShut = b
      /\ c2.inShut = c.inShut
    BY <1>3, <1>4 DEF CopyFits, StreamFits, Drained
<1> HIDE DEF kk2, c2
<1>8. (kk2.up.buf \o c2.out.buf) \o kk2.stdin.buf
          = (kk.up.buf \o c.out.buf) \o kk.stdin.buf
    BY <1>3, <1>5, <1>6, <1>7, Zenon DEF Drained
<1>9. ASSUME NEW t, Good(kk, c, t) PROVE Good(kk2, c2, t)
    <2>1. ch.shut => o.closed /\ o.buf = << >> /\ g = o /\ d = ch
        BY <1>3, <1>9 DEF Good, UpEnds, Finished, Drained
    <2>2. d.broken = ch.broken
        BY <1>3, <1>9, <2>1 DEF Good, Calm, Deaf, Drained
    <2>3. Calm(kk2, c2, t)
        BY <1>3, <1>5, <1>6, <1>7, <1>9, <2>2 DEF Good, Calm, Drained
    <2>4. UpEnds(kk2, c2, t)
        BY <1>3, <1>5, <1>6, <1>7, <1>9, <2>1 DEF Good, UpEnds, Finished, b, Drained
    <2>5. DownEnds(kk2, c2, t)
        BY <1>6, <1>7, <1>9 DEF Good, DownEnds
    <2> QED
        BY <2>3, <2>4, <2>5 DEF Good
<1>10. Readable(kk.up) => Readable(kk2.up)
    <2>1. ch.buf \in Seq(Nat) /\ d.buf \in Seq(Nat)
        BY <1>2, <1>3 DEF ChannelFits, Channel, Drained
    <2>2. ch.buf # << >> => d.buf # << >>
        BY <1>3, <2>1, EmptySeq, LenProperties DEF Drained
    <2> QED
        BY <1>5, <1>6, <2>2 DEF Readable
<1>11. CopyGoes(kk, c, kk2, c2)
    <2>1. Len(kk.down.buf) <= Len(kk.down.buf)
        BY LenProperties DEF KernelFits, Channel
    <2> QED
        BY <1>3, <1>5, <1>6, <1>7, <1>8, <1>9, <1>10, <2>1
           DEF CopyGoes, CopyMoves, Keeps, Drained
<1> QED
    BY <1>1, <1>11

\* The rule "output": _inbound to standard output.
LEMMA OutputGoes ==
    ASSUME NEW kk, KernelFits(kk), NEW c, CopyFits(c), Space(kk.stdout) > 0
    PROVE  LET s == ToOutput([k |-> kk, m |-> c]) IN
           s = [k |-> s.k, m |-> s.m] /\ CopyGoes(kk, c, s.k, s.m)
<1> DEFINE o == c.in
           ch == kk.stdout
           g == Drain(o, ch).stream
           d == Drain(o, ch).channel
           b == c.inShut \/ Finished(g)
           e == IF Finished(g) THEN Shutdown(d) ELSE d
           kk2 == [kk EXCEPT !.stdout = e]
           c2 == [c EXCEPT !.in = g, !.inShut = b]
<1>1. ToOutput([k |-> kk, m |-> c]) = [k |-> kk2, m |-> c2]
    BY DEF ToOutput
<1>2. StreamFits(o) /\ ChannelFits(ch)
    BY DEF CopyFits, KernelFits
<1>3. Drained(o, ch, g, d)
    BY <1>2, Drains
<1> HIDE DEF g, d
<1>4. b \in BOOLEAN /\ (b => g.closed)
    BY <1>3 DEF CopyFits, Finished, Drained
<1>5. /\ ChannelFits(e) /\ e.buf = d.buf /\ e.cap = d.cap /\ e.gone = d.gone
      /\ e.broken = d.broken /\ (d.shut => e.shut) /\ (e.shut => d.shut \/ Finished(g))
      /\ (Finished(g) => e.shut)
    BY <1>3, Shuts DEF Drained
<1> HIDE DEF e, b
<1>6. /\ KernelFits(kk2) /\ kk2.stdin = kk.stdin /\ kk2.stdout = e
      /\ kk2.up = kk.up /\ kk2.down = kk.down /\ kk2.partner = kk.partner
    BY <1>5 DEF KernelFits, ChannelFits
<1>7. /\ CopyFits(c2) /\ c2.out = c.out /\ c2.in = g /\ c2.outShut = c.outShut
      /\ c2.inShut = b
    BY <1>3, <1>4 DEF CopyFits, StreamFits, Drained
<1> HIDE DEF kk2, c2
<1>8. (kk2.stdout.buf \o c2.in.buf) \o kk2.down.buf
          = (kk.stdout.buf \o c.in.buf) \o kk.down.buf
    BY <1>3, <1>5, <1>6, <1>7, Zenon DEF Drained
<1>9. ASSUME NEW t, Good(kk, c, t) PROVE Good(kk2, c2, t)
    <2>1. ch.shut => o.closed /\ o.buf = << >> /\ g = o /\ d = ch
        BY <1>3, <1>9 DEF Good, DownEnds, Finished, Drained
    <2>2. d.broken = ch.broken
        BY <1>3, <1>9, <2>1 DEF Good, Calm, Deaf, Drained
    <2>3. Calm(kk2, c2, t)
        BY <1>3, <1>5, <1>6, <1>7, <1>9, <2>2 DEF Good, Calm, Drained
    <2>4. UpEnds(kk2, c2, t)
        BY <1>6, <1>7, <1>9 DEF Good, UpEnds
    <2>5. DownEnds(kk2, c2, t)
        BY <1>3, <1>5, <1>6, <1>7, <1>9, <2>1 DEF Good, DownEnds, Finished, b, Drained
    <2> QED
        BY <2>3, <2>4, <2>5 DEF Good
<1>10. CopyGoes(kk, c, kk2, c2)
    <2>1. Len(kk.down.buf) <= Len(kk.down.buf)
        BY LenProperties DEF KernelFits, Channel
    <2> QED
        BY <1>3, <1>4, <1>5, <1>6, <1>7, <1>8, <1>9, <2>1
           DEF CopyGoes, CopyMoves, Keeps, Drained, b
<1> QED
    BY <1>1, <1>10

\* The two rules that are cancelled by a hangup close the outbound stream, when
\* no more comes to it, or when it has been written and shut down.
LEMMA ClosingGoes ==
    ASSUME NEW kk, KernelFits(kk), NEW c, CopyFits(c),
           (kk.stdin.shut /\ kk.stdin.buf = << >>) \/ kk.up.shut
    PROVE  CopyGoes(kk, c, kk, [c EXCEPT !.out = Close(c.out)])
<1> DEFINE g == Close(c.out)
           c2 == [c EXCEPT !.out = g]
<1>1. /\ StreamFits(g) /\ g.closed /\ g.buf = c.out.buf /\ g.cap = c.out.cap
      /\ g.error = c.out.error /\ (c.out.closed => g = c.out)
    BY Marks DEF CopyFits
<1> HIDE DEF g
<1>2. /\ CopyFits(c2) /\ c2.out = g /\ c2.in = c.in /\ c2.outShut = c.outShut
      /\ c2.inShut = c.inShut
    BY <1>1 DEF CopyFits, StreamFits
<1> HIDE DEF c2
<1>3. ASSUME NEW t, Good(kk, c, t) PROVE Good(kk, c2, t)
    <2>1. kk.stdin.shut /\ kk.stdin.buf = << >>
        BY <1>3 DEF Good, UpEnds, Finished
    <2>2. Calm(kk, c2, t) /\ DownEnds(kk, c2, t)
        BY <1>1, <1>2, <1>3 DEF Good, Calm, DownEnds
    <2>3. UpEnds(kk, c2, t)
        BY <1>1, <1>2, <1>3, <2>1 DEF Good, UpEnds, Finished
    <2> QED
        BY <2>2, <2>3 DEF Good
<1>4. CopyGoes(kk, c, kk, c2)
    <2>1. Len(kk.down.buf) <= Len(kk.down.buf)
        BY LenProperties DEF KernelFits, Channel
    <2> QED
        BY <1>1, <1>2, <1>3, <2>1 DEF CopyGoes, CopyMoves, Keeps
<1> QED
    BY <1>4 DEF c2, g

\* Standard output has gone: both streams are in error, and one is closed.
LEMMA FailureGoes ==
    ASSUME NEW kk, KernelFits(kk), NEW c, CopyFits(c), kk.stdout.gone
    PROVE  LET s == CopyCancel(CopyFail([k |-> kk, m |-> c], "output"), "output") IN
           s = [k |-> kk, m |-> s.m] /\ CopyGoes(kk, c, kk, s.m)
<1> DEFINE g == SetError(c.out)
           h == Close(SetError(c.in))
           c2 == [c EXCEPT !.out = g, !.in = h]
<1>1. CopyCancel(CopyFail([k |-> kk, m |-> c], "output"), "output")
          = [k |-> kk, m |-> c2]
    BY DEF CopyCancel, CopyFail
<1>2. /\ StreamFits(g) /\ StreamFits(h) /\ h.closed /\ g.closed = c.out.closed
      /\ g.buf = c.out.buf /\ h.buf = c.in.buf
      /\ g.cap = c.out.cap /\ h.cap = c.in.cap
    BY Marks DEF CopyFits
<1> HIDE DEF g, h
<1>3. /\ CopyFits(c2) /\ c2.out = g /\ c2.in = h /\ c2.outShut = c.outShut
      /\ c2.inShut = c.inShut
    BY <1>2 DEF CopyFits, StreamFits
<1> HIDE DEF c2
<1>4. ASSUME NEW t, Good(kk, c, t) PROVE FALSE
    BY <1>4 DEF Good, Calm
<1>5. CopyGoes(kk, c, kk, c2)
    <2>1. Len(kk.down.buf) <= Len(kk.down.buf)
        BY LenProperties DEF KernelFits, Channel
    <2> QED
        BY <1>2, <1>3, <1>4, <2>1 DEF CopyGoes, CopyMoves, Keeps
<1> QED
    BY <1>1, <1>5

-----------------------------------------------------------------------------
(***************************************************************************)
(* A call of the main thread's wait_next_event.                            *)
(***************************************************************************)
\* Rules are erased when their end is reached; the streams are closed by then,
\* so that cancelling the rule changes nothing.
CopyEnded(c, r) ==
    \/ r = "input" /\ c.inputEof
    \/ r = "from socket" /\ c.sockEof
    \/ r = "output" /\ c.inShut

CopyLooked(kk, c, rules, D, v) ==
    v = [st    |-> [k |-> kk, m |-> c],
         rules |-> rules \ {r \in D : CopyEnded(c, r)},
         asked |-> {r \in rules \cap D : /\ ~CopyEnded(c, r)
                                         /\ CopyInterest([k |-> kk, m |-> c], r)}]

\* One turn of the loop before poll: the rule is erased, asked about or left.
LEMMA CopyLooks ==
    ASSUME NEW kk, NEW c, CopyFits(c), NEW rules, NEW D, NEW v,
           CopyLooked(kk, c, rules, D, v),
           NEW r \in CopyRuleSet \ D
    PROVE  CopyLooked(kk, c, rules, D \cup {r}, Copy!LooksAt(v, r))
<1> DEFINE st == [k |-> kk, m |-> c]
           R == rules \ {x \in D : CopyEnded(c, x)}
           A == {x \in rules \cap D : ~CopyEnded(c, x) /\ CopyInterest(st, x)}
           i == CopyInterest(st, r)
           e == CopyEnded(c, r)
           w == Copy!LooksAt(v, r)
<1>1. v = [st |-> st, rules |-> R, asked |-> A]
    BY DEF CopyLooked
<1>2. r \in R <=> r \in rules
    OBVIOUS
<1>3. ((CopyReads(r) /\ CopyAtEof(st, r)) \/ CopyIsClosed(st, r)) <=> e
    BY DEF CopyReads, CopyAtEof, CopyIsClosed, CopyEnded, CopyRuleSet
<1>4. e => CopyCancel(st, r) = st
    <2>1. CASE r \in {"input", "to socket"}
        <3>1. e => Close(c.out) = c.out
            BY <2>1, Marks DEF CopyFits, CopyEnded
        <3>2. CopyCancel(st, r) = [k |-> kk, m |-> [c EXCEPT !.out = Close(c.out)]]
            BY <2>1 DEF CopyCancel
        <3>3. [c EXCEPT !.out = c.out] = c
            BY DEF CopyFits
        <3> QED
            BY <3>1, <3>2, <3>3
    <2>2. CASE r \notin {"input", "to socket"}
        <3>1. e => Close(c.in) = c.in
            BY <2>2, Marks DEF CopyFits, CopyEnded
        <3>2. CopyCancel(st, r) = [k |-> kk, m |-> [c EXCEPT !.in = Close(c.in)]]
            BY <2>2 DEF CopyCancel
        <3>3. [c EXCEPT !.in = c.in] = c
            BY DEF CopyFits
        <3> QED
            BY <3>1, <3>2, <3>3
    <2> QED
        BY <2>1, <2>2
<1>5. w = IF r \notin v.rules THEN v
          ELSE IF e THEN [v EXCEPT !.st = CopyCancel(v.st, r), !.rules = v.rules \ {r}]
          ELSE IF i THEN [v EXCEPT !.asked = v.asked \cup {r}]
          ELSE v
    BY <1>1, <1>3 DEF Copy!LooksAt
<1>6. rules \ {x \in D \cup {r} : CopyEnded(c, x)} = IF e THEN R \ {r} ELSE R
    OBVIOUS
<1>7. {x \in rules \cap (D \cup {r}) : ~CopyEnded(c, x) /\ CopyInterest(st, x)}
          = IF r \in rules /\ ~e /\ i THEN A \cup {r} ELSE A
    <2> HIDE DEF st
    <2> QED
        OBVIOUS
<1> HIDE DEF st, A, R, e, i, w
<1>8. w = [st |-> st, rules |-> IF e THEN R \ {r} ELSE R,
           asked |-> IF r \in rules /\ ~e /\ i THEN A \cup {r} ELSE A]
    <2>1. r \notin R => (IF e THEN R \ {r} ELSE R) = R
        OBVIOUS
    <2>2. CASE r \notin R
        BY <1>1, <1>2, <1>5, <2>1, <2>2
    <2>3. CASE r \in R /\ e
        BY <1>1, <1>2, <1>4, <1>5, <2>3
    <2>4. CASE r \in R /\ ~e
        BY <1>1, <1>2, <1>5, <2>4
    <2> QED
        BY <2>2, <2>3, <2>4
<1> QED
    BY <1>6, <1>7, <1>8 DEF CopyLooked, w, st

\* The loop before poll has looked at every rule.
LEMMA CopyPreparesEnds ==
    ASSUME NEW kk, NEW c, CopyFits(c), NEW rules, rules \subseteq CopyRuleSet
    PROVE  CopyLooked(kk, c, rules, CopyRuleSet,
                      Copy!Prepares([k |-> kk, m |-> c], rules))
<1> DEFINE st == [k |-> kk, m |-> c]
           v0 == [st |-> st, rules |-> rules, asked |-> {}]
           v1 == Copy!LooksAt(v0, "input")
           v2 == Copy!LooksAt(v1, "to socket")
           v3 == Copy!LooksAt(v2, "from socket")
           v4 == Copy!LooksAt(v3, "output")
           D1 == {} \cup {"input"}
           D2 == D1 \cup {"to socket"}
           D3 == D2 \cup {"from socket"}
           D4 == D3 \cup {"output"}
<1>1. Copy!Prepares(st, rules) = v4
    BY CopyPreparesInTurn
<1>2. CopyLooked(kk, c, rules, {}, v0)
    BY DEF CopyLooked
<1>3. /\ "input" \in CopyRuleSet \ {} /\ "to socket" \in CopyRuleSet \ D1
      /\ "from socket" \in CopyRuleSet \ D2 /\ "output" \in CopyRuleSet \ D3
      /\ D4 = CopyRuleSet
    BY DEF CopyRuleSet
<1> HIDE DEF v0, v1, v2, v3, v4, D1, D2, D3, D4
<1>4. CopyLooked(kk, c, rules, D1, v1)
    BY <1>2, <1>3, CopyLooks DEF D1, v1
<1>5. CopyLooked(kk, c, rules, D2, v2)
    BY <1>3, <1>4, CopyLooks DEF D2, v2
<1>6. CopyLooked(kk, c, rules, D3, v3)
    BY <1>3, <1>5, CopyLooks DEF D3, v3
<1>7. CopyLooked(kk, c, rules, D4, v4)
    BY <1>3, <1>6, CopyLooks DEF D4, v4
<1> QED
    BY <1>1, <1>3, <1>7

\* What has become of things when some rules have been dealt with: no rule is
\* served in vain, and until one is and standard output has failed, all that has
\* happened is that the outbound stream was closed.
CopyGets(kk, c, rules, acc) ==
    /\ acc = [st |-> [k |-> acc.st.k, m |-> acc.st.m], rules |-> acc.rules,
              served |-> acc.served, again |-> acc.again, busy |-> FALSE]
    /\ acc.rules \subseteq rules
    /\ CopyGoes(kk, c, acc.st.k, acc.st.m)
    /\ (\E t : Good(kk, c, t)) /\ CopyRulesGone(kk, c, rules)
          => CopyRulesGone(acc.st.k, acc.st.m, acc.rules)

CopyWaits(kk, c, acc) ==
    acc.served = << >> =>
        acc.st.k = kk /\ acc.st.m \in {c, [c EXCEPT !.out = Close(c.out)]}

\* What a callback does takes nothing back of a rule that has been erased.
LEMMA CopyRulesStayGone ==
    ASSUME NEW kk, NEW c, NEW kk2, NEW c2, CopyGoes(kk, c, kk2, c2),
           NEW rules, CopyRulesGone(kk, c, rules)
    PROVE  CopyRulesGone(kk2, c2, rules)
BY Zenon DEF CopyGoes, CopyMoves, Keeps, CopyRulesGone

\* The streams before a rule is served.
LEMMA CopyUnserved ==
    ASSUME NEW c, CopyFits(c), NEW m \in {c, [c EXCEPT !.out = Close(c.out)]}
    PROVE  /\ m.in = c.in /\ m.inShut = c.inShut /\ m.outShut = c.outShut
           /\ m.out.buf = c.out.buf /\ (c.out.closed => m.out.closed)
           /\ [m EXCEPT !.out = Close(m.out)] = [c EXCEPT !.out = Close(c.out)]
<1>1. Close(Close(c.out)) = Close(c.out)
    BY DEF CopyFits, StreamFits, Stream, Close
<1>2. Close(c.out).buf = c.out.buf /\ Close(c.out).closed
    BY Marks DEF CopyFits
<1> DEFINE g == Close(c.out)
           n == [c EXCEPT !.out = g]
<1> HIDE DEF g
<1>3. /\ n.out = g /\ n.in = c.in /\ n.inShut = c.inShut /\ n.outShut = c.outShut
      /\ \A h : [n EXCEPT !.out = h] = [c EXCEPT !.out = h]
    BY DEF CopyFits
<1> HIDE DEF n
<1> QED
    BY <1>1, <1>2, <1>3 DEF g, n

\* A rule served has moved something, unless there is nothing more for it to do.
CopyServed(kk, m, r, s) ==
    /\ s = [k |-> s.k, m |-> s.m] /\ CopyGoes(kk, m, s.k, s.m)
    /\ ~CopyIsClosed(s, r) /\ CopyInterest(s, r)
          => CopyTouches([k |-> kk, m |-> m], r)

\* The callback of a ready rule.
LEMMA CopyServesRule ==
    ASSUME NEW kk, KernelFits(kk), NEW c, CopyFits(c),
           NEW rev, CopyAnswer(kk, rev),
           NEW r \in CopyRuleSet, CopyInterest([k |-> kk, m |-> c], r),
           (IF CopyReads(r) THEN "IN" ELSE "OUT") \in rev[r],
           NEW m \in {c, [c EXCEPT !.out = Close(c.out)]},
           CopyGoes(kk, c, kk, m), r = "input" => m = c
    PROVE  CopyServed(kk, m, r, CopyCallback([k |-> kk, m |-> m], r))
<1> DEFINE st == [k |-> kk, m |-> m]
<1>1. /\ m.in = c.in /\ m.inShut = c.inShut /\ m.outShut = c.outShut
      /\ m.out.buf = c.out.buf /\ (c.out.closed => m.out.closed) /\ CopyFits(m)
    BY CopyUnserved DEF CopyGoes, CopyMoves
<1>2. CASE r = "input"
    <2>1. ~c.out.closed
        BY <1>2 DEF CopyInterest, HasRoom
    <2>2. CopyCallback(st, r) = FromInput(st)
        BY <1>2 DEF CopyCallback
    <2>3. CopyTouches(st, r)
        BY <1>2 DEF CopyTouches, CopyAnswer, CopyReads
    <2> QED
        BY <1>2, <2>1, <2>2, <2>3, InputGoes DEF CopyServed
<1>3. CASE r = "to socket"
    <2>1. Space(kk.up) > 0
        BY <1>3 DEF CopyAnswer, CopyReads
    <2>2. CopyCallback(st, r) = ToSocket(st)
        BY <1>3 DEF CopyCallback
    <2>3. CopyTouches(st, r)
        BY <1>1, <1>3 DEF CopyTouches, CopyInterest, ToWrite, Finished
    <2> QED
        BY <1>1, <2>1, <2>2, <2>3, SocketWriteGoes DEF CopyServed
<1>4. CASE r = "from socket"
    <2>1. ~m.in.closed
        BY <1>1, <1>4 DEF CopyInterest, HasRoom
    <2>2. CopyCallback(st, r) = FromSocket(st)
        BY <1>4 DEF CopyCallback
    <2>3. CopyTouches(st, r)
        BY <1>4 DEF CopyTouches, CopyAnswer, CopyReads, ReadsEof
    <2> QED
        BY <1>1, <2>1, <2>2, <2>3, SocketReadGoes DEF CopyServed
<1>5. CASE r = "output"
    <2>1. Space(kk.stdout) > 0
        BY <1>5 DEF CopyAnswer, CopyReads
    <2> DEFINE s == ToOutput(st)
    <2>2. CopyCallback(st, r) = s
        BY <1>5 DEF CopyCallback
    <2>3. ~CopyTouches(st, r) => Finished(m.in)
        BY <1>1, <1>5 DEF CopyTouches, CopyInterest, ToWrite
    <2>4. Finished(m.in) => CopyIsClosed(s, r)
        <3>1. SUFFICES ASSUME Finished(m.in) PROVE s.m.inShut
            BY <1>5 DEF CopyIsClosed
        <3>2. Drain(m.in, kk.stdout).stream = m.in
            BY <3>1 DEF Drain, Finished
        <3>3. s.m = [m EXCEPT !.in = m.in, !.inShut = m.inShut \/ TRUE]
            BY <3>1, <3>2 DEF ToOutput
        <3> QED
            BY <1>1, <3>3 DEF CopyFits
    <2>5. s = [k |-> s.k, m |-> s.m] /\ CopyGoes(kk, m, s.k, s.m)
        BY <1>1, <2>1, OutputGoes
    <2> HIDE DEF s
    <2> QED
        BY <2>2, <2>3, <2>4, <2>5 DEF CopyServed
<1> QED
    BY <1>2, <1>3, <1>4, <1>5 DEF CopyRuleSet

\* One turn of the loop behind poll.
LEMMA CopyAnswers ==
    ASSUME NEW kk, KernelFits(kk), NEW c, CopyFits(c),
           NEW rules, NEW asked, \A r \in asked : CopyInterest([k |-> kk, m |-> c], r),
           NEW rev, CopyAnswer(kk, rev),
           NEW acc, CopyGets(kk, c, rules, acc), CopyWaits(kk, c, acc),
           NEW r \in CopyRuleSet, r = "input" => acc.st.m = c
    PROVE  /\ CopyGets(kk, c, rules, Copy!Answers(acc, r, asked, rev))
           /\ r # "output" => CopyWaits(kk, c, Copy!Answers(acc, r, asked, rev))
<1> DEFINE m == acc.st.m
           st == [k |-> kk, m |-> m]
           c1 == [c EXCEPT !.out = Close(c.out)]
           w == Copy!Answers(acc, r, asked, rev)
<1>1. CASE acc.served # << >> \/ r \notin acc.rules
    <2>1. w = acc
        BY <1>1, TurnPassesBy
    <2> QED
        BY <2>1
<1>2. CASE acc.served = << >> /\ r \in acc.rules
    <2>1. /\ acc = [st |-> st, rules |-> acc.rules, served |-> << >>,
                    again |-> acc.again, busy |-> FALSE]
          /\ acc.st = st /\ m \in {c, c1} /\ CopyGoes(kk, c, kk, m) /\ CopyFits(m)
          /\ acc.rules \subseteq rules
          /\ (\E t : Good(kk, c, t)) /\ CopyRulesGone(kk, c, rules)
                => CopyRulesGone(kk, m, acc.rules)
        <3>1. acc.st.k = kk /\ m \in {c, c1} /\ acc.rules \subseteq rules
            BY <1>2 DEF CopyGets, CopyWaits
        <3>2. acc = [st |-> st, rules |-> acc.rules, served |-> << >>,
                     again |-> acc.again, busy |-> FALSE]
            BY <1>2, <3>1, Zenon DEF CopyGets
        <3>3. acc.st = st
            BY <3>2
        <3> QED
            BY Zenon, <3>1, <3>2, <3>3 DEF CopyGets, CopyGoes, CopyMoves
    <2>6. acc = Unserved(st, acc.rules, acc.again)
        BY <2>1 DEF Unserved
    <2> DEFINE R == acc.rules \ {r}
    <2> HIDE DEF m, c1
    <2>2. CASE "ERR" \in rev[r]
        <3>1. r = "output" /\ kk.stdout.gone
            BY <2>2 DEF CopyAnswer, CopyRuleSet
        <3> DEFINE s == CopyCancel(CopyFail(st, "output"), "output")
        <3>2. s = [k |-> kk, m |-> s.m] /\ CopyGoes(kk, m, kk, s.m)
            BY <2>1, <3>1, FailureGoes
        <3>3. w = Unserved(s, R, acc.again)
            <4> DEFINE left == acc.rules
                       more == acc.again
            <4>1. acc = Unserved(st, left, more) /\ r \in left
                BY <1>2, <2>6
            <4> HIDE DEF left, more, st
            <4>2. w = Unserved(CopyCancel(CopyFail(st, r), r), left \ {r}, more)
                BY <2>2, <4>1, TurnFails
            <4> QED
                BY <3>1, <4>2 DEF left, more
        <3> HIDE DEF s, w
        <3>4. CopyGoes(kk, c, kk, s.m)
            BY <2>1, <3>2, CopyGoesFurther
        <3>5. ~\E t : Good(kk, c, t)
            BY <3>1 DEF Good, Calm
        <3>6. w = [st |-> [k |-> kk, m |-> s.m], rules |-> R, served |-> << >>,
                   again |-> acc.again, busy |-> FALSE]
            <4> DEFINE n == s.m
            <4> HIDE DEF R, n
            <4>1. s = [k |-> kk, m |-> n]
                BY <3>2 DEF n
            <4>2. w = Unserved([k |-> kk, m |-> n], R, acc.again)
                BY Zenon, <3>3, <4>1
            <4> QED
                BY Zenon, <4>2 DEF Unserved, n
        <3>7. CopyGets(kk, c, rules, w)
            BY <2>1, <3>4, <3>5, <3>6 DEF CopyGets
        <3> QED
            BY <3>1, <3>7 DEF w
    <2>3. CASE "ERR" \notin rev[r] /\ Copy!Defunct(asked, rev, r)
        <3>1. \/ r = "input" /\ kk.stdin.shut /\ kk.stdin.buf = << >>
              \/ r = "to socket" /\ kk.up.shut
            BY <2>3 DEF Copy!Defunct, Copy!Ready, CopyAnswer, CopyRuleSet, CopyReads
        <3>2. CopyCancel(st, r) = [k |-> kk, m |-> c1]
            <4>1. CopyCancel(st, r) = [k |-> kk, m |-> [m EXCEPT !.out = Close(m.out)]]
                BY <3>1 DEF CopyCancel
            <4>2. [m EXCEPT !.out = Close(m.out)] = c1
                BY <2>1, CopyUnserved DEF c1
            <4> QED
                BY <4>1, <4>2
        <3>3. w = Unserved(CopyCancel(st, r), R, acc.again)
            <4> DEFINE left == acc.rules
                       more == acc.again
            <4>1. acc = Unserved(st, left, more) /\ r \in left
                BY <1>2, <2>6
            <4> HIDE DEF left, more, st
            <4>2. w = Unserved(CopyCancel(st, r), left \ {r}, more)
                BY <2>3, <4>1, TurnCancels
            <4> QED
                BY <4>2 DEF left, more
        <3> HIDE DEF w
        <3>4. w = [st |-> [k |-> kk, m |-> c1], rules |-> R, served |-> << >>,
                   again |-> acc.again, busy |-> FALSE]
            <4> HIDE DEF R
            <4> QED
                BY Zenon, <3>2, <3>3 DEF Unserved
        <3>5. CopyGoes(kk, c, kk, c1)
            BY <3>1, ClosingGoes DEF c1
        <3>6. c1.out.closed /\ c1.in = c.in /\ c1.inShut = c.inShut
            BY Marks DEF c1, CopyFits
        <3>7. CopyRulesGone(kk, m, acc.rules) => CopyRulesGone(kk, c1, R)
            <4>1. m.in = c.in /\ m.inShut = c.inShut
                BY <2>1, CopyUnserved DEF c1
            <4> QED
                BY <3>1, <3>6, <4>1 DEF CopyRulesGone
        <3>8. CopyGets(kk, c, rules, w)
            BY <2>1, <3>4, <3>5, <3>7 DEF CopyGets
        <3>9. CopyWaits(kk, c, w)
            BY <3>4 DEF CopyWaits, c1
        <3> QED
            BY <3>8, <3>9 DEF w
    <2>4. CASE /\ "ERR" \notin rev[r] /\ ~Copy!Defunct(asked, rev, r)
               /\ Copy!Ready(asked, rev, r)
        <3> DEFINE s == CopyCallback(st, r)
                   again == ~CopyIsClosed(s, r) /\ CopyInterest(s, r)
                   busy == again /\ ~CopyTouches(st, r)
        <3>1. /\ CopyInterest([k |-> kk, m |-> c], r)
              /\ (IF CopyReads(r) THEN "IN" ELSE "OUT") \in rev[r]
            BY <2>4 DEF Copy!Ready
        <3>2. r = "input" => m = c
            BY DEF m
        <3>3. /\ s = [k |-> s.k, m |-> s.m] /\ CopyGoes(kk, m, s.k, s.m)
              /\ again => CopyTouches(st, r)
            <4>1. m \in {c, [c EXCEPT !.out = Close(c.out)]} /\ CopyGoes(kk, c, kk, m)
                BY <2>1 DEF c1
            <4>2. CopyServed(kk, m, r, CopyCallback([k |-> kk, m |-> m], r))
                BY <3>1, <3>2, <4>1, CopyServesRule
            <4> QED
                BY <4>2 DEF CopyServed
        <3>4. w = [st |-> s, rules |-> acc.rules, served |-> << r >>, again |-> again,
                   busy |-> busy]
            <4> HIDE DEF st
            <4> QED
                BY <1>2, <2>4, <2>6, TurnServes
        <3>5. busy = FALSE
            BY <3>3
        <3> HIDE DEF s, w, again, busy
        <3>6. w = [st |-> [k |-> s.k, m |-> s.m], rules |-> acc.rules,
                   served |-> << r >>, again |-> again, busy |-> FALSE]
            BY <2>1, <3>3, <3>4, <3>5
        <3>7. CopyGoes(kk, c, s.k, s.m)
            BY <2>1, <3>3, CopyGoesFurther
        <3>8. CopyRulesGone(kk, m, acc.rules) => CopyRulesGone(s.k, s.m, acc.rules)
            BY <3>3, CopyRulesStayGone
        <3>9. CopyGets(kk, c, rules, w)
            BY <2>1, <3>6, <3>7, <3>8 DEF CopyGets
        <3>10. CopyWaits(kk, c, w)
            BY <3>6 DEF CopyWaits
        <3> QED
            BY <3>9, <3>10 DEF w
    <2>5. CASE /\ "ERR" \notin rev[r] /\ ~Copy!Defunct(asked, rev, r)
               /\ ~Copy!Ready(asked, rev, r)
        <3>1. w = acc
            BY <1>2, <2>5, TurnWaits
        <3> QED
            BY <3>1
    <2> QED
        BY <2>2, <2>3, <2>4, <2>5
<1> QED
    BY <1>1, <1>2

\* The whole call up to the next poll.
LEMMA CopyServesEnds ==
    ASSUME NEW kk, KernelFits(kk), NEW c, CopyFits(c),
           NEW rules, rules \subseteq CopyRuleSet,
           NEW asked, \A r \in asked : CopyInterest([k |-> kk, m |-> c], r),
           NEW rev, CopyAnswer(kk, rev)
    PROVE  CopyGets(kk, c, rules,
                    Copy!Serves([k |-> kk, m |-> c], rules, asked, rev))
<1> DEFINE st == [k |-> kk, m |-> c]
           v0 == [st |-> st, rules |-> rules, served |-> << >>, again |-> FALSE,
                  busy |-> FALSE]
           v1 == Copy!Answers(v0, "input", asked, rev)
           v2 == Copy!Answers(v1, "to socket", asked, rev)
           v3 == Copy!Answers(v2, "from socket", asked, rev)
           v4 == Copy!Answers(v3, "output", asked, rev)
           Gets(v) == CopyGets(kk, c, rules, v) /\ CopyWaits(kk, c, v)
<1>1. Copy!Serves(st, rules, asked, rev) = v4
    BY CopyServesInTurn
<1>2. Gets(v0) /\ v0.st.m = c
    <2>1. CopyGoes(kk, c, kk, c)
        BY CopyGoesNowhere
    <2> QED
        BY <2>1 DEF CopyGets, CopyWaits
<1>3. {"input", "to socket", "from socket", "output"} = CopyRuleSet
    BY DEF CopyRuleSet
<1> HIDE DEF v0, v1, v2, v3, v4
<1>4. Gets(v1)
    BY <1>2, <1>3, CopyAnswers DEF v1
<1>5. Gets(v2)
    BY <1>3, <1>4, CopyAnswers DEF v2
<1>6. Gets(v3)
    BY <1>3, <1>5, CopyAnswers DEF v3
<1>7. CopyGets(kk, c, rules, v4)
    BY <1>3, <1>6, CopyAnswers DEF v4
<1> QED
    BY <1>1, <1>7

\* What is left of the rules, and of the work, after a call.
LEMMA CopyLooksGone ==
    ASSUME NEW kk, NEW c, CopyFits(c), NEW rules, rules \subseteq CopyRuleSet,
           CopyRulesGone(kk, c, rules),
           NEW p, CopyLooked(kk, c, rules, CopyRuleSet, p)
    PROVE  CopyRulesGone(kk, c, p.rules)
BY DEF CopyFits, CopyRulesGone, CopyLooked, CopyEnded, CopyRuleSet

\* With nothing to poll for, all four ends have been shut down.
LEMMA CopyAllDone ==
    ASSUME NEW kk, NEW c, CopyFits(c), NEW rules, rules \subseteq CopyRuleSet,
           NEW t, Good(kk, c, t), CopyRulesGone(kk, c, rules),
           NEW p, CopyLooked(kk, c, rules, CopyRuleSet, p), p.asked = {}
    PROVE  kk.up.shut /\ kk.down.shut /\ kk.stdout.shut
<1>1. CopyRulesGone(kk, c, p.rules)
    BY CopyLooksGone
<1>2. \A r \in p.rules : ~CopyInterest([k |-> kk, m |-> c], r)
    BY DEF CopyLooked, CopyRuleSet
<1>3. ~c.out.error /\ ~c.in.error
    BY DEF Good, Calm
<1>4. /\ Len(c.out.buf) \in Nat /\ Len(c.in.buf) \in Nat
      /\ c.out.cap \in Nat /\ c.in.cap \in Nat
      /\ c.out.buf = << >> => Len(c.out.buf) = 0
      /\ c.in.buf = << >> => Len(c.in.buf) = 0
    BY LenProperties DEF CopyFits, StreamFits, Stream
<1>5. c.out.closed
    <2>1. c.out.buf = << >> => c.out.closed
        <3>1. c.out.buf = << >> => Available(c.out) > 0
            BY <1>4 DEF Available, CopyFits
        <3> QED
            BY <1>1, <1>2, <1>3, <3>1 DEF CopyRulesGone, CopyInterest, NoErrors, HasRoom
    <2>2. c.out.buf # << >> => kk.up.shut
        BY <1>1, <1>2 DEF CopyRulesGone, CopyInterest, ToWrite
    <2> QED
        BY <2>1, <2>2 DEF Good, UpEnds, Finished
<1>6. c.in.closed
    <2>1. c.in.buf = << >> => c.in.closed
        <3>1. c.in.buf = << >> => Available(c.in) > 0
            BY <1>4 DEF Available, CopyFits
        <3> QED
            BY <1>1, <1>2, <1>3, <3>1 DEF CopyRulesGone, CopyInterest, NoErrors, HasRoom
    <2>2. c.in.buf # << >> => kk.stdout.shut
        BY <1>1, <1>2 DEF CopyRulesGone, CopyInterest, ToWrite, Good, DownEnds
    <2> QED
        BY <2>1, <2>2 DEF Good, DownEnds, Finished
<1>7. kk.up.shut
    BY <1>1, <1>2, <1>5 DEF CopyRulesGone, CopyInterest, ToWrite, Finished, Good, UpEnds
<1>8. kk.stdout.shut
    BY <1>1, <1>2, <1>6 DEF CopyRulesGone, CopyInterest, ToWrite, Finished, Good, DownEnds
<1> QED
    BY <1>6, <1>7, <1>8 DEF Good, DownEnds

-----------------------------------------------------------------------------
(***************************************************************************)
(* The steps of the socket's thread.                                       *)
(***************************************************************************)
\* From kk and t to kk2 and t2: some bytes leave for the partner, in order, and
\* none is lost; the rest as for the main thread.
HandsOn(kk, t, kk2, t2) ==
    \E bytes \in Seq(Nat) :
        /\ kk2.partner.got = kk.partner.got \o bytes
        /\ t.out.buf \o kk.up.buf = bytes \o (t2.out.buf \o kk2.up.buf)

StaysForMain(kk, kk2) ==
    /\ kk2.stdin = kk.stdin /\ kk2.stdout = kk.stdout
    /\ Keeps(kk.up, kk2.up) /\ Keeps(kk.down, kk2.down)
    /\ Len(kk2.up.buf) <= Len(kk.up.buf)
    /\ Readable(kk.down) => Readable(kk2.down)
    /\ kk.down.shut => kk2.down.buf = kk.down.buf

ThreadMoves(kk, t, kk2, t2) ==
    /\ KernelFits(kk2) /\ ThreadFits(t2)
    /\ HandsOn(kk, t, kk2, t2)
    /\ (kk2.down.buf \o t2.in.buf) \o ByteOf(kk2.partner.coming)
          = (kk.down.buf \o t.in.buf) \o ByteOf(kk.partner.coming)
    /\ kk.partner.ended => kk2.partner.ended
    /\ t.out.closed => t2.out.closed
    /\ StaysForMain(kk, kk2)
    /\ \A se : Comes(kk, t, se) => Comes(kk2, t2, se)

ThreadGoes(kk, t, kk2, t2) ==
    /\ ThreadMoves(kk, t, kk2, t2)
    /\ \A c : Good(kk, c, t) => Good(kk2, c, t2)

\* The same of the socket's thread: no step is a step.
LEMMA ThreadGoesNowhere ==
    ASSUME NEW kk, KernelFits(kk), NEW t, ThreadFits(t)
    PROVE  ThreadGoes(kk, t, kk, t)
<1>1. /\ kk.partner.got \in Seq(Nat) /\ t.out.buf \in Seq(Nat)
      /\ kk.up.buf \in Seq(Nat) /\ Len(kk.up.buf) \in Nat
    BY LenProperties DEF KernelFits, Partner, Channel, ThreadFits, StreamFits, Stream
<1>2. t.out.buf \o kk.up.buf \in Seq(Nat) /\ << >> \in Seq(Nat)
    BY <1>1, ConcatProperties
<1>3. /\ kk.partner.got = kk.partner.got \o << >>
      /\ t.out.buf \o kk.up.buf = << >> \o (t.out.buf \o kk.up.buf)
    BY <1>1, <1>2, ConcatEmptySeq
<1>4. HandsOn(kk, t, kk, t)
    BY <1>2, <1>3 DEF HandsOn
<1> QED
    BY <1>1, <1>2, <1>4 DEF ThreadGoes, ThreadMoves, StaysForMain, Keeps

\* Two steps of the socket's thread are one.
LEMMA ThreadMovesFurther ==
    ASSUME NEW k1, NEW t1, NEW k2, NEW t2, NEW k3, NEW t3,
           KernelFits(k1), ThreadFits(t1),
           ThreadMoves(k1, t1, k2, t2), ThreadMoves(k2, t2, k3, t3)
    PROVE  ThreadMoves(k1, t1, k3, t3)
<1>1. /\ KernelFits(k2) /\ KernelFits(k3) /\ ThreadFits(t2) /\ ThreadFits(t3)
    BY Zenon DEF ThreadMoves
<1>2. StaysForMain(k1, k3)
    <2>1. StaysForMain(k1, k2) /\ StaysForMain(k2, k3)
        BY Zenon DEF ThreadMoves
    <2>2. /\ Len(k1.up.buf) \in Nat /\ Len(k2.up.buf) \in Nat
          /\ Len(k3.up.buf) \in Nat
        BY <1>1, LenProperties DEF KernelFits, Channel
    <2>3. Len(k3.up.buf) <= Len(k1.up.buf)
        BY <2>1, <2>2 DEF StaysForMain
    <2> QED
        BY <2>1, <2>3 DEF StaysForMain, Keeps
<1>3. HandsOn(k1, t1, k3, t3)
    <2>1. HandsOn(k1, t1, k2, t2) /\ HandsOn(k2, t2, k3, t3)
        BY Zenon DEF ThreadMoves
    <2>2. PICK b \in Seq(Nat) :
              /\ k2.partner.got = k1.partner.got \o b
              /\ t1.out.buf \o k1.up.buf = b \o (t2.out.buf \o k2.up.buf)
        BY <2>1 DEF HandsOn
    <2>9. PICK d \in Seq(Nat) :
              /\ k3.partner.got = k2.partner.got \o d
              /\ t2.out.buf \o k2.up.buf = d \o (t3.out.buf \o k3.up.buf)
        BY <2>1 DEF HandsOn
    <2> DEFINE rest == t3.out.buf \o k3.up.buf
               both == b \o d
               got == k1.partner.got
    <2>3. got \in Seq(Nat)
        BY DEF KernelFits, Partner
    <2>4. rest \in Seq(Nat)
        <3>1. t3.out.buf \in Seq(Nat) /\ k3.up.buf \in Seq(Nat)
            BY <1>1 DEF KernelFits, Channel, ThreadFits, StreamFits, Stream
        <3> QED
            BY <3>1, ConcatProperties
    <2>5. both \in Seq(Nat)
        BY ConcatProperties
    <2> HIDE DEF rest, got
    <2>6. (got \o b) \o d = got \o (b \o d)
        BY <2>3, Joined
    <2>7. (b \o d) \o rest = b \o (d \o rest)
        BY <2>4, Joined
    <2>8. k3.partner.got = got \o both /\ t1.out.buf \o k1.up.buf = both \o rest
        BY <2>2, <2>9, <2>6, <2>7, Zenon DEF got, rest
    <2> HIDE DEF both
    <2> QED
        BY <2>5, <2>8 DEF got, rest, HandsOn
<1>4. /\ (k3.down.buf \o t3.in.buf) \o ByteOf(k3.partner.coming)
            = (k1.down.buf \o t1.in.buf) \o ByteOf(k1.partner.coming)
      /\ k1.partner.ended => k3.partner.ended
      /\ t1.out.closed => t3.out.closed
    BY Zenon DEF ThreadMoves
<1>5. \A se : Comes(k1, t1, se) => Comes(k3, t3, se)
    BY Zenon DEF ThreadMoves
<1> QED
    BY <1>1, <1>2, <1>3, <1>4, <1>5 DEF ThreadMoves

\* Two steps that keep the ends in order do so together.
LEMMA ThreadGoesFurther ==
    ASSUME NEW k1, NEW t1, NEW k2, NEW t2, NEW k3, NEW t3,
           KernelFits(k1), ThreadFits(t1),
           ThreadGoes(k1, t1, k2, t2), ThreadGoes(k2, t2, k3, t3)
    PROVE  ThreadGoes(k1, t1, k3, t3)
<1>1. ThreadMoves(k1, t1, k2, t2) /\ ThreadMoves(k2, t2, k3, t3)
    BY Zenon DEF ThreadGoes
<1>2. ThreadMoves(k1, t1, k3, t3)
    BY <1>1, ThreadMovesFurther
<1>3. \A c : Good(k1, c, t1) => Good(k3, c, t3)
    BY Zenon DEF ThreadGoes
<1> QED
    BY <1>2, <1>3 DEF ThreadGoes

\* TCPPeer::push: the first bytes of the outbound stream leave, and behind the
\* last of them the FIN.
LEMMA SendingGoes ==
    ASSUME NEW kk, KernelFits(kk), NEW t, ThreadFits(t)
    PROVE  LET s == SendsNow([k |-> kk, m |-> t]) IN
           s = [k |-> s.k, m |-> s.m] /\ ThreadGoes(kk, t, s.k, s.m)
<1> DEFINE st == [k |-> kk, m |-> t]
           o == t.out
           n == Least(Buffered(o), FlightLimit - t.flight)
           fin == /\ o.closed /\ n = Buffered(o)
                  /\ ~t.finSent /\ t.flight + n < FlightLimit
           g == Pop(o, n)
           first == SubSeq(o.buf, 1, n)
           got == kk.partner.got \o first
           ended == kk.partner.ended \/ fin
           finSent == t.finSent \/ fin
           flight == t.flight + n + Flag(fin)
           j == [kk.partner EXCEPT !.got = got, !.ended = ended]
           kk2 == [kk EXCEPT !.partner = j]
           t2 == [t EXCEPT !.out = g, !.finSent = finSent, !.flight = flight]
<1>1. CASE t.out.error
    <2>1. SendsNow(st) = st
        BY <1>1 DEF SendsNow
    <2> QED
        BY <2>1, ThreadGoesNowhere
<1>2. CASE ~t.out.error
    <2>1. SendsNow(st) = [k |-> kk2, m |-> t2]
        BY <1>2 DEF SendsNow, InWindow
    <2>2. /\ StreamFits(o) /\ Len(o.buf) \in Nat /\ o.buf \in Seq(Nat)
          /\ t.flight \in 0 .. FlightLimit /\ FlightLimit \in Nat /\ t.finSent \in BOOLEAN
          /\ o.closed \in BOOLEAN
        BY CopyProgramConstants, LenProperties DEF ThreadFits, StreamFits, Stream
    <2>3. n \in 0 .. Len(o.buf) /\ t.flight + n \in 0 .. FlightLimit
        BY SMTT(30), <2>2 DEF Least, Buffered
    <2>4. /\ finSent \in BOOLEAN /\ ended \in BOOLEAN
          /\ fin => o.closed /\ n = Len(o.buf)
        BY <2>2 DEF Buffered, KernelFits, Partner
    <2>5. flight \in 0 .. FlightLimit
        BY <2>2, <2>3 DEF Flag
    <2> HIDE DEF o, n, fin
    <2>6. /\ StreamFits(g) /\ Len(g.buf) = Len(o.buf) - n
          /\ g.cap = o.cap /\ g.closed = o.closed /\ g.error = o.error
          /\ first \o g.buf = o.buf
        BY <2>2, <2>3, Pops
    <2>7. first \in Seq(Nat) /\ got \in Seq(Nat)
        <3>1. first \in Seq(Nat) /\ kk.partner.got \in Seq(Nat)
            BY <2>2, <2>3, Cut DEF KernelFits, Partner
        <3> QED
            BY <3>1, ConcatProperties
    <2>8. Finished(o) \/ fin => Finished(g)
        <3>1. n = Len(o.buf) => g.buf = << >>
            BY <2>2, <2>6, EmptySeq DEF StreamFits, Stream
        <3>2. o.buf = << >> => n = Len(o.buf)
            BY <2>2, <2>3, EmptySeq
        <3> QED
            BY <2>4, <2>6, <3>1, <3>2 DEF Finished
    <2> HIDE DEF g, first, got, ended, finSent, flight
    <2>9. /\ j \in Partner /\ j.coming = kk.partner.coming /\ j.got = got
          /\ j.ended = ended
        BY <2>4, <2>7 DEF KernelFits, Partner
    <2> HIDE DEF j
    <2>10. /\ KernelFits(kk2) /\ kk2.stdin = kk.stdin /\ kk2.stdout = kk.stdout
           /\ kk2.up = kk.up /\ kk2.down = kk.down /\ kk2.partner = j
        BY <2>9 DEF KernelFits
    <2>11. /\ ThreadFits(t2) /\ t2.out = g /\ t2.in = t.in /\ t2.inShut = t.inShut
           /\ t2.finSent = finSent
        <3> DEFINE w == 0 .. FlightLimit
        <3>1. g \in Stream /\ flight \in w /\ finSent \in BOOLEAN
            BY <2>4, <2>5, <2>6 DEF StreamFits
        <3>2. t \in [out : Stream, in : Stream, outShut : BOOLEAN, inShut : BOOLEAN,
                    eof : BOOLEAN, flight : w, finSent : BOOLEAN, linger : BOOLEAN]
            BY DEF ThreadFits
        <3> HIDE DEF w
        <3>3. /\ t2 \in [out : Stream, in : Stream, outShut : BOOLEAN,
                         inShut : BOOLEAN, eof : BOOLEAN, flight : w,
                         finSent : BOOLEAN, linger : BOOLEAN]
              /\ t2.out = g /\ t2.in = t.in /\ t2.inShut = t.inShut
              /\ t2.finSent = finSent /\ t2.eof = t.eof /\ t2.outShut = t.outShut
            BY <3>1, <3>2
        <3> HIDE DEF t2
        <3> QED
            BY <2>6, <3>3 DEF ThreadFits, o, w
    <2> HIDE DEF kk2, t2
    <2>12. HandsOn(kk, t, kk2, t2)
        <3>1. g.buf \in Seq(Nat) /\ kk.up.buf \in Seq(Nat)
            BY <2>6 DEF StreamFits, Stream, KernelFits, Channel
        <3>2. (first \o g.buf) \o kk.up.buf = first \o (g.buf \o kk.up.buf)
            BY <2>7, <3>1, Joined
        <3>3. t.out.buf \o kk.up.buf = first \o (t2.out.buf \o kk2.up.buf)
            BY <2>6, <2>10, <2>11, <3>2, Zenon DEF o
        <3>4. kk2.partner.got = kk.partner.got \o first
            BY <2>9, <2>10 DEF got
        <3> QED
            BY <2>7, <3>3, <3>4 DEF HandsOn
    <2>13. ASSUME NEW se, Comes(kk, t, se) PROVE Comes(kk2, t2, se)
        BY <2>9, <2>10, <2>11, <2>13 DEF Comes
    <2>14. ASSUME NEW c, Good(kk, c, t) PROVE Good(kk2, c, t2)
        <3>1. Calm(kk2, c, t2)
            BY <2>6, <2>9, <2>10, <2>11, <2>14 DEF Good, Calm, o
        <3>2. UpEnds(kk2, c, t2)
            BY <2>6, <2>8, <2>9, <2>10, <2>11, <2>14 DEF Good, UpEnds, o, finSent, ended
        <3>3. DownEnds(kk2, c, t2)
            BY <2>10, <2>11, <2>14 DEF Good, DownEnds
        <3> QED
            BY <3>1, <3>2, <3>3 DEF Good
    <2>15. ThreadGoes(kk, t, kk2, t2)
        <3>1. Len(kk.up.buf) <= Len(kk.up.buf)
            BY LenProperties DEF KernelFits, Channel
        <3>2. /\ (kk2.down.buf \o t2.in.buf) \o ByteOf(kk2.partner.coming)
                    = (kk.down.buf \o t.in.buf) \o ByteOf(kk.partner.coming)
              /\ kk.partner.ended => kk2.partner.ended
            BY <2>9, <2>10, <2>11 DEF ended
        <3> QED
            BY <2>6, <2>10, <2>11, <2>12, <2>13, <2>14, <3>1, <3>2
               DEF ThreadGoes, ThreadMoves, StaysForMain, Keeps, o
    <2> QED
        BY <2>1, <2>15
<1> QED
    BY <1>1, <1>2

\* The thread's variables with other streams and marks.
ThreadRecord(w) ==
    [out : Stream, in : Stream, outShut : BOOLEAN, inShut : BOOLEAN,
     eof : BOOLEAN, flight : w, finSent : BOOLEAN, linger : BOOLEAN]

\* The one message that has come is taken.
LEMMA Arrives ==
    ASSUME NEW kk, KernelFits(kk), kk.partner.coming # << >>
    PROVE  /\ Head(kk.partner.coming) \in Message
           /\ Tail(kk.partner.coming) = << >>
<1> DEFINE q == kk.partner.coming
<1>1. q \in Seq(Message) /\ Len(q) <= 1 /\ q # << >>
    BY DEF KernelFits, Partner
<1> HIDE DEF q
<1>2. Head(q) \in Message /\ Tail(q) \in Seq(Message) /\ Len(Tail(q)) = Len(q) - 1
    BY <1>1, HeadTailProperties
<1>3. Len(q) \in Nat /\ Len(q) # 0
    BY <1>1, LenProperties, EmptySeq
<1>4. Len(Tail(q)) = 0
    BY <1>1, <1>2, <1>3
<1>5. Tail(q) = << >>
    BY <1>2, <1>4, EmptySeq
<1> QED
    BY <1>2, <1>5 DEF q

\* TCPPeer::receive.
LEMMA TakingGoes ==
    ASSUME NEW kk, KernelFits(kk), NEW t, ThreadFits(t), NEW se0, Comes(kk, t, se0),
           kk.partner.coming # << >>
    PROVE  LET kk2 == [kk EXCEPT !.partner.coming = Tail(kk.partner.coming)]
               t2  == TakesMessage(t, Head(kk.partner.coming))
           IN  ThreadGoes(kk, t, kk2, t2)
<1> DEFINE msg == Head(kk.partner.coming)
           j == [kk.partner EXCEPT !.coming = << >>]
           kk2 == [kk EXCEPT !.partner = j]
           t2 == TakesMessage(t, msg)
           w == 0 .. FlightLimit
           l == t.linger /\ ~(t.in.closed /\ ~Finished(t.out))
           stays == [t EXCEPT !.linger = l]
<1>1. msg \in Message /\ Tail(kk.partner.coming) = << >>
    BY Arrives
<1>2. [kk EXCEPT !.partner.coming = Tail(kk.partner.coming)] = kk2
    BY <1>1 DEF msg
<1>3. /\ j \in Partner /\ j.coming = << >> /\ j.got = kk.partner.got
      /\ j.ended = kk.partner.ended /\ Len(j.coming) = 0
    <2>1. kk.partner \in Partner /\ << >> \in Seq(Message) /\ Len(<< >>) = 0
        BY DEF KernelFits
    <2> QED
        BY <2>1 DEF Partner
<1> HIDE DEF j, msg
<1>4. /\ KernelFits(kk2) /\ kk2.stdin = kk.stdin /\ kk2.stdout = kk.stdout
      /\ kk2.up = kk.up /\ kk2.down = kk.down /\ kk2.partner = j
    BY <1>3 DEF KernelFits
<1> HIDE DEF kk2
<1>5. /\ t \in ThreadRecord(w) /\ StreamFits(t.out) /\ StreamFits(t.in) /\ 0 \in w
      /\ t.eof => t.out.closed
      /\ t.out.closed => t.outShut
    BY CopyProgramConstants DEF ThreadFits, ThreadRecord
<1>6. l \in BOOLEAN
    BY <1>5 DEF ThreadRecord
<1> HIDE DEF l, w
<1>7. /\ stays \in ThreadRecord(w) /\ stays.out = t.out /\ stays.in = t.in
      /\ stays.inShut = t.inShut /\ stays.finSent = t.finSent /\ stays.eof = t.eof
      /\ stays.outShut = t.outShut
    BY <1>5, <1>6 DEF ThreadRecord
<1> HIDE DEF stays
<1> DEFINE Takes ==
               /\ t2 \in ThreadRecord(w) /\ StreamFits(t2.out) /\ StreamFits(t2.in)
               /\ t2.inShut = t.inShut /\ t2.finSent = t.finSent /\ t2.eof = t.eof
               /\ t2.outShut = t.outShut
               /\ t2.out.buf = t.out.buf /\ t2.out.closed = t.out.closed
               /\ t2.in.buf = t.in.buf \o ByteOf(kk.partner.coming)
               /\ t2.in.closed => t.in.closed \/ msg.kind = "fin"
               /\ msg.kind # "rst" =>
                     t2.out.error = t.out.error /\ t2.in.error = t.in.error
               /\ t.in.closed => t2.in.closed
<1>8. t.in.buf \in Seq(Nat) /\ t.in.buf = t.in.buf \o << >>
    <2>1. t.in.buf \in Seq(Nat)
        BY <1>5 DEF StreamFits, Stream
    <2> QED
        BY <2>1, ConcatEmptySeq
<1>9. ASSUME msg.kind = "byte" PROVE Takes
    <2> DEFINE data == << msg.byte >>
               g == Push(t.in, data)
    <2>1. msg.byte \in Nat /\ ByteOf(kk.partner.coming) = data
        BY <1>1, <1>9 DEF Message, ByteOf, msg
    <2>2. data \in Seq(Nat) /\ Len(data) = 1
        BY <2>1
    <2>3. ~t.in.closed /\ Available(t.in) > 0
        BY <1>9 DEF Comes, msg
    <2>4. Available(t.in) \in Int
        BY <1>5, LenProperties DEF StreamFits, Stream, Available
    <2>5. t2 = [stays EXCEPT !.in = g]
        BY <1>7, <1>9 DEF TakesMessage, stays, l
    <2> HIDE DEF data
    <2>6. Len(data) <= Available(t.in)
        BY <2>2, <2>3, <2>4
    <2>7. /\ StreamFits(g) /\ g.buf = t.in.buf \o data
          /\ g.closed = t.in.closed /\ g.error = t.in.error
        BY <1>5, <2>2, <2>3, <2>6, Pushes
    <2> HIDE DEF g, t2
    <2>8. /\ t2 \in ThreadRecord(w) /\ t2.out = t.out /\ t2.in = g
          /\ t2.inShut = t.inShut /\ t2.finSent = t.finSent /\ t2.eof = t.eof
          /\ t2.outShut = t.outShut
        BY <1>7, <2>5, <2>7 DEF ThreadRecord, StreamFits
    <2> QED
        BY <1>5, <1>9, <2>1, <2>3, <2>7, <2>8
<1>10. ASSUME msg.kind = "fin" PROVE Takes
    <2> DEFINE g == Close(t.in)
    <2>1. ByteOf(kk.partner.coming) = << >>
        BY <1>10 DEF ByteOf, msg
    <2>2. t2 = [stays EXCEPT !.in = g]
        BY <1>7, <1>10 DEF TakesMessage, stays, l
    <2>3. StreamFits(g) /\ g.buf = t.in.buf /\ g.closed /\ g.error = t.in.error
        BY <1>5, Marks
    <2> HIDE DEF g, t2
    <2>4. /\ t2 \in ThreadRecord(w) /\ t2.out = t.out /\ t2.in = g
          /\ t2.inShut = t.inShut /\ t2.finSent = t.finSent /\ t2.eof = t.eof
          /\ t2.outShut = t.outShut
        BY <1>7, <2>2, <2>3 DEF ThreadRecord, StreamFits
    <2> QED
        BY <1>5, <1>8, <1>10, <2>1, <2>3, <2>4
<1>11. ASSUME msg.kind = "ack" PROVE Takes
    <2>1. ByteOf(kk.partner.coming) = << >>
        BY <1>11 DEF ByteOf, msg
    <2>2. t2 = [stays EXCEPT !.flight = 0]
        BY <1>7, <1>11 DEF TakesMessage, stays, l
    <2> HIDE DEF t2
    <2>3. /\ t2 \in ThreadRecord(w) /\ t2.out = t.out /\ t2.in = t.in
          /\ t2.inShut = t.inShut /\ t2.finSent = t.finSent /\ t2.eof = t.eof
          /\ t2.outShut = t.outShut
        BY <1>5, <1>7, <2>2 DEF ThreadRecord
    <2> QED
        BY <1>5, <1>8, <1>11, <2>1, <2>3
<1>12. ASSUME msg.kind = "rst" PROVE Takes
    <2> DEFINE g == SetError(t.in)
               h == SetError(t.out)
    <2>1. ByteOf(kk.partner.coming) = << >>
        BY <1>12 DEF ByteOf, msg
    <2>2. t2 = [stays EXCEPT !.in = g, !.out = h]
        BY <1>7, <1>12 DEF TakesMessage, stays, l
    <2>3. /\ StreamFits(g) /\ g.buf = t.in.buf /\ g.closed = t.in.closed
          /\ StreamFits(h) /\ h.buf = t.out.buf /\ h.closed = t.out.closed
        BY <1>5, Marks
    <2> HIDE DEF g, h, t2
    <2>4. /\ t2 \in ThreadRecord(w) /\ t2.out = h /\ t2.in = g
          /\ t2.inShut = t.inShut /\ t2.finSent = t.finSent /\ t2.eof = t.eof
          /\ t2.outShut = t.outShut
        BY <1>7, <2>2, <2>3 DEF ThreadRecord, StreamFits
    <2> QED
        BY <1>5, <1>8, <1>12, <2>1, <2>3, <2>4
<1>13. Takes
    BY <1>1, <1>9, <1>10, <1>11, <1>12 DEF Message
<1> HIDE DEF t2
<1>14. ThreadFits(t2)
    BY <1>5, <1>13 DEF ThreadFits, ThreadRecord, w
<1>15. HandsOn(kk, t, kk2, t2)
    <2>1. HandsOn(kk, t, kk, t)
        BY ThreadGoesNowhere, Zenon DEF ThreadGoes, ThreadMoves
    <2>2. kk2.partner.got = kk.partner.got /\ kk2.up = kk.up /\ t2.out.buf = t.out.buf
        BY <1>3, <1>4, <1>13
    <2> QED
        BY <2>1, <2>2 DEF HandsOn
<1>16. (kk2.down.buf \o t2.in.buf) \o ByteOf(kk2.partner.coming)
           = (kk.down.buf \o t.in.buf) \o ByteOf(kk.partner.coming)
    <2> DEFINE b == ByteOf(kk.partner.coming)
               d == kk.down.buf
               i == t.in.buf
    <2>1. ByteOf(kk2.partner.coming) = << >>
        BY <1>3, <1>4 DEF ByteOf, msg
    <2>2. b \in Seq(Nat)
        BY <1>1 DEF ByteOf, Message, msg
    <2>3. d \in Seq(Nat) /\ i \in Seq(Nat)
        BY <1>8 DEF KernelFits, Channel
    <2>4. t2.in.buf = i \o b /\ kk2.down.buf = d
        BY <1>4, <1>13
    <2> HIDE DEF b, d, i
    <2>5. i \o b \in Seq(Nat) /\ d \o (i \o b) \in Seq(Nat)
        BY <2>2, <2>3, ConcatProperties
    <2>6. (d \o (i \o b)) \o << >> = d \o (i \o b)
        BY <2>5, ConcatEmptySeq
    <2>7. (d \o i) \o b = d \o (i \o b)
        BY <2>2, <2>3, Joined
    <2> QED
        BY <2>1, <2>4, <2>6, <2>7, Zenon DEF b, d, i
<1>17. ASSUME NEW se, Comes(kk, t, se) PROVE Comes(kk2, t2, se)
    BY <1>3, <1>4, <1>13, <1>17 DEF Comes, msg
<1>18. ASSUME NEW c, Good(kk, c, t) PROVE Good(kk2, c, t2)
    <2>1. msg.kind # "rst"
        BY <1>18 DEF Good, Calm, msg
    <2>2. Calm(kk2, c, t2)
        BY <1>3, <1>4, <1>13, <1>18, <2>1 DEF Good, Calm
    <2>3. UpEnds(kk2, c, t2)
        BY <1>3, <1>4, <1>13, <1>18 DEF Good, UpEnds, Finished
    <2>4. Finished(t.in) => Finished(t2.in)
        <3>1. t.in.closed => msg.kind # "byte"
            BY DEF Comes, msg
        <3>2. msg.kind # "byte" => ByteOf(kk.partner.coming) = << >>
            BY DEF ByteOf, msg
        <3> QED
            BY <1>8, <1>13, <3>1, <3>2 DEF Finished
    <2>5. DownEnds(kk2, c, t2)
        BY <1>4, <1>13, <1>18, <2>4 DEF Good, DownEnds
    <2> QED
        BY <2>2, <2>3, <2>5 DEF Good
<1>19. StaysForMain(kk, kk2)
    BY <1>4, LenProperties DEF StaysForMain, Keeps, KernelFits, Channel
<1>20. ThreadGoes(kk, t, kk2, t2)
    BY <1>3, <1>4, <1>13, <1>14, <1>15, <1>16, <1>17, <1>18, <1>19
       DEF ThreadGoes, ThreadMoves
<1> QED
    BY <1>2, <1>20 DEF msg, t2

\* Rule 1: a segment from the partner.
LEMMA SegmentGoes ==
    ASSUME NEW kk, KernelFits(kk), NEW t, ThreadFits(t), NEW se, Comes(kk, t, se),
           kk.partner.coming # << >>
    PROVE  LET s == ReceivesSegment([k |-> kk, m |-> t]) IN
           s = [k |-> s.k, m |-> s.m] /\ ThreadGoes(kk, t, s.k, s.m)
<1> DEFINE k1 == [kk EXCEPT !.partner.coming = Tail(kk.partner.coming)]
           t1 == TakesMessage(t, Head(kk.partner.coming))
           s == ReceivesSegment([k |-> kk, m |-> t])
<1>1. s = SendsNow([k |-> k1, m |-> t1])
    BY DEF ReceivesSegment
<1>2. ThreadGoes(kk, t, k1, t1)
    BY TakingGoes
<1> HIDE DEF k1, t1, s
<1>3. KernelFits(k1) /\ ThreadFits(t1)
    BY <1>2, Zenon DEF ThreadGoes, ThreadMoves
<1>4. s = [k |-> s.k, m |-> s.m] /\ ThreadGoes(k1, t1, s.k, s.m)
    BY <1>1, <1>3, SendingGoes
<1>5. ThreadGoes(kk, t, s.k, s.m)
    BY <1>2, <1>4, ThreadGoesFurther
<1> QED
    BY <1>4, <1>5 DEF s

\* Rule 2: bytes of the application, which are sent at once.
LEMMA UpReadGoes ==
    ASSUME NEW kk, KernelFits(kk), NEW t, ThreadFits(t), ~t.out.closed
    PROVE  LET s == PushesBytes([k |-> kk, m |-> t]) IN
           s = [k |-> s.k, m |-> s.m] /\ ThreadGoes(kk, t, s.k, s.m)
<1> DEFINE o == t.out
           ch == kk.up
           g == Fill(o, ch).stream
           d == Fill(o, ch).channel
           b == t.eof \/ ReadsEof(kk.up)
           u == t.outShut \/ ReadsEof(kk.up)
           k1 == [kk EXCEPT !.up = d]
           t1 == [t EXCEPT !.out = g, !.eof = b, !.outShut = u]
           s == PushesBytes([k |-> kk, m |-> t])
           w == 0 .. FlightLimit
<1>1. s = SendsNow([k |-> k1, m |-> t1])
    BY DEF PushesBytes
<1>2. StreamFits(o) /\ ChannelFits(ch) /\ ~o.closed
    BY DEF ThreadFits, KernelFits
<1>3. Filled(o, ch, g, d)
    BY <1>2, Fills
<1>4. /\ b \in BOOLEAN /\ u \in BOOLEAN /\ (b => g.closed) /\ (g.closed => u)
    BY <1>3 DEF ThreadFits, ReadsEof, Filled
<1> HIDE DEF g, d, b, u, s
<1>5. /\ KernelFits(k1) /\ k1.stdin = kk.stdin /\ k1.stdout = kk.stdout
      /\ k1.up = d /\ k1.down = kk.down /\ k1.partner = kk.partner
    BY <1>3 DEF KernelFits, ChannelFits, Filled
<1>6. /\ ThreadFits(t1) /\ t1.out = g /\ t1.in = t.in /\ t1.inShut = t.inShut
      /\ t1.finSent = t.finSent
    <2>1. t \in ThreadRecord(w)
        BY DEF ThreadFits, ThreadRecord
    <2> HIDE DEF w
    <2>2. /\ t1 \in ThreadRecord(w) /\ t1.out = g /\ t1.in = t.in
          /\ t1.inShut = t.inShut /\ t1.finSent = t.finSent
          /\ t1.eof = b /\ t1.outShut = u
        BY <1>3, <1>4, <2>1 DEF ThreadRecord, Filled, StreamFits
    <2> HIDE DEF t1
    <2> QED
        BY <1>3, <1>4, <2>2 DEF ThreadFits, ThreadRecord, Filled, w
<1> HIDE DEF k1, t1
<1>7. HandsOn(kk, t, k1, t1)
    <2>1. t1.out.buf \o k1.up.buf \in Seq(Nat) /\ kk.partner.got \in Seq(Nat)
        <3>1. g.buf \in Seq(Nat) /\ d.buf \in Seq(Nat)
            BY <1>3 DEF Filled, StreamFits, ChannelFits, Stream, Channel
        <3> QED
            BY <1>5, <1>6, <3>1, ConcatProperties DEF KernelFits, Partner
    <2>2. t.out.buf \o kk.up.buf = << >> \o (t1.out.buf \o k1.up.buf)
        BY <1>3, <1>5, <1>6, <2>1, ConcatEmptySeq DEF Filled
    <2>3. k1.partner.got = kk.partner.got \o << >>
        BY <1>5, <2>1, ConcatEmptySeq
    <2>4. << >> \in Seq(Nat)
        OBVIOUS
    <2> QED
        BY <2>2, <2>3, <2>4 DEF HandsOn
<1>8. ASSUME NEW se, Comes(kk, t, se) PROVE Comes(k1, t1, se)
    BY <1>5, <1>6, <1>8 DEF Comes
<1>9. ASSUME NEW c, Good(kk, c, t) PROVE Good(k1, c, t1)
    <2>1. Calm(k1, c, t1)
        BY <1>3, <1>5, <1>6, <1>9 DEF Good, Calm, Filled
    <2>2. UpEnds(k1, c, t1)
        BY <1>3, <1>5, <1>6, <1>9 DEF Good, UpEnds, Finished, Filled
    <2>3. DownEnds(k1, c, t1)
        BY <1>5, <1>6, <1>9 DEF Good, DownEnds
    <2> QED
        BY <2>1, <2>2, <2>3 DEF Good
<1>10. StaysForMain(kk, k1)
    BY <1>3, <1>5 DEF StaysForMain, Keeps, Filled
<1>11. ThreadGoes(kk, t, k1, t1)
    BY <1>5, <1>6, <1>7, <1>8, <1>9, <1>10 DEF ThreadGoes, ThreadMoves
<1>12. s = [k |-> s.k, m |-> s.m] /\ ThreadGoes(k1, t1, s.k, s.m)
    BY <1>1, <1>5, <1>6, SendingGoes
<1>13. ThreadGoes(kk, t, s.k, s.m)
    BY <1>11, <1>12, ThreadGoesFurther
<1> QED
    BY <1>12, <1>13 DEF s

\* Rule 3: bytes for the application.
LEMMA InboundGoes ==
    ASSUME NEW kk, KernelFits(kk), NEW t, ThreadFits(t), Space(kk.down) > 0
    PROVE  LET s == WritesInbound([k |-> kk, m |-> t]) IN
           s = [k |-> s.k, m |-> s.m] /\ ThreadGoes(kk, t, s.k, s.m)
<1> DEFINE o == t.in
           ch == kk.down
           g == Drain(o, ch).stream
           d == Drain(o, ch).channel
           over == Finished(g) \/ g.error
           b == t.inShut \/ over
           e == IF over THEN Shutdown(d) ELSE d
           kk2 == [kk EXCEPT !.down = e]
           t2 == [t EXCEPT !.in = g, !.inShut = b]
           w == 0 .. FlightLimit
<1>1. WritesInbound([k |-> kk, m |-> t]) = [k |-> kk2, m |-> t2]
    BY DEF WritesInbound
<1>2. StreamFits(o) /\ ChannelFits(ch)
    BY DEF ThreadFits, KernelFits
<1>3. Drained(o, ch, g, d)
    BY <1>2, Drains
<1> HIDE DEF g, d
<1>4. over \in BOOLEAN /\ b \in BOOLEAN
    BY <1>3 DEF ThreadFits, Finished, Drained, StreamFits, Stream
<1>5. /\ ChannelFits(e) /\ e.buf = d.buf /\ e.cap = d.cap /\ e.gone = d.gone
      /\ e.broken = d.broken /\ (d.shut => e.shut)
      /\ (e.shut => d.shut \/ over) /\ (over => e.shut)
    BY <1>3, Shuts DEF Drained
<1> HIDE DEF e, b
<1>6. /\ KernelFits(kk2) /\ kk2.stdin = kk.stdin /\ kk2.stdout = kk.stdout
      /\ kk2.up = kk.up /\ kk2.down = e /\ kk2.partner = kk.partner
    BY <1>5 DEF KernelFits, ChannelFits
<1>7. /\ ThreadFits(t2) /\ t2.out = t.out /\ t2.in = g /\ t2.inShut = b
      /\ t2.finSent = t.finSent
    <2>1. t \in ThreadRecord(w)
        BY DEF ThreadFits, ThreadRecord
    <2> HIDE DEF w
    <2>2. /\ t2 \in ThreadRecord(w) /\ t2.out = t.out /\ t2.in = g
          /\ t2.inShut = b /\ t2.finSent = t.finSent
          /\ t2.eof = t.eof /\ t2.outShut = t.outShut
        BY <1>3, <1>4, <2>1 DEF ThreadRecord, Drained, StreamFits
    <2> HIDE DEF t2
    <2> QED
        BY <1>3, <1>4, <2>2 DEF ThreadFits, ThreadRecord, Drained, w
<1> HIDE DEF kk2, t2
<1>8. HandsOn(kk, t, kk2, t2)
    <2>1. HandsOn(kk, t, kk, t)
        BY ThreadGoesNowhere, Zenon DEF ThreadGoes, ThreadMoves
    <2> QED
        BY <1>6, <1>7, <2>1 DEF HandsOn
<1>9. ASSUME NEW se, Comes(kk, t, se) PROVE Comes(kk2, t2, se)
    <2>1. Available(t.in) > 0 => Available(t2.in) > 0
        <3>1. /\ Len(o.buf) \in Nat /\ Len(g.buf) \in Nat /\ o.cap \in Nat
              /\ g.cap = o.cap /\ Len(g.buf) <= Len(o.buf)
            BY <1>2, <1>3, LenProperties DEF Drained, StreamFits, Stream
        <3> QED
            BY <1>7, <3>1 DEF Available
    <2> QED
        BY <1>3, <1>6, <1>7, <1>9, <2>1 DEF Comes, Drained
<1>10. ASSUME NEW c, Good(kk, c, t) PROVE Good(kk2, c, t2)
    <2>1. ch.shut => o.closed /\ o.buf = << >> /\ g = o /\ d = ch
        BY <1>3, <1>10 DEF Good, DownEnds, Finished, Drained
    <2>2. d.broken = ch.broken
        BY <1>3, <1>10, <2>1 DEF Good, Calm, Deaf, Drained
    <2>3. Calm(kk2, c, t2)
        BY <1>3, <1>5, <1>6, <1>7, <1>10, <2>2 DEF Good, Calm, Drained
    <2>4. UpEnds(kk2, c, t2)
        BY <1>6, <1>7, <1>10 DEF Good, UpEnds
    <2>5. ~g.error
        BY <1>3, <1>10 DEF Good, Calm, Drained
    <2>6. DownEnds(kk2, c, t2)
        BY <1>3, <1>5, <1>6, <1>7, <1>10, <2>1, <2>5
           DEF Good, DownEnds, Finished, b, Drained
    <2> QED
        BY <2>3, <2>4, <2>6 DEF Good
<1>11. StaysForMain(kk, kk2)
    <2>1. ch.buf \in Seq(Nat) /\ d.buf \in Seq(Nat)
        BY <1>2, <1>3 DEF ChannelFits, Channel, Drained
    <2>2. ch.buf # << >> => d.buf # << >>
        BY <1>3, <2>1, EmptySeq, LenProperties DEF Drained
    <2>3. Len(kk.up.buf) <= Len(kk.up.buf)
        BY LenProperties DEF KernelFits, Channel
    <2> QED
        BY <1>3, <1>5, <1>6, <2>2, <2>3 DEF StaysForMain, Keeps, Readable, Drained
<1>12. (kk2.down.buf \o t2.in.buf) \o ByteOf(kk2.partner.coming)
           = (kk.down.buf \o t.in.buf) \o ByteOf(kk.partner.coming)
    BY <1>3, <1>5, <1>6, <1>7, Zenon DEF Drained
<1>13. ThreadGoes(kk, t, kk2, t2)
    BY <1>6, <1>7, <1>8, <1>9, <1>10, <1>11, <1>12 DEF ThreadGoes, ThreadMoves
<1> QED
    BY <1>1, <1>13

-----------------------------------------------------------------------------
(***************************************************************************)
(* A call of the thread's wait_next_event, in the same way.                *)
(***************************************************************************)
ThreadEnded(t, r) == r = "push bytes" /\ t.eof

ThreadLooked(kk, t, rules, D, v) ==
    v = [st    |-> [k |-> kk, m |-> t],
         rules |-> rules \ {r \in D : ThreadEnded(t, r)},
         asked |-> {r \in rules \cap D : /\ ~ThreadEnded(t, r)
                                         /\ ThreadInterest([k |-> kk, m |-> t], r)}]

\* One turn of the thread's loop before poll.
LEMMA ThreadLooks ==
    ASSUME NEW kk, NEW t, ThreadFits(t), NEW rules, NEW D, NEW v,
           ThreadLooked(kk, t, rules, D, v),
           NEW r \in ThreadRuleSet \ D
    PROVE  ThreadLooked(kk, t, rules, D \cup {r}, Thread!LooksAt(v, r))
<1> DEFINE st == [k |-> kk, m |-> t]
           R == rules \ {x \in D : ThreadEnded(t, x)}
           A == {x \in rules \cap D : ~ThreadEnded(t, x) /\ ThreadInterest(st, x)}
           i == ThreadInterest(st, r)
           e == ThreadEnded(t, r)
           w == Thread!LooksAt(v, r)
<1>1. v = [st |-> st, rules |-> R, asked |-> A]
    BY DEF ThreadLooked
<1>2. r \in R <=> r \in rules
    OBVIOUS
<1>3. ((ThreadReads(r) /\ ThreadAtEof(st, r)) \/ ThreadIsClosed(st, r)) <=> e
    BY DEF ThreadReads, ThreadAtEof, ThreadIsClosed, ThreadEnded, ThreadRuleSet
<1>4. e => ThreadCancel(st, r) = st
    <2>1. e => r = "push bytes" /\ t.out.closed /\ t.outShut = TRUE
        BY DEF ThreadFits, ThreadEnded
    <2>2. e => Close(t.out) = t.out
        BY <2>1, Marks DEF ThreadFits
    <2>3. r = "push bytes" => ThreadCancel(st, r)
              = [k |-> kk, m |-> [t EXCEPT !.out = Close(t.out), !.outShut = TRUE]]
        BY DEF ThreadCancel
    <2>4. [t EXCEPT !.out = t.out, !.outShut = t.outShut] = t
        BY DEF ThreadFits
    <2> QED
        BY <2>1, <2>2, <2>3, <2>4
<1>5. w = IF r \notin v.rules THEN v
          ELSE IF e THEN [v EXCEPT !.st = ThreadCancel(v.st, r), !.rules = v.rules \ {r}]
          ELSE IF i THEN [v EXCEPT !.asked = v.asked \cup {r}]
          ELSE v
    BY <1>1, <1>3 DEF Thread!LooksAt
<1>6. rules \ {x \in D \cup {r} : ThreadEnded(t, x)} = IF e THEN R \ {r} ELSE R
    OBVIOUS
<1>7. {x \in rules \cap (D \cup {r}) : ~ThreadEnded(t, x) /\ ThreadInterest(st, x)}
          = IF r \in rules /\ ~e /\ i THEN A \cup {r} ELSE A
    <2> HIDE DEF st
    <2> QED
        OBVIOUS
<1> HIDE DEF st, A, R, e, i, w
<1>8. w = [st |-> st, rules |-> IF e THEN R \ {r} ELSE R,
           asked |-> IF r \in rules /\ ~e /\ i THEN A \cup {r} ELSE A]
    <2>1. r \notin R => (IF e THEN R \ {r} ELSE R) = R
        OBVIOUS
    <2>2. CASE r \notin R
        BY <1>1, <1>2, <1>5, <2>1, <2>2
    <2>3. CASE r \in R /\ e
        BY <1>1, <1>2, <1>4, <1>5, <2>3
    <2>4. CASE r \in R /\ ~e
        BY <1>1, <1>2, <1>5, <2>4
    <2> QED
        BY <2>2, <2>3, <2>4
<1> QED
    BY <1>6, <1>7, <1>8 DEF ThreadLooked, w, st

\* The thread's loop before poll has looked at every rule.
LEMMA ThreadPreparesEnds ==
    ASSUME NEW kk, NEW t, ThreadFits(t), NEW rules, rules \subseteq ThreadRuleSet
    PROVE  ThreadLooked(kk, t, rules, ThreadRuleSet,
                        Thread!Prepares([k |-> kk, m |-> t], rules))
<1> DEFINE st == [k |-> kk, m |-> t]
           v0 == [st |-> st, rules |-> rules, asked |-> {}]
           v1 == Thread!LooksAt(v0, "segment")
           v2 == Thread!LooksAt(v1, "push bytes")
           v3 == Thread!LooksAt(v2, "inbound")
           D1 == {} \cup {"segment"}
           D2 == D1 \cup {"push bytes"}
           D3 == D2 \cup {"inbound"}
<1>1. Thread!Prepares(st, rules) = v3
    BY ThreadPreparesInTurn
<1>2. ThreadLooked(kk, t, rules, {}, v0)
    BY DEF ThreadLooked
<1>3. /\ "segment" \in ThreadRuleSet \ {} /\ "push bytes" \in ThreadRuleSet \ D1
      /\ "inbound" \in ThreadRuleSet \ D2 /\ D3 = ThreadRuleSet
    BY DEF ThreadRuleSet
<1> HIDE DEF v0, v1, v2, v3, D1, D2, D3
<1>4. ThreadLooked(kk, t, rules, D1, v1)
    BY <1>2, <1>3, ThreadLooks DEF D1, v1
<1>5. ThreadLooked(kk, t, rules, D2, v2)
    BY <1>3, <1>4, ThreadLooks DEF D2, v2
<1>6. ThreadLooked(kk, t, rules, D3, v3)
    BY <1>3, <1>5, ThreadLooks DEF D3, v3
<1> QED
    BY <1>1, <1>3, <1>6

\* A hangup cancels no rule but "inbound", whose cancel does nothing.
ThreadGets(kk, t, rules, acc) ==
    /\ acc = [st |-> [k |-> acc.st.k, m |-> acc.st.m], rules |-> acc.rules,
              served |-> acc.served, again |-> acc.again, busy |-> FALSE]
    /\ acc.rules \subseteq rules
    /\ "segment" \in rules => "segment" \in acc.rules
    /\ ThreadGoes(kk, t, acc.st.k, acc.st.m)
    /\ acc.served = << >> => acc.st = [k |-> kk, m |-> t]
    /\ ThreadRulesGone(kk, t, rules)
          => ThreadRulesGone(acc.st.k, acc.st.m, acc.rules)

\* What a callback does takes nothing back of a rule that has been erased.
LEMMA ThreadRulesStayGone ==
    ASSUME NEW kk, NEW t, NEW kk2, NEW t2, ThreadGoes(kk, t, kk2, t2),
           NEW rules, ThreadRulesGone(kk, t, rules)
    PROVE  ThreadRulesGone(kk2, t2, rules)
BY Zenon DEF ThreadGoes, ThreadMoves, StaysForMain, Keeps, ThreadRulesGone

ThreadServed(kk, t, r, s) ==
    /\ s = [k |-> s.k, m |-> s.m] /\ ThreadGoes(kk, t, s.k, s.m)
    /\ ThreadTouches([k |-> kk, m |-> t], r)

\* The callback of a ready rule of the thread.
LEMMA ThreadServesRule ==
    ASSUME NEW kk, KernelFits(kk), NEW t, ThreadFits(t), NEW se, Comes(kk, t, se),
           NEW rev, ThreadAnswer(kk, rev),
           NEW r \in ThreadRuleSet, ThreadInterest([k |-> kk, m |-> t], r),
           (IF ThreadReads(r) THEN "IN" ELSE "OUT") \in rev[r]
    PROVE  ThreadServed(kk, t, r, ThreadCallback([k |-> kk, m |-> t], r))
<1> DEFINE st == [k |-> kk, m |-> t]
<1>1. CASE r = "segment"
    <2>1. kk.partner.coming # << >>
        BY <1>1 DEF ThreadAnswer, ThreadReads
    <2>2. ThreadCallback(st, r) = ReceivesSegment(st) /\ ThreadTouches(st, r)
        BY <1>1 DEF ThreadCallback, ThreadTouches
    <2> QED
        BY <2>1, <2>2, SegmentGoes DEF ThreadServed
<1>2. CASE r = "push bytes"
    <2>1. ~t.out.closed
        BY <1>2 DEF ThreadInterest, ThreadFits
    <2>2. ThreadCallback(st, r) = PushesBytes(st)
        BY <1>2 DEF ThreadCallback
    <2>3. ThreadTouches(st, r)
        BY <1>2 DEF ThreadTouches, ThreadAnswer, ThreadReads, ReadsEof
    <2> QED
        BY <2>1, <2>2, <2>3, UpReadGoes DEF ThreadServed
<1>3. CASE r = "inbound"
    <2>1. Space(kk.down) > 0
        BY <1>3 DEF ThreadAnswer, ThreadReads
    <2>2. ThreadCallback(st, r) = WritesInbound(st)
        BY <1>3 DEF ThreadCallback
    <2>3. ThreadTouches(st, r)
        BY <1>3 DEF ThreadTouches, ThreadInterest
    <2> QED
        BY <2>1, <2>2, <2>3, InboundGoes DEF ThreadServed
<1> QED
    BY <1>1, <1>2, <1>3 DEF ThreadRuleSet

\* One turn of the thread's loop behind poll.
LEMMA ThreadAnswers ==
    ASSUME NEW kk, KernelFits(kk), NEW t, ThreadFits(t), NEW se, Comes(kk, t, se),
           NEW rules,
           NEW asked, \A r \in asked : ThreadInterest([k |-> kk, m |-> t], r),
           NEW rev, ThreadAnswer(kk, rev),
           NEW acc, ThreadGets(kk, t, rules, acc), NEW r \in ThreadRuleSet
    PROVE  ThreadGets(kk, t, rules, Thread!Answers(acc, r, asked, rev))
<1> DEFINE st == [k |-> kk, m |-> t]
           w == Thread!Answers(acc, r, asked, rev)
           R == acc.rules \ {r}
<1>1. CASE acc.served # << >> \/ r \notin acc.rules
    <2>1. w = acc
        BY <1>1 DEF Thread!Answers
    <2> QED
        BY <2>1
<1>2. CASE acc.served = << >> /\ r \in acc.rules
    <2>1. acc.st = st
        BY <1>2 DEF ThreadGets
    <2>2. acc = [st |-> st, rules |-> acc.rules, served |-> << >>,
                 again |-> acc.again, busy |-> FALSE]
        <3>1. acc.st.k = kk /\ acc.st.m = t
            BY <2>1
        <3> QED
            BY <1>2, <3>1, Zenon DEF ThreadGets
    <2>3. ThreadGoes(kk, t, kk, t)
        BY ThreadGoesNowhere
    <2>4. /\ acc.rules \subseteq rules
          /\ "segment" \in rules => "segment" \in acc.rules
          /\ ThreadRulesGone(kk, t, rules) => ThreadRulesGone(kk, t, acc.rules)
        BY <2>1 DEF ThreadGets
    <2>5. "ERR" \notin rev[r]
        <3>1. "ERR" \notin rev["segment"]
            BY DEF ThreadAnswer
        <3>2. "ERR" \notin rev["push bytes"] /\ "ERR" \notin rev["inbound"]
            BY DEF ThreadAnswer
        <3> QED
            BY <3>1, <3>2 DEF ThreadRuleSet
    <2>6. CASE Thread!Defunct(asked, rev, r)
        <3>1. r = "inbound" /\ kk.down.shut
            BY <2>6 DEF Thread!Defunct, Thread!Ready, ThreadAnswer, ThreadRuleSet,
               ThreadReads
        <3>2. ThreadCancel(st, r) = st
            BY <3>1 DEF ThreadCancel
        <3>3. w = [acc EXCEPT !.st = st, !.rules = R]
            BY <1>2, <2>1, <2>5, <2>6, <3>2 DEF Thread!Answers
        <3>4. w = [st |-> st, rules |-> R, served |-> << >>,
                   again |-> acc.again, busy |-> FALSE]
            <4> DEFINE left == acc.rules
                       again == acc.again
            <4>1. acc = [st |-> st, rules |-> left, served |-> << >>,
                         again |-> again, busy |-> FALSE]
                BY <2>2
            <4> HIDE DEF left, again, R, st, w
            <4>2. w = [st |-> st, rules |-> R, served |-> << >>,
                       again |-> again, busy |-> FALSE]
                BY <3>3, <4>1
            <4> QED
                BY <4>2, Zenon DEF again
        <3> HIDE DEF w
        <3>5. ThreadRulesGone(kk, t, acc.rules) => ThreadRulesGone(kk, t, R)
            BY <3>1 DEF ThreadRulesGone
        <3>6. "segment" \in acc.rules => "segment" \in R
            BY <3>1
        <3>7. ThreadGets(kk, t, rules, w)
            BY <2>3, <2>4, <3>4, <3>5, <3>6 DEF ThreadGets
        <3> QED
            BY <3>7 DEF w
    <2>7. CASE ~Thread!Defunct(asked, rev, r) /\ Thread!Ready(asked, rev, r)
        <3> DEFINE s == ThreadCallback(st, r)
                   again == ~ThreadIsClosed(s, r) /\ ThreadInterest(s, r)
                   busy == again /\ ~ThreadTouches(st, r)
        <3>1. /\ ThreadInterest([k |-> kk, m |-> t], r)
              /\ (IF ThreadReads(r) THEN "IN" ELSE "OUT") \in rev[r]
            BY <2>7 DEF Thread!Ready
        <3>2. ThreadServed(kk, t, r, s)
            BY <3>1, ThreadServesRule
        <3>3. w = [acc EXCEPT !.st = s, !.served = << r >>, !.again = again,
                              !.busy = busy]
            BY <1>2, <2>1, <2>5, <2>7 DEF Thread!Answers
        <3>4. busy = FALSE
            BY <3>2 DEF ThreadServed
        <3> HIDE DEF s, w, again, busy
        <3>5. s = [k |-> s.k, m |-> s.m] /\ ThreadGoes(kk, t, s.k, s.m)
            BY <3>2 DEF ThreadServed
        <3>6. w = [st |-> [k |-> s.k, m |-> s.m], rules |-> acc.rules,
                   served |-> << r >>, again |-> again, busy |-> FALSE]
            BY <2>2, <3>3, <3>4, <3>5
        <3>7. ThreadRulesGone(kk, t, acc.rules) => ThreadRulesGone(s.k, s.m, acc.rules)
            BY <3>5, ThreadRulesStayGone
        <3>8. ThreadGets(kk, t, rules, w)
            BY <2>4, <3>5, <3>6, <3>7 DEF ThreadGets
        <3> QED
            BY <3>8 DEF w
    <2>8. CASE ~Thread!Defunct(asked, rev, r) /\ ~Thread!Ready(asked, rev, r)
        <3>1. w = acc
            BY <1>2, <2>5, <2>8 DEF Thread!Answers
        <3> QED
            BY <3>1
    <2> QED
        BY <2>6, <2>7, <2>8
<1> QED
    BY <1>1, <1>2

\* The thread's loop behind poll as a whole.
LEMMA ThreadServesEnds ==
    ASSUME NEW kk, KernelFits(kk), NEW t, ThreadFits(t), NEW se, Comes(kk, t, se),
           NEW rules, rules \subseteq ThreadRuleSet,
           NEW asked, \A r \in asked : ThreadInterest([k |-> kk, m |-> t], r),
           NEW rev, ThreadAnswer(kk, rev)
    PROVE  ThreadGets(kk, t, rules,
                      Thread!Serves([k |-> kk, m |-> t], rules, asked, rev))
<1> DEFINE st == [k |-> kk, m |-> t]
           v0 == [st |-> st, rules |-> rules, served |-> << >>, again |-> FALSE,
                  busy |-> FALSE]
           v1 == Thread!Answers(v0, "segment", asked, rev)
           v2 == Thread!Answers(v1, "push bytes", asked, rev)
           v3 == Thread!Answers(v2, "inbound", asked, rev)
<1>1. Thread!Serves(st, rules, asked, rev) = v3
    BY ThreadServesInTurn
<1>2. ThreadGets(kk, t, rules, v0)
    <2>1. ThreadGoes(kk, t, kk, t)
        BY ThreadGoesNowhere
    <2> QED
        BY <2>1 DEF ThreadGets
<1>3. {"segment", "push bytes", "inbound"} = ThreadRuleSet
    BY DEF ThreadRuleSet
<1> HIDE DEF v0, v1, v2, v3
<1>4. ThreadGets(kk, t, rules, v1)
    BY <1>2, <1>3, ThreadAnswers DEF v1
<1>5. ThreadGets(kk, t, rules, v2)
    BY <1>3, <1>4, ThreadAnswers DEF v2
<1>6. ThreadGets(kk, t, rules, v3)
    BY <1>3, <1>5, ThreadAnswers DEF v3
<1> QED
    BY <1>1, <1>6

\* The rules of the next call.
LEMMA CopyPrepared ==
    ASSUME NEW kk, NEW c, NEW rules, rules \subseteq CopyRuleSet,
           NEW p, CopyLooked(kk, c, rules, CopyRuleSet, p)
    PROVE  MainLoop(kk, c, Prepared(p)) /\ p.rules \subseteq rules
<1>1. /\ p.rules \subseteq rules /\ p.asked \subseteq p.rules
      /\ \A r \in p.asked : CopyInterest([k |-> kk, m |-> c], r)
    BY DEF CopyLooked
<1> DEFINE left == p.rules
           asked == p.asked
           l == [rules |-> left, asked |-> asked, answer |-> << >>]
<1>2. Prepared(p) = l
    BY DEF Prepared, NoAnswer
<1> HIDE DEF left, asked
<1>3. l.rules = left /\ l.asked = asked /\ l.answer = << >>
    OBVIOUS
<1> HIDE DEF l
<1>4. l = [rules |-> l.rules, asked |-> l.asked, answer |-> l.answer]
    BY <1>3, Zenon DEF l
<1>5. MainLoop(kk, c, l)
    BY <1>1, <1>3, <1>4 DEF MainLoop, NoAnswer, left, asked
<1> QED
    BY <1>1, <1>2, <1>5

\* The rules of the thread's next call.
LEMMA ThreadPrepared ==
    ASSUME NEW kk, NEW t, NEW rules, rules \subseteq ThreadRuleSet,
           "segment" \in rules,
           NEW p, ThreadLooked(kk, t, rules, ThreadRuleSet, p)
    PROVE  ThreadLoop(kk, t, Prepared(p)) /\ p.rules \subseteq rules
<1>1. /\ p.rules \subseteq rules /\ p.asked \subseteq p.rules
      /\ "segment" \in p.rules
      /\ \A r \in p.asked : ThreadInterest([k |-> kk, m |-> t], r)
    BY DEF ThreadLooked, ThreadEnded
<1> DEFINE left == p.rules
           asked == p.asked
           l == [rules |-> left, asked |-> asked, answer |-> << >>]
<1>2. Prepared(p) = l
    BY DEF Prepared, NoAnswer
<1> HIDE DEF left, asked
<1>3. l.rules = left /\ l.asked = asked /\ l.answer = << >>
    OBVIOUS
<1> HIDE DEF l
<1>4. l = [rules |-> l.rules, asked |-> l.asked, answer |-> l.answer]
    BY <1>3, Zenon DEF l
<1>5. ThreadLoop(kk, t, l)
    BY <1>1, <1>3, <1>4 DEF ThreadLoop, NoAnswer, left, asked
<1> QED
    BY <1>1, <1>2, <1>5

\* A rule that the thread erases before poll has nothing left to do.
LEMMA ThreadLooksGone ==
    ASSUME NEW kk, NEW t, ThreadFits(t), NEW rules, rules \subseteq ThreadRuleSet,
           ThreadRulesGone(kk, t, rules),
           NEW p, ThreadLooked(kk, t, rules, ThreadRuleSet, p)
    PROVE  ThreadRulesGone(kk, t, p.rules)
BY DEF ThreadFits, ThreadRulesGone, ThreadLooked, ThreadEnded, ThreadRuleSet

\* The thread hangs up only when the socket pair has been shut down both ways.
LEMMA ThreadAllDone ==
    ASSUME NEW kk, NEW t, ThreadFits(t), NEW rules, rules \subseteq ThreadRuleSet,
           "segment" \in rules,
           NEW c, Good(kk, c, t), ThreadRulesGone(kk, t, rules),
           NEW p, ThreadLooked(kk, t, rules, ThreadRuleSet, p), p.asked = {}
    PROVE  kk.up.shut /\ kk.down.shut
<1>1. ThreadRulesGone(kk, t, p.rules)
    BY ThreadLooksGone
<1>2. \A r \in p.rules : ~ThreadInterest([k |-> kk, m |-> t], r)
    BY DEF ThreadLooked, ThreadRuleSet
<1>3. "segment" \in p.rules
    BY DEF ThreadLooked, ThreadEnded
<1>4. ~t.out.error /\ ~t.in.error
    BY DEF Good, Calm
<1>5. Finished(t.out) /\ t.in.closed
    BY <1>2, <1>3, <1>4 DEF ThreadInterest, ThreadActive
<1>6. kk.up.shut
    BY <1>5 DEF Finished, Good, UpEnds
<1>7. kk.down.shut
    BY <1>1, <1>2, <1>5 DEF ThreadRulesGone, ThreadInterest, Finished, Good, DownEnds
<1> QED
    BY <1>6, <1>7

-----------------------------------------------------------------------------
(***************************************************************************)
(* What the two threads do when they end.                                  *)
(***************************************************************************)
LEMMA HangsNowhere ==
    ASSUME NEW kk, KernelFits(kk), kk.up.shut, kk.down.shut
    PROVE  Hangs(kk) = kk
<1>1. Shutdown(kk.up) = kk.up /\ Shutdown(kk.down) = kk.down
    BY Shuts DEF KernelFits
<1>2. [kk EXCEPT !.up = kk.up, !.down = kk.down] = kk
    BY DEF KernelFits
<1> QED
    BY <1>1, <1>2 DEF Hangs

\* wait_until_closed and the end of _tcp_main shut down the socket pair.
LEMMA HangingMoves ==
    ASSUME NEW kk, KernelFits(kk)
    PROVE  /\ \A c : CopyFits(c) => CopyMoves(kk, c, Hangs(kk), c)
           /\ \A t : ThreadFits(t) => ThreadMoves(kk, t, Hangs(kk), t)
<1> DEFINE d == Shutdown(kk.up)
           e == Shutdown(kk.down)
           kk2 == Hangs(kk)
<1>1. /\ ChannelFits(d) /\ d.shut /\ d.buf = kk.up.buf /\ d.cap = kk.up.cap
      /\ d.gone = kk.up.gone
    BY Shuts DEF KernelFits
<1>2. /\ ChannelFits(e) /\ e.shut /\ e.buf = kk.down.buf /\ e.cap = kk.down.cap
      /\ e.gone = kk.down.gone
    BY Shuts DEF KernelFits
<1>3. kk2 = [kk EXCEPT !.up = d, !.down = e]
    BY DEF Hangs
<1> HIDE DEF d, e, kk2
<1>4. /\ KernelFits(kk2) /\ kk2.stdin = kk.stdin /\ kk2.stdout = kk.stdout
      /\ kk2.up = d /\ kk2.down = e /\ kk2.partner = kk.partner
    BY <1>1, <1>2, <1>3 DEF KernelFits, ChannelFits
<1>5. /\ Len(kk.down.buf) <= Len(kk.down.buf) /\ Len(kk.up.buf) <= Len(kk.up.buf)
    BY LenProperties DEF KernelFits, Channel
<1>6. ASSUME NEW c, CopyFits(c) PROVE CopyMoves(kk, c, kk2, c)
    BY <1>1, <1>2, <1>4, <1>5, <1>6 DEF CopyMoves, Keeps, Readable
<1>7. ASSUME NEW t, ThreadFits(t) PROVE ThreadMoves(kk, t, kk2, t)
    <2>1. HandsOn(kk, t, kk, t)
        BY <1>7, ThreadGoesNowhere DEF ThreadGoes, ThreadMoves
    <2>2. HandsOn(kk, t, kk2, t)
        BY <1>1, <1>4, <2>1 DEF HandsOn
    <2>3. \A se : Comes(kk, t, se) => Comes(kk2, t, se)
        BY <1>4 DEF Comes
    <2> QED
        BY <1>1, <1>2, <1>4, <1>5, <1>7, <2>2, <2>3
           DEF ThreadMoves, StaysForMain, Keeps, Readable
<1> QED
    BY <1>6, <1>7 DEF kk2

\* The program has ended: nobody writes to standard output any more.
LEMMA EndingMoves ==
    ASSUME NEW kk, KernelFits(kk), NEW c, CopyFits(c)
    PROVE  LET kk2 == [kk EXCEPT !.stdout = Shutdown(kk.stdout)] IN
           CopyMoves(kk, c, kk2, c) /\ (kk.stdout.shut => kk2 = kk)
<1> DEFINE d == Shutdown(kk.stdout)
           kk2 == [kk EXCEPT !.stdout = d]
<1>1. /\ ChannelFits(d) /\ d.shut /\ d.buf = kk.stdout.buf /\ d.cap = kk.stdout.cap
      /\ d.gone = kk.stdout.gone /\ (kk.stdout.shut => d = kk.stdout)
    BY Shuts DEF KernelFits
<1> HIDE DEF d
<1>2. /\ KernelFits(kk2) /\ kk2.stdin = kk.stdin /\ kk2.stdout = d
      /\ kk2.up = kk.up /\ kk2.down = kk.down /\ kk2.partner = kk.partner
      /\ (d = kk.stdout => kk2 = kk)
    BY <1>1 DEF KernelFits, ChannelFits
<1> HIDE DEF kk2
<1>3. Len(kk.down.buf) <= Len(kk.down.buf)
    BY LenProperties DEF KernelFits, Channel
<1>4. CopyMoves(kk, c, kk2, c)
    BY <1>1, <1>2, <1>3 DEF CopyMoves, Keeps
<1> QED
    BY <1>1, <1>2, <1>4 DEF kk2, d

\* _linger_after_streams_finish is about nothing else.
LEMMA LingeringGoes ==
    ASSUME NEW kk, KernelFits(kk), NEW t, ThreadFits(t)
    PROVE  LET t2 == [t EXCEPT !.linger = FALSE] IN
           /\ ThreadGoes(kk, t, kk, t2)
           /\ \A rules : ThreadRulesGone(kk, t, rules) => ThreadRulesGone(kk, t2, rules)
<1> DEFINE t2 == [t EXCEPT !.linger = FALSE]
           w == 0 .. FlightLimit
<1>1. t \in ThreadRecord(w)
    BY DEF ThreadFits, ThreadRecord
<1> HIDE DEF w
<1>2. /\ t2 \in ThreadRecord(w) /\ t2.out = t.out /\ t2.in = t.in /\ t2.eof = t.eof
      /\ t2.outShut = t.outShut /\ t2.inShut = t.inShut /\ t2.finSent = t.finSent
    BY <1>1 DEF ThreadRecord
<1> HIDE DEF t2
<1>3. ThreadFits(t2)
    BY <1>2 DEF ThreadFits, ThreadRecord, w
<1>4. ThreadGoes(kk, t, kk, t)
    BY ThreadGoesNowhere
<1>5. HandsOn(kk, t, kk, t2)
    BY <1>2, <1>4 DEF ThreadGoes, ThreadMoves, HandsOn
<1>6. \A se : Comes(kk, t, se) => Comes(kk, t2, se)
    BY <1>2 DEF Comes
<1>7. \A c : Good(kk, c, t) => Good(kk, c, t2)
    BY <1>2 DEF Good, Calm, UpEnds, DownEnds
<1>8. ThreadGoes(kk, t, kk, t2)
    BY <1>2, <1>3, <1>4, <1>5, <1>6, <1>7 DEF ThreadGoes, ThreadMoves
<1>9. \A rules : ThreadRulesGone(kk, t, rules) => ThreadRulesGone(kk, t2, rules)
    BY <1>2 DEF ThreadRulesGone
<1> QED
    BY <1>8, <1>9 DEF t2

-----------------------------------------------------------------------------
(***************************************************************************)
(* The bytes under way, and what a step of one thread leaves to the other. *)
(***************************************************************************)
\* Joining as an operator of its own: the provers reason about it by the two
\* facts of OntoFacts and nothing else.
Onto(s, t) == s \o t

\* Onto is closed over sequences and associative.
LEMMA OntoFacts ==
    ASSUME NEW s \in Seq(Nat), NEW t \in Seq(Nat)
    PROVE  /\ Onto(s, t) \in Seq(Nat)
           /\ \A u \in Seq(Nat) : Onto(Onto(s, t), u) = Onto(s, Onto(t, u))
<1>1. Onto(s, t) \in Seq(Nat)
    BY ConcatProperties DEF Onto
<1>2. ASSUME NEW u \in Seq(Nat) PROVE Onto(Onto(s, t), u) = Onto(s, Onto(t, u))
    BY Joined DEF Onto
<1> QED
    BY <1>1, <1>2

UpTransit(kk, c, t) ==
    t.out.buf \o kk.up.buf \o c.out.buf \o kk.stdin.buf

DownTransit(kk, c, t) ==
    kk.stdout.buf \o c.in.buf \o kk.down.buf \o t.in.buf \o ByteOf(kk.partner.coming)

\* What the partner has sent holds at most a byte.
LEMMA ByteTyped ==
    ASSUME NEW kk, KernelFits(kk)
    PROVE  ByteOf(kk.partner.coming) \in Seq(Nat)
<1> DEFINE q == kk.partner.coming
<1>1. CASE q = << >> \/ Head(q).kind # "byte"
    BY <1>1 DEF ByteOf
<1>2. CASE q # << >> /\ Head(q).kind = "byte"
    <2>1. Head(q) \in Message
        BY <1>2, Arrives
    <2>2. Head(q).byte \in Nat
        BY <1>2, <2>1 DEF Message
    <2> QED
        BY <1>2, <2>2 DEF ByteOf
<1> QED
    BY <1>1, <1>2

\* All the places of the two directions hold sequences of bytes.
LEMMA BuffersTyped ==
    ASSUME NEW kk, KernelFits(kk), NEW c, CopyFits(c), NEW t, ThreadFits(t)
    PROVE  /\ kk.stdin.buf \in Seq(Nat) /\ kk.stdout.buf \in Seq(Nat)
           /\ kk.up.buf \in Seq(Nat) /\ kk.down.buf \in Seq(Nat)
           /\ c.out.buf \in Seq(Nat) /\ c.in.buf \in Seq(Nat)
           /\ t.out.buf \in Seq(Nat) /\ t.in.buf \in Seq(Nat)
           /\ ByteOf(kk.partner.coming) \in Seq(Nat)
           /\ kk.partner.got \in Seq(Nat)
           /\ UpTransit(kk, c, t) \in Seq(Nat) /\ DownTransit(kk, c, t) \in Seq(Nat)
<1>1. /\ kk.stdin.buf \in Seq(Nat) /\ kk.stdout.buf \in Seq(Nat)
      /\ kk.up.buf \in Seq(Nat) /\ kk.down.buf \in Seq(Nat)
      /\ kk.partner.got \in Seq(Nat)
    BY DEF KernelFits, Channel, Partner
<1>2. /\ c.out.buf \in Seq(Nat) /\ c.in.buf \in Seq(Nat)
      /\ t.out.buf \in Seq(Nat) /\ t.in.buf \in Seq(Nat)
    BY DEF CopyFits, ThreadFits, StreamFits, Stream
<1>3. ByteOf(kk.partner.coming) \in Seq(Nat)
    BY ByteTyped
<1>4. UpTransit(kk, c, t) \in Seq(Nat)
    BY <1>1, <1>2, ConcatProperties DEF UpTransit
<1>5. DownTransit(kk, c, t) \in Seq(Nat)
    BY <1>1, <1>2, <1>3, ConcatProperties DEF DownTransit
<1> QED
    BY <1>1, <1>2, <1>3, <1>4, <1>5

\* An end arrives only behind the last byte.
LEMMA LastUp ==
    ASSUME NEW kk, NEW c, NEW t, Good(kk, c, t), kk.partner.ended
    PROVE  UpTransit(kk, c, t) = << >> /\ kk.stdin.shut
<1>1. t.out.buf = << >> /\ t.out.closed
    BY DEF Good, UpEnds, Finished
<1>2. kk.up.buf = << >> /\ kk.up.shut
    BY <1>1 DEF Good, UpEnds
<1>3. c.out.buf = << >> /\ c.out.closed
    BY <1>2 DEF Good, UpEnds, Finished
<1>4. kk.stdin.buf = << >> /\ kk.stdin.shut
    BY <1>3 DEF Good, UpEnds
<1>5. << >> \o << >> = << >>
    OBVIOUS
<1> QED
    BY <1>1, <1>2, <1>3, <1>4, <1>5, Zenon DEF UpTransit

\* The same of the other direction.
LEMMA LastDown ==
    ASSUME NEW kk, NEW c, NEW t, Good(kk, c, t), NEW se, Comes(kk, t, se),
           kk.stdout.shut, kk.stdout.buf = << >>
    PROVE  DownTransit(kk, c, t) = << >> /\ se.closed
<1>1. c.in.buf = << >> /\ c.in.closed
    BY DEF Good, DownEnds, Finished
<1>2. kk.down.buf = << >> /\ kk.down.shut
    BY <1>1 DEF Good, DownEnds
<1>3. t.in.buf = << >> /\ t.in.closed
    BY <1>2 DEF Good, DownEnds, Finished
<1>4. se.closed
    BY <1>3 DEF Comes
<1>5. ByteOf(kk.partner.coming) = << >>
    BY <1>4 DEF Comes, ByteOf
<1>6. << >> \o << >> = << >>
    OBVIOUS
<1> QED
    BY <1>1, <1>2, <1>3, <1>4, <1>5, <1>6, Zenon DEF DownTransit

\* A step of the main thread leaves the other one what it relies on.
LEMMA MainLeaves ==
    ASSUME NEW kk, KernelFits(kk), NEW c, CopyFits(c), NEW kk2, NEW c2,
           CopyMoves(kk, c, kk2, c2), NEW t, ThreadFits(t)
    PROVE  /\ UpTransit(kk2, c2, t) = UpTransit(kk, c, t)
           /\ DownTransit(kk2, c2, t) = DownTransit(kk, c, t)
           /\ \A se : Comes(kk, t, se) => Comes(kk2, t, se)
           /\ \A l : ThreadLoop(kk, t, l) => ThreadLoop(kk2, t, l)
           /\ \A rules : ThreadRulesGone(kk, t, rules) => ThreadRulesGone(kk2, t, rules)
<1>0. KernelFits(kk2) /\ CopyFits(c2)
    BY Zenon DEF CopyMoves
<1>1. UpTransit(kk2, c2, t) = UpTransit(kk, c, t)
    <2> DEFINE a == t.out.buf
               u == kk.up.buf
               o == c.out.buf
               i == kk.stdin.buf
               u2 == kk2.up.buf
               o2 == c2.out.buf
               i2 == kk2.stdin.buf
    <2>1. /\ a \in Seq(Nat) /\ u \in Seq(Nat) /\ o \in Seq(Nat) /\ i \in Seq(Nat)
          /\ u2 \in Seq(Nat) /\ o2 \in Seq(Nat) /\ i2 \in Seq(Nat)
        BY <1>0, BuffersTyped
    <2>2. Onto(Onto(u2, o2), i2) = Onto(Onto(u, o), i)
        BY Zenon DEF CopyMoves, Onto
    <2>3. /\ UpTransit(kk, c, t) = Onto(Onto(Onto(a, u), o), i)
          /\ UpTransit(kk2, c2, t) = Onto(Onto(Onto(a, u2), o2), i2)
        BY Zenon DEF UpTransit, Onto
    <2> HIDE DEF a, u, o, i, u2, o2, i2
    <2>4. Onto(Onto(Onto(a, u), o), i) = Onto(a, Onto(Onto(u, o), i))
        BY <2>1, OntoFacts
    <2>5. Onto(Onto(Onto(a, u2), o2), i2) = Onto(a, Onto(Onto(u2, o2), i2))
        BY <2>1, OntoFacts
    <2> QED
        BY <2>2, <2>3, <2>4, <2>5, Zenon
<1>2. DownTransit(kk2, c2, t) = DownTransit(kk, c, t)
    BY Zenon DEF DownTransit, CopyMoves
<1>3. \A se : Comes(kk, t, se) => Comes(kk2, t, se)
    BY DEF Comes, CopyMoves
<1>4. ASSUME NEW rev, ThreadAnswer(kk, rev) PROVE ThreadAnswer(kk2, rev)
    <2>1. Space(kk.down) > 0 => Space(kk2.down) > 0
        <3>1. /\ Len(kk.down.buf) \in Nat /\ Len(kk2.down.buf) \in Nat
              /\ kk.down.cap \in Nat
            BY <1>0, LenProperties DEF KernelFits, Channel
        <3>2. kk2.down.cap = kk.down.cap /\ Len(kk2.down.buf) <= Len(kk.down.buf)
            BY Zenon DEF CopyMoves, Keeps
        <3> QED
            BY <3>1, <3>2 DEF Space
    <2>2. /\ Readable(kk.up) => Readable(kk2.up)
          /\ kk.up.shut => kk2.up.shut
          /\ kk.down.shut => kk2.down.shut
          /\ kk2.partner = kk.partner
        BY Zenon DEF CopyMoves, Keeps
    <2> QED
        BY <1>4, <2>1, <2>2, Zenon DEF ThreadAnswer
<1>5. ASSUME NEW l, ThreadLoop(kk, t, l) PROVE ThreadLoop(kk2, t, l)
    <2>1. \A r : ThreadInterest([k |-> kk, m |-> t], r)
                    <=> ThreadInterest([k |-> kk2, m |-> t], r)
        BY DEF ThreadInterest
    <2> QED
        BY <1>4, <1>5, <2>1, Zenon DEF ThreadLoop
<1>6. \A rules : ThreadRulesGone(kk, t, rules) => ThreadRulesGone(kk2, t, rules)
    BY Zenon DEF ThreadRulesGone, CopyMoves, Keeps
<1> QED
    BY <1>1, <1>2, <1>3, <1>5, <1>6

\* And the other way round.
LEMMA ThreadLeaves ==
    ASSUME NEW kk, KernelFits(kk), NEW t, ThreadFits(t), NEW kk2, NEW t2,
           ThreadMoves(kk, t, kk2, t2), NEW c, CopyFits(c)
    PROVE  /\ \E bytes \in Seq(Nat) :
                 /\ kk2.partner.got = kk.partner.got \o bytes
                 /\ UpTransit(kk, c, t) = bytes \o UpTransit(kk2, c, t2)
           /\ DownTransit(kk2, c, t2) = DownTransit(kk, c, t)
           /\ \A l : MainLoop(kk, c, l) => MainLoop(kk2, c, l)
           /\ \A rules : CopyRulesGone(kk, c, rules) => CopyRulesGone(kk2, c, rules)
<1>0. KernelFits(kk2) /\ ThreadFits(t2)
    BY Zenon DEF ThreadMoves
<1>1. \E bytes \in Seq(Nat) :
          /\ kk2.partner.got = kk.partner.got \o bytes
          /\ UpTransit(kk, c, t) = bytes \o UpTransit(kk2, c, t2)
    <2>1. PICK b \in Seq(Nat) :
              /\ kk2.partner.got = kk.partner.got \o b
              /\ t.out.buf \o kk.up.buf = b \o (t2.out.buf \o kk2.up.buf)
        BY DEF ThreadMoves, HandsOn
    <2> DEFINE x2 == t2.out.buf \o kk2.up.buf
               o == c.out.buf
               i == kk.stdin.buf
    <2>2. x2 \in Seq(Nat) /\ o \in Seq(Nat) /\ i \in Seq(Nat)
        <3>1. t2.out.buf \in Seq(Nat) /\ kk2.up.buf \in Seq(Nat)
            BY <1>0, BuffersTyped
        <3> QED
            BY <3>1, ConcatProperties, BuffersTyped
    <2>3. kk2.stdin = kk.stdin
        BY DEF ThreadMoves, StaysForMain
    <2>4. /\ UpTransit(kk, c, t) = ((b \o x2) \o o) \o i
          /\ UpTransit(kk2, c, t2) = (x2 \o o) \o i
        BY <2>1, <2>3, Zenon DEF UpTransit
    <2> HIDE DEF x2, o, i
    <2>5. x2 \o o \in Seq(Nat)
        BY <2>2, ConcatProperties
    <2>6. (b \o x2) \o o = b \o (x2 \o o)
        BY <2>2, Joined
    <2>7. (b \o (x2 \o o)) \o i = b \o ((x2 \o o) \o i)
        BY ZenonT(30), <2>2, <2>5, Joined
    <2>8. UpTransit(kk, c, t) = b \o UpTransit(kk2, c, t2)
        BY <2>4, <2>6, <2>7, Zenon
    <2> QED
        BY <2>1, <2>8
<1>2. DownTransit(kk2, c, t2) = DownTransit(kk, c, t)
    <2> DEFINE o == kk.stdout.buf
               i == c.in.buf
               d == kk.down.buf
               a == t.in.buf
               b == ByteOf(kk.partner.coming)
               d2 == kk2.down.buf
               a2 == t2.in.buf
               b2 == ByteOf(kk2.partner.coming)
               s == Onto(o, i)
    <2>1. /\ o \in Seq(Nat) /\ i \in Seq(Nat)
          /\ d \in Seq(Nat) /\ a \in Seq(Nat) /\ b \in Seq(Nat)
          /\ d2 \in Seq(Nat) /\ a2 \in Seq(Nat) /\ b2 \in Seq(Nat)
        BY <1>0, BuffersTyped
    <2>2. Onto(Onto(d2, a2), b2) = Onto(Onto(d, a), b)
        BY Zenon DEF ThreadMoves, Onto
    <2>3. kk2.stdout = kk.stdout
        BY DEF ThreadMoves, StaysForMain
    <2>4. /\ DownTransit(kk, c, t) = Onto(Onto(Onto(s, d), a), b)
          /\ DownTransit(kk2, c, t2) = Onto(Onto(Onto(s, d2), a2), b2)
        BY <2>3, Zenon DEF DownTransit, Onto
    <2> HIDE DEF o, i, d, a, b, d2, a2, b2
    <2>5. s \in Seq(Nat)
        BY <2>1, OntoFacts
    <2> HIDE DEF s
    <2>6. Onto(Onto(Onto(s, d), a), b) = Onto(s, Onto(Onto(d, a), b))
        BY <2>1, <2>5, OntoFacts
    <2>7. Onto(Onto(Onto(s, d2), a2), b2) = Onto(s, Onto(Onto(d2, a2), b2))
        BY <2>1, <2>5, OntoFacts
    <2> QED
        BY <2>2, <2>4, <2>6, <2>7, Zenon
<1>3. ASSUME NEW rev, CopyAnswer(kk, rev) PROVE CopyAnswer(kk2, rev)
    <2>1. Space(kk.up) > 0 => Space(kk2.up) > 0
        <3>1. /\ Len(kk.up.buf) \in Nat /\ Len(kk2.up.buf) \in Nat
              /\ kk.up.cap \in Nat
            BY <1>0, LenProperties DEF KernelFits, Channel
        <3>2. kk2.up.cap = kk.up.cap /\ Len(kk2.up.buf) <= Len(kk.up.buf)
            BY Zenon DEF ThreadMoves, StaysForMain, Keeps
        <3> QED
            BY <3>1, <3>2 DEF Space
    <2>2. /\ Readable(kk.down) => Readable(kk2.down)
          /\ kk.up.shut => kk2.up.shut
          /\ kk.down.shut => kk2.down.shut
          /\ kk2.stdin = kk.stdin /\ kk2.stdout = kk.stdout
        BY Zenon DEF ThreadMoves, StaysForMain, Keeps
    <2> QED
        BY <1>3, <2>1, <2>2, Zenon DEF CopyAnswer
<1>4. ASSUME NEW l, MainLoop(kk, c, l) PROVE MainLoop(kk2, c, l)
    <2>1. \A r : CopyInterest([k |-> kk, m |-> c], r)
                    <=> CopyInterest([k |-> kk2, m |-> c], r)
        BY DEF CopyInterest
    <2> QED
        BY <1>3, <1>4, <2>1, Zenon DEF MainLoop
<1>5. \A rules : CopyRulesGone(kk, c, rules) => CopyRulesGone(kk2, c, rules)
    BY Zenon DEF CopyRulesGone, ThreadMoves, StaysForMain, Keeps
<1> QED
    BY <1>1, <1>2, <1>4, <1>5

\* The list of the copy's rules holds these four.
LEMMA CopyRulesListed == RuleSet(CopyRules) = CopyRuleSet
<1>1. /\ DOMAIN CopyRules = 1 .. 4
      /\ CopyRules[1] = "input"
      /\ CopyRules[2] = "to socket"
      /\ CopyRules[3] = "from socket"
      /\ CopyRules[4] = "output"
    BY DEF CopyRules
<1>2. \A i : i \in 1 .. 4 <=> i = 1 \/ i = 2 \/ i = 3 \/ i = 4
    OBVIOUS
<1> QED
    BY <1>1, <1>2 DEF RuleSet, CopyRuleSet

\* The list of the thread's rules holds these three.
LEMMA ThreadRulesListed == RuleSet(ThreadRules) = ThreadRuleSet
<1>1. /\ DOMAIN ThreadRules = 1 .. 3
      /\ ThreadRules[1] = "segment"
      /\ ThreadRules[2] = "push bytes"
      /\ ThreadRules[3] = "inbound"
    BY DEF ThreadRules
<1>2. \A i : i \in 1 .. 3 <=> i = 1 \/ i = 2 \/ i = 3
    OBVIOUS
<1> QED
    BY <1>1, <1>2 DEF RuleSet, ThreadRuleSet

\* What poll finds.
LEMMA PollFindsForMain == CopyAnswer(k, CopyEvents)
<1>1. RuleSet(CopyRules) = CopyRuleSet
    BY CopyRulesListed
<1>2. /\ CopyEvents["input"] = Set(Readable(k.stdin), "IN") \cup Set(k.stdin.shut, "HUP")
      /\ CopyEvents["output"] = Set(Space(k.stdout) > 0, "OUT")
                                   \cup Set(k.stdout.gone, "ERR")
      /\ CopyEvents["to socket"] = SocketEvents(k.down, k.up)
      /\ CopyEvents["from socket"] = SocketEvents(k.down, k.up)
    BY <1>1 DEF CopyEvents, CopyRuleSet
<1> DEFINE rev == CopyEvents
<1> HIDE DEF rev
<1>3. /\ rev["input"] \subseteq {"IN", "HUP"}
      /\ "IN" \in rev["input"] => Readable(k.stdin)
      /\ "HUP" \in rev["input"] =>
            k.stdin.shut /\ ("IN" \notin rev["input"] => k.stdin.buf = << >>)
    BY <1>2 DEF Set, Readable, rev
<1>4. /\ rev["output"] \subseteq {"OUT", "ERR"}
      /\ "OUT" \in rev["output"] => Space(k.stdout) > 0
      /\ "ERR" \in rev["output"] => k.stdout.gone
    BY <1>2 DEF Set, rev
<1>5. ASSUME NEW r \in {"to socket", "from socket"}
      PROVE  /\ "IN" \in rev[r] => Readable(k.down) \/ k.down.shut
             /\ "OUT" \in rev[r] => Space(k.up) > 0
             /\ "HUP" \in rev[r] => k.up.shut /\ k.down.shut /\ "IN" \in rev[r]
             /\ "ERR" \notin rev[r]
    <2>1. rev[r] = SocketEvents(k.down, k.up)
        BY <1>2 DEF rev
    <2> QED
        BY <2>1 DEF SocketEvents, Set
<1> QED
    BY <1>3, <1>4, <1>5 DEF CopyAnswer, rev

\* What the thread's poll finds is true when it finds it.
LEMMA PollFindsForThread == ThreadAnswer(k, ThreadEvents)
<1>1. RuleSet(ThreadRules) = ThreadRuleSet
    BY ThreadRulesListed
<1>2. /\ ThreadEvents["segment"] = Set(k.partner.coming # << >>, "IN")
      /\ ThreadEvents["push bytes"] = SocketEvents(k.up, k.down)
      /\ ThreadEvents["inbound"] = SocketEvents(k.up, k.down)
    BY <1>1 DEF ThreadEvents, ThreadRuleSet
<1> DEFINE rev == ThreadEvents
<1> HIDE DEF rev
<1>3. /\ rev["segment"] \subseteq {"IN"}
      /\ "IN" \in rev["segment"] => k.partner.coming # << >>
    BY <1>2 DEF Set, rev
<1>4. ASSUME NEW r \in {"push bytes", "inbound"}
      PROVE  /\ "IN" \in rev[r] => Readable(k.up) \/ k.up.shut
             /\ "OUT" \in rev[r] => Space(k.down) > 0
             /\ "HUP" \in rev[r] => k.up.shut /\ k.down.shut /\ "IN" \in rev[r]
             /\ "ERR" \notin rev[r]
    <2>1. rev[r] = SocketEvents(k.up, k.down)
        BY <1>2 DEF rev
    <2> QED
        BY <2>1 DEF SocketEvents, Set
<1> QED
    BY <1>3, <1>4 DEF ThreadAnswer, rev

-----------------------------------------------------------------------------
(***************************************************************************)
(* The steps of Relay.                                                     *)
(***************************************************************************)
Direction(transit, left, closed, ended) ==
    [transit |-> transit, left |-> left, closed |-> closed, ended |-> ended]

\* The two directions, before a step and after it.
LEMMA UpAndDown ==
    /\ Up = Direction(UpTransit(k, copy, tcp), k.partner.got, k.stdin.shut,
                      k.partner.ended)
    /\ Down = Direction(DownTransit(k, copy, tcp), read, sent.closed,
                        k.stdout.shut /\ k.stdout.buf = << >>)
    /\ Up' = Direction(UpTransit(k', copy', tcp'), k'.partner.got, k'.stdin.shut,
                       k'.partner.ended)
    /\ Down' = Direction(DownTransit(k', copy', tcp'), read', sent'.closed,
                         k'.stdout.shut /\ k'.stdout.buf = << >>)
BY DEF Up, Down, UpTransit, DownTransit, Direction

\* Some bytes leave, and the end does not leave before the last of them.
LEMMA BytesLeave ==
    ASSUME NEW first \in Seq(Nat), NEW rest \in Seq(Nat), NEW left \in Seq(Nat),
           NEW closed \in BOOLEAN, NEW was \in BOOLEAN, NEW is \in BOOLEAN,
           was => is, is => faults > 0 \/ (closed /\ rest = << >>)
    PROVE  Promised!Leaves(Direction(Onto(first, rest), left, closed, was),
                           Direction(rest, Onto(left, first), closed, is))
<1> DEFINE whole == Onto(first, rest)
           d == Direction(whole, left, closed, was)
           n == Len(first)
           total == Len(whole)
<1>1. /\ whole \in Seq(Nat) /\ n \in Nat /\ total \in Nat
      /\ total = n + Len(rest) /\ Len(rest) \in Nat
    BY ConcatProperties, LenProperties DEF Onto
<1>2. SubSeq(whole, 1, n) = first
    <2>1. SubSeq(whole, 1, n) \in Seq(Nat) /\ Len(SubSeq(whole, 1, n)) = n
        BY <1>1, Cut
    <2>2. \A i \in 1 .. n : SubSeq(whole, 1, n)[i] = first[i]
        <3>1. \A i \in 1 .. n : whole[i] = first[i]
            BY <1>1, ConcatProperties DEF Onto
        <3>2. \A i \in 1 .. n : SubSeq(whole, 1, n)[i] = whole[i]
            BY <1>1, SubSeqProperties
        <3> QED
            BY <3>1, <3>2
    <2> QED
        BY <2>1, <2>2, SeqEqual
<1>3. SubSeq(whole, n + 1, total) = rest
    <2>1. n \in 0 .. total
        BY <1>1
    <2>2. SubSeq(whole, n + 1, total) \in Seq(Nat)
        BY <1>1, <2>1, Cut
    <2>3. Onto(first, SubSeq(whole, n + 1, total)) = whole
        BY <1>1, <1>2, <2>1, Cut DEF Onto
    <2> QED
        BY <2>2, <2>3, ConcatSimplifications DEF Onto
<1>4. is => faults > 0 \/ (closed /\ n = total)
    BY <1>1, EmptySeq
<1> HIDE DEF n, total
<1>5. Direction(rest, Onto(left, first), closed, is)
          = [d EXCEPT !.transit = SubSeq(whole, n + 1, total),
                      !.left = Onto(left, SubSeq(whole, 1, n)),
                      !.ended = was \/ is]
    <2> DEFINE r == SubSeq(whole, n + 1, total)
               l == Onto(left, SubSeq(whole, 1, n))
               b == was \/ is
    <2>1. r = rest /\ l = Onto(left, first) /\ b = is
        BY <1>2, <1>3
    <2> HIDE DEF whole, r, l, b
    <2> DEFINE e == [d EXCEPT !.transit = r, !.left = l, !.ended = b]
    <2>2. d = [transit |-> whole, left |-> left, closed |-> closed, ended |-> was]
        BY DEF Direction
    <2>3. e = [d EXCEPT !.transit = r, !.left = l, !.ended = b]
        OBVIOUS
    <2> HIDE DEF d, e
    <2>4. e = [transit |-> r, left |-> l, closed |-> closed, ended |-> b]
        BY <2>2, <2>3, Zenon
    <2> QED
        BY <2>1, <2>4, Zenon DEF r, l, b, e, Direction
<1>6. d.transit = whole /\ d.left = left /\ d.closed = closed /\ d.ended = was
    BY DEF Direction
<1> HIDE DEF d, whole
<1>7. n \in 0 .. Len(d.transit)
    BY <1>1, <1>6 DEF total
<1>8. Promised!Leaves(d, Direction(rest, Onto(left, first), closed, is))
    BY <1>4, <1>5, <1>6, <1>7 DEF Promised!Leaves, total, Onto
<1> QED
    BY <1>8 DEF d, whole

\* A step of Relay in which something leaves one direction.
LEMMA DownLeaves ==
    ASSUME Promised!Leaves(Down, Down'), Up' = Up, faults' = faults
    PROVE  [Promised!Next]_(Promised!vars)
<1>1. (faults > 0)' = (faults > 0)
    OBVIOUS
<1> QED
    BY <1>1 DEF Promised!Next, Promised!Step

\* The same of the other direction.
LEMMA UpLeaves ==
    ASSUME Promised!Leaves(Up, Up'), Down' = Down, faults' = faults
    PROVE  [Promised!Next]_(Promised!vars)
<1>1. (faults > 0)' = (faults > 0)
    OBVIOUS
<1> QED
    BY <1>1 DEF Promised!Next, Promised!Step

\* The part of the invariant that a step of the main thread is about.
MainRuns ==
    /\ loop = [main |-> loop.main, thread |-> loop.thread]
    /\ MainLoop(k, copy, loop.main)
    /\ Phases
    /\ faults = 0 =>
          /\ Good(k, copy, tcp)
          /\ CopyRulesGone(k, copy, loop.main.rules)
          /\ phase.main \in {"closing", "joining", "ended"} =>
                k.up.shut /\ k.down.shut /\ k.stdout.shut

\* Whatever moves in the main thread, the rest of the invariant stays, and
\* nothing but what leaves the second direction changes what is promised.
LEMMA MainSteps ==
    ASSUME Inv, CopyMoves(k, copy, k', copy'), loop'.thread = loop.thread,
           UNCHANGED << tcp, sent, read, faults >>, MainRuns'
    PROVE  Inv' /\ [Promised!Next]_(Promised!vars)
<1>1. /\ KernelFits(k) /\ CopyFits(copy) /\ ThreadFits(tcp)
      /\ KernelFits(k') /\ CopyFits(copy')
    BY DEF Inv, TypeInv, CopyMoves
<1>2. /\ UpTransit(k', copy', tcp) = UpTransit(k, copy, tcp)
      /\ DownTransit(k', copy', tcp) = DownTransit(k, copy, tcp)
      /\ \A se : Comes(k, tcp, se) => Comes(k', tcp, se)
      /\ \A l : ThreadLoop(k, tcp, l) => ThreadLoop(k', tcp, l)
      /\ \A rules : ThreadRulesGone(k, tcp, rules) => ThreadRulesGone(k', tcp, rules)
    BY <1>1, MainLeaves
<1>3. /\ k'.partner = k.partner /\ k'.stdin.shut = k.stdin.shut
      /\ k.stdout.shut => k'.stdout.shut /\ k'.stdout.buf = k.stdout.buf
      /\ k'.stdin.gone = k.stdin.gone /\ k'.up.gone = k.up.gone
      /\ k'.down.gone = k.down.gone
    BY Zenon DEF CopyMoves, Keeps
<1>4. tcp' = tcp /\ sent' = sent /\ read' = read /\ faults' = faults
    OBVIOUS
<1> DEFINE was == k.stdout.shut /\ k.stdout.buf = << >>
           is == k'.stdout.shut /\ k'.stdout.buf = << >>
           whole == DownTransit(k, copy, tcp)
<1>5. Down = Direction(whole, read, sent.closed, was)
    BY UpAndDown
<1>6. Down' = Direction(whole, read, sent.closed, is)
    BY <1>2, <1>4, UpAndDown
<1>7. Up' = Up
    BY <1>2, <1>3, <1>4, UpAndDown
<1>8. TypeInv'
    <2>1. Comes(k', tcp, sent) /\ ThreadLoop(k', tcp, loop.thread)
        BY <1>2 DEF Inv, TypeInv
    <2>2. (sent.bytes = Len(Down.left) + Len(Down.transit))'
        <3>1. Down.left = read /\ Down.transit = whole
            BY <1>5 DEF Direction
        <3>2. Down'.left = read /\ Down'.transit = whole
            BY <1>6 DEF Direction
        <3> HIDE DEF whole
        <3> QED
            BY <1>4, <3>1, <3>2, Zenon DEF Inv, TypeInv
    <2> QED
        BY <1>1, <1>3, <1>4, <2>1, <2>2 DEF Inv, TypeInv, MainRuns
<1>9. (faults = 0 => Faultless)'
    BY <1>2, <1>4 DEF Inv, Faultless, MainRuns
<1>10. Promised!Leaves(Down, Down')
    <2>1. is => faults > 0 \/ (sent.closed /\ whole = << >>)
        <3> SUFFICES ASSUME is, ~(faults > 0) PROVE sent.closed /\ whole = << >>
            OBVIOUS
        <3>1. faults = 0
            BY DEF Inv, TypeInv
        <3>2. Good(k', copy', tcp) /\ Comes(k', tcp, sent)
            BY <1>2, <1>4, <3>1 DEF Inv, TypeInv, MainRuns
        <3>3. DownTransit(k', copy', tcp) = << >> /\ sent.closed
            BY <3>2, LastDown
        <3> QED
            BY <1>2, <3>3
    <2>2. /\ whole \in Seq(Nat) /\ read \in Seq(Nat) /\ << >> \in Seq(Nat)
          /\ sent.closed \in BOOLEAN /\ was \in BOOLEAN /\ is \in BOOLEAN
        <3>1. k.stdout.shut \in BOOLEAN /\ k'.stdout.shut \in BOOLEAN
            BY <1>1 DEF KernelFits, Channel
        <3> QED
            BY <1>1, <3>1, BuffersTyped DEF Inv, TypeInv
    <2>3. was => is
        BY <1>3
    <2> HIDE DEF whole, was, is
    <2>4. Onto(<< >>, whole) = whole /\ Onto(read, << >>) = read
        BY <2>2, ConcatEmptySeq DEF Onto
    <2>5. Promised!Leaves(Direction(Onto(<< >>, whole), read, sent.closed, was),
                          Direction(whole, Onto(read, << >>), sent.closed, is))
        BY <2>1, <2>2, <2>3, BytesLeave
    <2> QED
        BY <1>5, <1>6, <2>4, <2>5, Zenon
<1>11. [Promised!Next]_(Promised!vars)
    BY <1>4, <1>7, <1>10, DownLeaves
<1> QED
    BY <1>8, <1>9, <1>11 DEF Inv

\* The same for the socket's thread.
ThreadRuns ==
    /\ loop = [main |-> loop.main, thread |-> loop.thread]
    /\ ThreadLoop(k, tcp, loop.thread)
    /\ Phases
    /\ faults = 0 =>
          Good(k, copy, tcp) /\ ThreadRulesGone(k, tcp, loop.thread.rules)

\* Whatever moves in the socket's thread, the rest of the invariant stays, and
\* nothing but what leaves the first direction changes what is promised.
LEMMA ThreadSteps ==
    ASSUME Inv, ThreadMoves(k, tcp, k', tcp'), loop'.main = loop.main,
           phase'.main = phase.main,
           UNCHANGED << copy, sent, read, faults >>, ThreadRuns'
    PROVE  Inv' /\ [Promised!Next]_(Promised!vars)
<1>1. /\ KernelFits(k) /\ CopyFits(copy) /\ ThreadFits(tcp)
      /\ KernelFits(k') /\ ThreadFits(tcp')
    BY DEF Inv, TypeInv, ThreadMoves
<1>2. /\ \E bytes \in Seq(Nat) :
             /\ k'.partner.got = k.partner.got \o bytes
             /\ UpTransit(k, copy, tcp) = bytes \o UpTransit(k', copy, tcp')
      /\ DownTransit(k', copy, tcp') = DownTransit(k, copy, tcp)
      /\ \A l : MainLoop(k, copy, l) => MainLoop(k', copy, l)
      /\ \A rules : CopyRulesGone(k, copy, rules) => CopyRulesGone(k', copy, rules)
    BY <1>1, ThreadLeaves
<1>3. /\ k'.stdin = k.stdin /\ k'.stdout = k.stdout
      /\ k'.up.gone = k.up.gone /\ k'.down.gone = k.down.gone
      /\ k.up.shut => k'.up.shut
      /\ k.down.shut => k'.down.shut
      /\ k.partner.ended => k'.partner.ended
      /\ Comes(k', tcp', sent)
    BY Zenon DEF ThreadMoves, StaysForMain, Keeps, Inv, TypeInv
<1>4. copy' = copy /\ sent' = sent /\ read' = read /\ faults' = faults
    OBVIOUS
<1>5. PICK bytes \in Seq(Nat) :
          /\ k'.partner.got = k.partner.got \o bytes
          /\ UpTransit(k, copy, tcp) = bytes \o UpTransit(k', copy, tcp')
    BY <1>2
<1> DEFINE was == k.partner.ended
           is == k'.partner.ended
           rest == UpTransit(k', copy, tcp')
           got == k.partner.got
<1>6. Up = Direction(Onto(bytes, rest), got, k.stdin.shut, was)
    BY <1>5, UpAndDown DEF Onto
<1>7. Up' = Direction(rest, Onto(got, bytes), k.stdin.shut, is)
    BY <1>3, <1>4, <1>5, UpAndDown DEF Onto
<1>8. Down' = Down
    BY <1>2, <1>3, <1>4, UpAndDown
<1>9. TypeInv'
    <2>1. MainLoop(k', copy, loop.main)
        BY <1>2 DEF Inv, TypeInv
    <2>2. (sent.bytes = Len(Down.left) + Len(Down.transit))'
        BY <1>4, <1>8, Zenon DEF Inv, TypeInv
    <2> QED
        BY <1>1, <1>3, <1>4, <2>1, <2>2 DEF Inv, TypeInv, ThreadRuns
<1>10. (faults = 0 => Faultless)'
    BY <1>2, <1>3, <1>4 DEF Inv, Faultless, ThreadRuns
<1>11. Promised!Leaves(Up, Up')
    <2>1. is => faults > 0 \/ (k.stdin.shut /\ rest = << >>)
        <3> SUFFICES ASSUME is, ~(faults > 0) PROVE k.stdin.shut /\ rest = << >>
            OBVIOUS
        <3>1. faults = 0
            BY DEF Inv, TypeInv
        <3>2. Good(k', copy, tcp')
            BY <1>4, <3>1 DEF ThreadRuns
        <3>3. rest = << >> /\ k'.stdin.shut
            BY <3>2, LastUp
        <3> QED
            BY <1>3, <3>3
    <2>2. /\ rest \in Seq(Nat) /\ got \in Seq(Nat)
          /\ k.stdin.shut \in BOOLEAN /\ was \in BOOLEAN /\ is \in BOOLEAN
        <3>1. k.stdin.shut \in BOOLEAN /\ was \in BOOLEAN /\ is \in BOOLEAN
            BY <1>1 DEF KernelFits, Channel, Partner
        <3> QED
            BY <1>1, <3>1, BuffersTyped
    <2>3. was => is
        BY <1>3
    <2> HIDE DEF rest, got, was, is
    <2>4. Promised!Leaves(Direction(Onto(bytes, rest), got, k.stdin.shut, was),
                          Direction(rest, Onto(got, bytes), k.stdin.shut, is))
        BY <2>1, <2>2, <2>3, BytesLeave
    <2> QED
        BY <1>6, <1>7, <2>4, Zenon
<1>12. [Promised!Next]_(Promised!vars)
    BY <1>4, <1>8, <1>11, UpLeaves
<1> QED
    BY <1>9, <1>10, <1>12 DEF Inv

-----------------------------------------------------------------------------
(***************************************************************************)
(* The actions of the main thread.                                         *)
(***************************************************************************)
\* What the invariant says of the main thread and of the other one.
LEMMA InvSays ==
    ASSUME Inv
    PROVE  /\ KernelFits(k) /\ CopyFits(copy) /\ ThreadFits(tcp)
           /\ Comes(k, tcp, sent)
           /\ loop = [main |-> loop.main, thread |-> loop.thread]
           /\ MainLoop(k, copy, loop.main) /\ loop.main.rules \subseteq CopyRuleSet
           /\ ThreadLoop(k, tcp, loop.thread) /\ loop.thread.rules \subseteq ThreadRuleSet
           /\ "segment" \in loop.thread.rules
           /\ Phases
           /\ faults = 0 => Faultless
BY DEF Inv, TypeInv, MainLoop, ThreadLoop

\* The main thread's poll returns.
LEMMA CopyPollsHolds ==
    ASSUME Inv, CopyPolls
    PROVE  Inv' /\ [Promised!Next]_(Promised!vars)
<1> DEFINE l == loop.main
           rev == CopyEvents
           l2 == [l EXCEPT !.answer = << rev >>]
<1>1. /\ k' = k /\ copy' = copy /\ phase' = phase
      /\ UNCHANGED << tcp, sent, read, faults >>
      /\ loop' = [loop EXCEPT !.main.answer = << rev >>]
    BY DEF CopyPolls
<1>2. CopyAnswer(k, rev)
    BY PollFindsForMain
<1> HIDE DEF rev
<1>3. loop' = [loop EXCEPT !.main = l2]
    BY <1>1
<1>4. l = [rules |-> l.rules, asked |-> l.asked, answer |-> l.answer]
    BY InvSays DEF MainLoop
<1>5. /\ l2 = [rules |-> l.rules, asked |-> l.asked, answer |-> << rev >>]
    <2> DEFINE a == l.rules
               b == l.asked
               c == l.answer
               d == << rev >>
    <2>1. l = [rules |-> a, asked |-> b, answer |-> c] /\ l2 = [l EXCEPT !.answer = d]
        BY <1>4
    <2> HIDE DEF a, b, c, d, l, l2
    <2>2. l2 = [rules |-> a, asked |-> b, answer |-> d]
        BY <2>1, Zenon
    <2> QED
        BY <2>2, Zenon DEF a, b, d
<1>6. l2.rules = l.rules /\ l2.asked = l.asked /\ l2.answer = << rev >>
    BY <1>5
<1>7. MainLoop(k, copy, l2)
    <2>1. << rev >>[1] = rev
        OBVIOUS
    <2>2. l2 = [rules |-> l2.rules, asked |-> l2.asked, answer |-> l2.answer]
        BY <1>5, <1>6, Zenon
    <2> HIDE DEF l2
    <2> QED
        BY <1>2, <1>6, <2>1, <2>2, InvSays, Zenon DEF MainLoop
<1> HIDE DEF l2
<1>8. loop'.main = l2 /\ loop'.thread = loop.thread
      /\ loop' = [main |-> loop'.main, thread |-> loop'.thread]
    <2> DEFINE m == loop.main
               n == loop.thread
    <2>1. loop = [main |-> m, thread |-> n]
        BY InvSays
    <2> HIDE DEF m, n
    <2>2. loop' = [main |-> l2, thread |-> n]
        BY <1>3, <2>1, Zenon
    <2> QED
        BY <2>1, <2>2
<1>9. MainRuns'
    BY <1>1, <1>6, <1>7, <1>8, InvSays DEF MainRuns, Faultless, Phases
<1>10. CopyMoves(k, copy, k', copy')
    BY <1>1, InvSays, CopyGoesNowhere DEF CopyGoes
<1> QED
    BY <1>1, <1>8, <1>9, <1>10, MainSteps

\* A part of loop or of phase is changed.
LEMMA LoopParts ==
    ASSUME Inv, NEW l
    PROVE  /\ [loop EXCEPT !.main = l] = [main |-> l, thread |-> loop.thread]
           /\ [loop EXCEPT !.thread = l] = [main |-> loop.main, thread |-> l]
<1> DEFINE m == loop.main
           n == loop.thread
           a == [loop EXCEPT !.main = l]
           b == [loop EXCEPT !.thread = l]
<1>1. loop = [main |-> m, thread |-> n]
    BY InvSays
<1>2. a = [loop EXCEPT !.main = l] /\ b = [loop EXCEPT !.thread = l]
    OBVIOUS
<1> HIDE DEF m, n, a, b
<1>3. a = [main |-> l, thread |-> n] /\ b = [main |-> m, thread |-> l]
    BY <1>1, <1>2, Zenon
<1> QED
    BY <1>3, Zenon DEF m, n, a, b

\* What CopyServes does with the rules served, s, those of the next call, p, and
\* perhaps a count that is stored.
CopyBecomes(s, p, stores) ==
    /\ k' = p.st.k
    /\ copy' = p.st.m
    /\ loop' = [loop EXCEPT !.main = Prepared(p)]
    /\ phase' = [phase EXCEPT
           !.main = IF s.busy \/ (stores /\ s.again) THEN "thrown"
                    ELSE IF p.asked = {} THEN "closing" ELSE @,
           !.thread = IF stores THEN "ended" ELSE @,
           !.missed = IF phase.thread = "counting"
                         /\ s.served = << "from socket" >>
                        THEN Least(@ + 1, 2) ELSE @]

\* The main thread deals with the answer and prepares its next poll.
LEMMA CopyServesHolds ==
    ASSUME Inv, CopyServes
    PROVE  Inv' /\ [Promised!Next]_(Promised!vars)
<1> DEFINE l == loop.main
           s == Copy!Serves([k |-> k, m |-> copy], l.rules, l.asked, l.answer[1])
           p == Copy!Prepares(s.st, s.rules)
<1>1. PICK stores \in {FALSE} \cup {Miscounted(s)} : CopyBecomes(s, p, stores)
    <2>1. \E s0 \in {s} : \E p0 \in {Copy!Prepares(s0.st, s0.rules)} :
          \E x \in {FALSE} \cup {Miscounted(s0)} : CopyBecomes(s0, p0, x)
        BY DEF CopyServes, CopyBecomes
    <2> HIDE DEF s
    <2> QED
        BY <2>1
<1>2. /\ UNCHANGED << tcp, sent, read, faults >> /\ Alive /\ l.answer # NoAnswer
    BY DEF CopyServes, CopyMayServe
<1>3. /\ KernelFits(k) /\ CopyFits(copy) /\ l.rules \subseteq CopyRuleSet
      /\ \A r \in l.asked : CopyInterest([k |-> k, m |-> copy], r)
      /\ CopyAnswer(k, l.answer[1])
    BY <1>2, InvSays DEF MainLoop
<1>4. CopyGets(k, copy, l.rules, s)
    BY <1>3, CopyServesEnds
<1> HIDE DEF s
<1> DEFINE k2 == s.st.k
           c2 == s.st.m
           R == s.rules
           again == s.again
<1>5. s = [st |-> [k |-> k2, m |-> c2], rules |-> R, served |-> s.served,
           again |-> again, busy |-> FALSE]
    BY <1>4, Zenon DEF CopyGets
<1>6. s.st = [k |-> k2, m |-> c2] /\ s.busy = FALSE
    BY <1>5
<1>7. R \subseteq CopyRuleSet /\ CopyGoes(k, copy, k2, c2)
    BY <1>3, <1>4 DEF CopyGets
<1>8. KernelFits(k2) /\ CopyFits(c2)
    BY <1>7 DEF CopyGoes, CopyMoves
<1> HIDE DEF k2, c2, R, again
<1>9. CopyLooked(k2, c2, R, CopyRuleSet, p)
    BY <1>6, <1>7, <1>8, CopyPreparesEnds DEF R
<1>10. p.st = [k |-> k2, m |-> c2]
    BY <1>9 DEF CopyLooked
<1>11. MainLoop(k2, c2, Prepared(p)) /\ p.rules \subseteq R
    BY <1>7, <1>9, CopyPrepared
<1> HIDE DEF p
<1>12. k' = k2 /\ copy' = c2
    BY <1>1, <1>10 DEF CopyBecomes
<1>13. /\ loop'.main = Prepared(p) /\ loop'.thread = loop.thread
       /\ loop' = [main |-> loop'.main, thread |-> loop'.thread]
    <2> DEFINE q == Prepared(p)
               n == loop.thread
    <2> HIDE DEF q, n
    <2>1. loop' = [main |-> q, thread |-> n]
        BY <1>1, LoopParts DEF q, n, CopyBecomes
    <2> QED
        BY <2>1 DEF q, n
<1>14. faults = 0 => Good(k2, c2, tcp) /\ CopyRulesGone(k2, c2, R)
    <2> SUFFICES ASSUME faults = 0 PROVE Good(k2, c2, tcp) /\ CopyRulesGone(k2, c2, R)
        OBVIOUS
    <2>1. Good(k, copy, tcp) /\ CopyRulesGone(k, copy, l.rules)
        BY InvSays DEF Faultless
    <2>2. Good(k2, c2, tcp)
        BY <1>7, <2>1 DEF CopyGoes
    <2>3. CopyRulesGone(k2, c2, R)
        BY <1>4, <2>1, Zenon DEF CopyGets, k2, c2, R
    <2> QED
        BY <2>2, <2>3
<1>15. faults = 0 => CopyRulesGone(k2, c2, p.rules)
    BY <1>7, <1>8, <1>9, <1>14, CopyLooksGone
<1> DEFINE u == IF stores /\ again THEN "thrown"
                ELSE IF p.asked = {} THEN "closing" ELSE phase.main
           v == IF stores THEN "ended" ELSE phase.thread
           w == IF phase.thread = "counting" /\ s.served = << "from socket" >>
                  THEN Least(phase.missed + 1, 2) ELSE phase.missed
<1>16. phase' = [phase EXCEPT !.main = u, !.thread = v, !.missed = w]
    BY <1>1, <1>6 DEF again, CopyBecomes
<1>17. /\ phase \in [main : {"copying", "closing", "joining", "ended", "thrown"},
                     thread : {"copying", "hung up", "counting", "ended"},
                     missed : 0 .. 2]
       /\ phase.main # "thrown"
    BY <1>2, InvSays DEF Phases, Alive
<1>18. stores => phase.thread = "counting" /\ phase.missed = 1
                    /\ s.served = << "from socket" >>
    BY DEF Miscounted
<1>19. /\ u \in {"copying", "closing", "joining", "ended", "thrown"}
       /\ v \in {"copying", "hung up", "counting", "ended"}
       /\ w \in 0 .. 2
       /\ u = "thrown" => v = "ended" /\ w = 2
    <2> DEFINE served == s.served
    <2>1. /\ phase.main \in {"copying", "closing", "joining", "ended"}
          /\ phase.thread \in {"copying", "hung up", "counting", "ended"}
          /\ phase.missed \in 0 .. 2
        BY <1>17
    <2> HIDE DEF served
    <2>2. u \in {"copying", "closing", "joining", "ended", "thrown"}
        BY <2>1
    <2>3. v \in {"copying", "hung up", "counting", "ended"}
        BY <2>1
    <2>4. w = phase.missed \/ w = Least(phase.missed + 1, 2)
        OBVIOUS
    <2>5. w \in 0 .. 2
        <3> HIDE DEF w
        <3> DEFINE m == phase.missed
        <3>1. m \in 0 .. 2 /\ (w = m \/ w = Least(m + 1, 2))
            BY <2>1, <2>4
        <3> HIDE DEF m
        <3> QED
            BY <3>1 DEF Least
    <2>6. u = "thrown" => stores
        BY <2>1
    <2>7. stores => v = "ended"
        OBVIOUS
    <2>8. stores => w = Least(1 + 1, 2)
        BY <1>18
    <2>9. Least(1 + 1, 2) = 2
        BY DEF Least
    <2> QED
        BY <2>2, <2>3, <2>5, <2>6, <2>7, <2>8, <2>9
<1>20. u \in {"closing", "joining", "ended"} =>
          p.asked = {} \/ phase.main \in {"closing", "joining", "ended"}
    OBVIOUS
<1> HIDE DEF u, v, w
<1>21. Phases' /\ phase'.main = u
    <2>1. phase'.main = u /\ phase'.thread = v /\ phase'.missed = w
        BY <1>16, <1>17
    <2>2. phase' \in [main : {"copying", "closing", "joining", "ended", "thrown"},
                      thread : {"copying", "hung up", "counting", "ended"},
                      missed : 0 .. 2]
        BY <1>16, <1>17, <1>19
    <2> QED
        BY <1>19, <2>1, <2>2 DEF Phases
<1>22. ASSUME faults = 0, u \in {"closing", "joining", "ended"}
       PROVE  k2.up.shut /\ k2.down.shut /\ k2.stdout.shut
    <2>1. CASE p.asked = {}
        BY <1>7, <1>8, <1>9, <1>14, <1>22, <2>1, CopyAllDone
    <2>2. CASE phase.main \in {"closing", "joining", "ended"}
        <3>1. k.up.shut /\ k.down.shut /\ k.stdout.shut
            BY <1>22, <2>2, InvSays DEF Faultless
        <3> QED
            BY <1>7, <3>1, Zenon DEF CopyGoes, CopyMoves, Keeps
    <2> QED
        BY <1>20, <1>22, <2>1, <2>2
<1>23. MainRuns'
    <2>1. Prepared(p).rules = p.rules
        BY DEF Prepared
    <2> QED
        BY <1>2, <1>11, <1>12, <1>13, <1>14, <1>15, <1>21, <1>22, <2>1 DEF MainRuns
<1>24. CopyMoves(k, copy, k', copy')
    BY <1>7, <1>12 DEF CopyGoes
<1> QED
    BY <1>2, <1>13, <1>23, <1>24, MainSteps

\* A shutdown takes nothing back of what poll has found.
LEMMA AnswersStay ==
    ASSUME NEW kk, NEW kk2, NEW c, NEW l, MainLoop(kk, c, l),
           kk2.stdin = kk.stdin, kk2.partner = kk.partner,
           kk2.stdout.buf = kk.stdout.buf, kk2.stdout.cap = kk.stdout.cap,
           kk2.stdout.gone = kk.stdout.gone,
           kk2.up.buf = kk.up.buf, kk2.up.cap = kk.up.cap,
           kk2.down.buf = kk.down.buf,
           kk.up.shut => kk2.up.shut, kk.down.shut => kk2.down.shut
    PROVE  MainLoop(kk2, c, l)
<1>1. ASSUME NEW rev, CopyAnswer(kk, rev) PROVE CopyAnswer(kk2, rev)
    BY <1>1, Zenon DEF CopyAnswer, Readable, Space
<1>2. \A r : CopyInterest([k |-> kk, m |-> c], r)
                <=> CopyInterest([k |-> kk2, m |-> c], r)
    BY DEF CopyInterest
<1> QED
    BY <1>1, <1>2, Zenon DEF MainLoop

\* The main thread calls wait_until_closed.
LEMMA ShutsDownHolds ==
    ASSUME Inv, ShutsDown
    PROVE  Inv' /\ [Promised!Next]_(Promised!vars)
<1>1. /\ phase.main = "closing" /\ k' = Hangs(k)
      /\ phase' = [phase EXCEPT !.main = "joining"]
      /\ UNCHANGED << copy, tcp, loop, sent, read, faults >>
    BY DEF ShutsDown
<1>2. CopyMoves(k, copy, k', copy')
    BY <1>1, InvSays, HangingMoves
<1>3. MainLoop(k', copy, loop.main)
    <2>1. /\ k'.stdin = k.stdin /\ k'.partner = k.partner /\ k'.stdout = k.stdout
          /\ k'.up.buf = k.up.buf /\ k'.up.cap = k.up.cap
          /\ k'.down.buf = k.down.buf /\ k'.up.shut /\ k'.down.shut
        BY <1>1, InvSays DEF Hangs, Shutdown, KernelFits, Channel
    <2> QED
        BY <2>1, InvSays, AnswersStay
<1>4. ASSUME faults = 0 PROVE k' = k /\ k.up.shut /\ k.down.shut /\ k.stdout.shut
    <2>1. k.up.shut /\ k.down.shut /\ k.stdout.shut
        BY <1>1, <1>4, InvSays DEF Faultless
    <2> QED
        BY <1>1, <2>1, InvSays, HangsNowhere
<1>5. Phases'
    BY <1>1, InvSays DEF Phases
<1>6. MainRuns'
    BY <1>1, <1>3, <1>4, <1>5, InvSays DEF MainRuns, Faultless
<1> QED
    BY <1>1, <1>2, <1>6, MainSteps

\* The main thread has joined the other one and ends.
LEMMA JoinsHolds ==
    ASSUME Inv, Joins
    PROVE  Inv' /\ [Promised!Next]_(Promised!vars)
<1>1. /\ phase.main = "joining" /\ k' = [k EXCEPT !.stdout = Shutdown(k.stdout)]
      /\ phase' = [phase EXCEPT !.main = "ended"]
      /\ UNCHANGED << copy, tcp, loop, sent, read, faults >>
    BY DEF Joins
<1>2. CopyMoves(k, copy, k', copy') /\ (k.stdout.shut => k' = k)
    BY <1>1, InvSays, EndingMoves
<1>3. MainLoop(k', copy, loop.main)
    <2>1. /\ k'.stdin = k.stdin /\ k'.partner = k.partner /\ k'.up = k.up
          /\ k'.down = k.down /\ k'.stdout.buf = k.stdout.buf
          /\ k'.stdout.cap = k.stdout.cap /\ k'.stdout.gone = k.stdout.gone
        BY <1>1, InvSays DEF Shutdown, KernelFits, Channel
    <2> QED
        BY <2>1, InvSays, AnswersStay
<1>4. ASSUME faults = 0 PROVE k' = k /\ k.up.shut /\ k.down.shut /\ k.stdout.shut
    <2>1. k.up.shut /\ k.down.shut /\ k.stdout.shut
        BY <1>1, <1>4, InvSays DEF Faultless
    <2> QED
        BY <1>2, <2>1
<1>5. Phases'
    BY <1>1, InvSays DEF Phases
<1>6. MainRuns'
    BY <1>1, <1>3, <1>4, <1>5, InvSays DEF MainRuns, Faultless
<1> QED
    BY <1>1, <1>2, <1>6, MainSteps

-----------------------------------------------------------------------------
(***************************************************************************)
(* The actions of the socket's thread.                                     *)
(***************************************************************************)
LEMMA ThreadPollsHolds ==
    ASSUME Inv, ThreadPolls
    PROVE  Inv' /\ [Promised!Next]_(Promised!vars)
<1> DEFINE l == loop.thread
           rev == ThreadEvents
           l2 == [l EXCEPT !.answer = << rev >>]
<1>1. /\ k' = k /\ tcp' = tcp /\ phase' = phase
      /\ UNCHANGED << copy, sent, read, faults >>
      /\ loop' = [loop EXCEPT !.thread.answer = << rev >>]
    BY DEF ThreadPolls
<1>2. ThreadAnswer(k, rev)
    BY PollFindsForThread
<1> HIDE DEF rev
<1>3. loop' = [loop EXCEPT !.thread = l2]
    BY <1>1
<1>4. l = [rules |-> l.rules, asked |-> l.asked, answer |-> l.answer]
    BY InvSays DEF ThreadLoop
<1>5. /\ l2 = [rules |-> l.rules, asked |-> l.asked, answer |-> << rev >>]
    <2> DEFINE a == l.rules
               b == l.asked
               c == l.answer
               d == << rev >>
    <2>1. l = [rules |-> a, asked |-> b, answer |-> c] /\ l2 = [l EXCEPT !.answer = d]
        BY <1>4
    <2> HIDE DEF a, b, c, d, l, l2
    <2>2. l2 = [rules |-> a, asked |-> b, answer |-> d]
        BY <2>1, Zenon
    <2> QED
        BY <2>2, Zenon DEF a, b, d
<1>6. l2.rules = l.rules /\ l2.asked = l.asked /\ l2.answer = << rev >>
    BY <1>5
<1>7. ThreadLoop(k, tcp, l2)
    <2>1. << rev >>[1] = rev
        OBVIOUS
    <2>2. l2 = [rules |-> l2.rules, asked |-> l2.asked, answer |-> l2.answer]
        BY <1>5, <1>6, Zenon
    <2> HIDE DEF l2
    <2> QED
        BY <1>2, <1>6, <2>1, <2>2, InvSays, Zenon DEF ThreadLoop
<1> HIDE DEF l2
<1>8. loop'.thread = l2 /\ loop'.main = loop.main
      /\ loop' = [main |-> loop'.main, thread |-> loop'.thread]
    <2> DEFINE m == loop.main
    <2> HIDE DEF m
    <2>1. loop' = [main |-> m, thread |-> l2]
        BY <1>3, LoopParts DEF m
    <2> QED
        BY <2>1 DEF m
<1>9. ThreadRuns'
    BY <1>1, <1>6, <1>7, <1>8, InvSays DEF ThreadRuns, Faultless, Phases
<1>10. ThreadMoves(k, tcp, k', tcp')
    BY <1>1, InvSays, ThreadGoesNowhere DEF ThreadGoes
<1> QED
    BY <1>1, <1>8, <1>9, <1>10, ThreadSteps

\* From streams that another call has left, the thread goes on.
LEMMA GoingOnHolds ==
    ASSUME Inv, Alive, NEW k2, NEW t2, NEW R, R \subseteq ThreadRuleSet,
           "segment" \in R, ThreadGoes(k, tcp, k2, t2),
           ThreadRulesGone(k, tcp, loop.thread.rules) => ThreadRulesGone(k2, t2, R),
           NEW p, p = Thread!Prepares([k |-> k2, m |-> t2], R), ThreadGoesOn(p, FALSE)
    PROVE  Inv' /\ [Promised!Next]_(Promised!vars)
<1>1. KernelFits(k2) /\ ThreadFits(t2)
    BY DEF ThreadGoes, ThreadMoves
<1>2. ThreadLooked(k2, t2, R, ThreadRuleSet, p)
    BY <1>1, ThreadPreparesEnds
<1>3. p.st = [k |-> k2, m |-> t2]
    BY <1>2 DEF ThreadLooked
<1>4. ThreadLoop(k2, t2, Prepared(p))
    BY <1>2, ThreadPrepared
<1>5. /\ k' = IF p.asked = {} THEN Hangs(k2) ELSE k2
      /\ tcp' = t2 /\ loop' = [loop EXCEPT !.thread = Prepared(p)]
      /\ phase' = [phase EXCEPT !.thread = IF p.asked = {} THEN "hung up" ELSE @]
      /\ UNCHANGED << copy, sent, read, faults >>
    <2>1. p.st.k = k2 /\ p.st.m = t2
        BY <1>3
    <2>2. /\ k' = IF p.asked = {} THEN Hangs(p.st.k) ELSE p.st.k
          /\ tcp' = p.st.m /\ loop' = [loop EXCEPT !.thread = Prepared(p)]
          /\ phase' = [phase EXCEPT !.thread = IF FALSE THEN "thrown"
                                   ELSE IF p.asked = {} THEN "hung up" ELSE @]
          /\ UNCHANGED << copy, sent, read, faults >>
        BY Zenon DEF ThreadGoesOn
    <2>3. (IF FALSE THEN "thrown" ELSE IF p.asked = {} THEN "hung up" ELSE phase.thread)
              = IF p.asked = {} THEN "hung up" ELSE phase.thread
        OBVIOUS
    <2> QED
        BY <2>1, <2>2, <2>3, Zenon
<1>6. /\ loop'.thread = Prepared(p) /\ loop'.main = loop.main
      /\ loop' = [main |-> loop'.main, thread |-> loop'.thread]
    <2> DEFINE q == Prepared(p)
               m == loop.main
    <2> HIDE DEF q, m
    <2>1. loop' = [main |-> m, thread |-> q]
        BY <1>5, LoopParts DEF q, m
    <2> QED
        BY <2>1 DEF q, m
<1>7. ASSUME faults = 0
      PROVE  /\ Good(k2, copy, t2) /\ ThreadRulesGone(k2, t2, p.rules)
             /\ p.asked = {} => k2.up.shut /\ k2.down.shut
    <2>1. Good(k2, copy, t2) /\ ThreadRulesGone(k2, t2, R)
        BY <1>7, InvSays DEF Faultless, ThreadGoes
    <2>2. ThreadRulesGone(k2, t2, p.rules)
        BY <1>1, <1>2, <2>1, ThreadLooksGone
    <2>3. p.asked = {} => k2.up.shut /\ k2.down.shut
        BY <1>1, <1>2, <2>1, ThreadAllDone
    <2> QED
        BY <2>1, <2>2, <2>3
<1>8. ThreadMoves(k, tcp, k', tcp')
    <2>1. ThreadMoves(k, tcp, k2, t2)
        BY DEF ThreadGoes
    <2>2. CASE p.asked = {}
        <3>1. ThreadMoves(k2, t2, Hangs(k2), t2)
            BY <1>1, HangingMoves
        <3>2. ThreadMoves(k, tcp, Hangs(k2), t2)
            BY <2>1, <3>1, InvSays, ThreadMovesFurther
        <3> QED
            BY <1>5, <2>2, <3>2
    <2>3. CASE p.asked # {}
        BY <1>5, <2>1, <2>3
    <2> QED
        BY <2>2, <2>3
<1>9. ASSUME faults = 0 PROVE k' = k2
    BY <1>1, <1>5, <1>7, <1>9, HangsNowhere
<1>10. ThreadLoop(k', tcp', loop'.thread)
    <2>1. CASE p.asked = {}
        <3> DEFINE l == Prepared(p)
        <3>1. l.answer = NoAnswer /\ l.asked = {}
            BY <2>1 DEF Prepared
        <3> HIDE DEF l
        <3>2. ThreadLoop(k', tcp', l)
            BY <1>4, <3>1 DEF ThreadLoop, l
        <3> QED
            BY <1>6, <3>2 DEF l
    <2>2. CASE p.asked # {}
        BY <1>4, <1>5, <1>6, <2>2
    <2> QED
        BY <2>1, <2>2
<1>11. /\ phase \in [main : {"copying", "closing", "joining", "ended", "thrown"},
                     thread : {"copying", "hung up", "counting", "ended"},
                     missed : 0 .. 2]
       /\ phase.main # "thrown"
    BY InvSays DEF Phases, Alive
<1> DEFINE v == IF p.asked = {} THEN "hung up" ELSE phase.thread
<1>12. phase' = [phase EXCEPT !.thread = v]
    BY <1>5
<1>13. v \in {"copying", "hung up", "counting", "ended"}
    BY <1>11
<1> HIDE DEF v
<1>14. Phases' /\ phase'.main = phase.main
    BY <1>11, <1>12, <1>13 DEF Phases
<1>15. ThreadRuns'
    <2>1. Prepared(p).rules = p.rules
        BY DEF Prepared
    <2> QED
        BY <1>5, <1>6, <1>7, <1>9, <1>10, <1>14, <2>1 DEF ThreadRuns
<1> QED
    BY <1>5, <1>6, <1>8, <1>14, <1>15, ThreadSteps

\* The thread deals with the answer and prepares its next poll.
LEMMA ThreadServesHolds ==
    ASSUME Inv, ThreadServes
    PROVE  Inv' /\ [Promised!Next]_(Promised!vars)
<1> DEFINE l == loop.thread
           s == Thread!Serves([k |-> k, m |-> tcp], l.rules, l.asked, l.answer[1])
           p == Thread!Prepares(s.st, s.rules)
<1>1. ThreadGoesOn(p, s.busy) /\ Alive /\ l.answer # NoAnswer
    BY DEF ThreadServes, ThreadMayServe
<1>2. /\ KernelFits(k) /\ ThreadFits(tcp) /\ l.rules \subseteq ThreadRuleSet
      /\ \A r \in l.asked : ThreadInterest([k |-> k, m |-> tcp], r)
      /\ ThreadAnswer(k, l.answer[1]) /\ Comes(k, tcp, sent)
      /\ "segment" \in l.rules
    BY <1>1, InvSays DEF ThreadLoop
<1>3. ThreadGets(k, tcp, l.rules, s)
    BY <1>2, ThreadServesEnds
<1> HIDE DEF s
<1> DEFINE k2 == s.st.k
           t2 == s.st.m
           R == s.rules
<1>4. s = [st |-> [k |-> k2, m |-> t2], rules |-> R, served |-> s.served,
           again |-> s.again, busy |-> FALSE]
    BY <1>3, Zenon DEF ThreadGets
<1>5. s.st = [k |-> k2, m |-> t2] /\ s.busy = FALSE
    BY <1>4
<1>6. /\ R \subseteq ThreadRuleSet /\ "segment" \in R /\ ThreadGoes(k, tcp, k2, t2)
      /\ ThreadRulesGone(k, tcp, l.rules) => ThreadRulesGone(k2, t2, R)
    BY <1>2, <1>3 DEF ThreadGets
<1>7. p = Thread!Prepares([k |-> k2, m |-> t2], R) /\ ThreadGoesOn(p, FALSE)
    BY <1>1, <1>5
<1> HIDE DEF k2, t2, R, p
<1> QED
    BY <1>1, <1>6, <1>7, GoingOnHolds

\* The thread stops lingering.
LEMMA LingerEndsHolds ==
    ASSUME Inv, LingerEnds
    PROVE  Inv' /\ [Promised!Next]_(Promised!vars)
<1> DEFINE t2 == [tcp EXCEPT !.linger = FALSE]
           R == loop.thread.rules
           p == Thread!Prepares([k |-> k, m |-> t2], R)
<1>1. ThreadGoesOn(p, FALSE) /\ Alive
    BY DEF LingerEnds, MayLinger
<1>2. /\ ThreadGoes(k, tcp, k, t2)
      /\ ThreadRulesGone(k, tcp, R) => ThreadRulesGone(k, t2, R)
    BY InvSays, LingeringGoes
<1>3. R \subseteq ThreadRuleSet /\ "segment" \in R
    BY InvSays
<1> HIDE DEF t2, p
<1> QED
    BY <1>1, <1>2, <1>3, GoingOnHolds DEF p

\* The thread adds to the read count of the main thread's descriptor.
LEMMA ThreadCountsHolds ==
    ASSUME Inv, ThreadCounts
    PROVE  Inv' /\ [Promised!Next]_(Promised!vars)
<1>1. /\ Alive
      /\ phase' = [phase EXCEPT
             !.thread = IF @ = "hung up" THEN "counting" ELSE "ended"]
      /\ k' = k /\ tcp' = tcp /\ loop' = loop
      /\ UNCHANGED << copy, sent, read, faults >>
    BY DEF ThreadCounts
<1>2. /\ phase \in [main : {"copying", "closing", "joining", "ended", "thrown"},
                    thread : {"copying", "hung up", "counting", "ended"},
                    missed : 0 .. 2]
      /\ phase.main # "thrown"
    BY <1>1, InvSays DEF Phases, Alive
<1>3. Phases' /\ phase'.main = phase.main
    BY <1>1, <1>2 DEF Phases
<1>4. ThreadMoves(k, tcp, k', tcp')
    BY <1>1, InvSays, ThreadGoesNowhere DEF ThreadGoes
<1>5. ThreadRuns'
    BY <1>1, <1>3, InvSays DEF ThreadRuns, Faultless
<1> QED
    BY <1>1, <1>3, <1>4, <1>5, ThreadSteps

-----------------------------------------------------------------------------
(***************************************************************************)
(* The user and the partner.                                               *)
(***************************************************************************)
\* What they do takes nothing back of what either poll has found.
LEMMA OutsideSteps ==
    ASSUME Inv, UNCHANGED << copy, tcp, loop, phase >>,
           KernelFits(k'), Comes(k', tcp, sent'),
           sent' \in [bytes : Nat, closed : BOOLEAN, load : [up : Nat, down : Nat]],
           read' \in Seq(Nat), faults' \in Nat,
           (sent.bytes = Len(Down.left) + Len(Down.transit))',
           k'.up = k.up, k'.down = k.down, k'.stdin.gone = k.stdin.gone,
           Readable(k.stdin) => Readable(k'.stdin),
           k.stdin.shut => k'.stdin = k.stdin,
           Space(k.stdout) > 0 => Space(k'.stdout) > 0,
           k.stdout.gone => k'.stdout.gone,
           k'.stdout.shut = k.stdout.shut,
           k.partner.coming # << >> => k'.partner.coming # << >>,
           faults' = 0 => faults = 0 /\ Good(k', copy, tcp)
    PROVE  Inv'
<1>1. ASSUME NEW rev, CopyAnswer(k, rev) PROVE CopyAnswer(k', rev)
    BY <1>1, Zenon DEF CopyAnswer
<1>2. ASSUME NEW rev, ThreadAnswer(k, rev) PROVE ThreadAnswer(k', rev)
    BY <1>2, Zenon DEF ThreadAnswer
<1>3. MainLoop(k', copy, loop.main)
    <2>1. \A r : CopyInterest([k |-> k, m |-> copy], r)
                    <=> CopyInterest([k |-> k', m |-> copy], r)
        BY DEF CopyInterest
    <2> QED
        BY <1>1, <2>1, InvSays, Zenon DEF MainLoop
<1>4. ThreadLoop(k', tcp, loop.thread)
    <2>1. \A r : ThreadInterest([k |-> k, m |-> tcp], r)
                    <=> ThreadInterest([k |-> k', m |-> tcp], r)
        BY DEF ThreadInterest
    <2> QED
        BY <1>2, <2>1, InvSays, Zenon DEF ThreadLoop
<1>5. TypeInv'
    BY <1>3, <1>4 DEF Inv, TypeInv, Phases
<1>6. (faults = 0 => Faultless)'
    BY DEF Inv, Faultless, CopyRulesGone, ThreadRulesGone
<1> QED
    BY <1>5, <1>6 DEF Inv

\* Steps that change neither direction.
LEMMA NothingMoves ==
    ASSUME Inv, UpTransit(k', copy', tcp') = UpTransit(k, copy, tcp),
           DownTransit(k', copy', tcp') = DownTransit(k, copy, tcp),
           k'.partner.got = k.partner.got, k'.partner.ended = k.partner.ended,
           k'.stdin.shut = k.stdin.shut, k'.stdout.shut = k.stdout.shut,
           k'.stdout.buf = k.stdout.buf, read' = read, sent'.closed = sent.closed
    PROVE  Up' = Up /\ Down' = Down
BY UpAndDown

\* What the partner has sent has been read or is under way.
LEMMA LoadOfDown ==
    ASSUME Inv
    PROVE  sent.bytes = Len(read) + Len(DownTransit(k, copy, tcp))
BY UpAndDown DEF Inv, TypeInv, Direction

\* The kernel with another channel or partner.
LEMMA StdinChanges ==
    ASSUME NEW kk, KernelFits(kk), NEW d, ChannelFits(d)
    PROVE  LET kk2 == [kk EXCEPT !.stdin = d] IN
           /\ KernelFits(kk2) /\ kk2.stdin = d /\ kk2.stdout = kk.stdout
           /\ kk2.up = kk.up /\ kk2.down = kk.down /\ kk2.partner = kk.partner
BY DEF KernelFits, ChannelFits

\* The same of standard output.
LEMMA StdoutChanges ==
    ASSUME NEW kk, KernelFits(kk), NEW d, ChannelFits(d)
    PROVE  LET kk2 == [kk EXCEPT !.stdout = d] IN
           /\ KernelFits(kk2) /\ kk2.stdin = kk.stdin /\ kk2.stdout = d
           /\ kk2.up = kk.up /\ kk2.down = kk.down /\ kk2.partner = kk.partner
BY DEF KernelFits, ChannelFits

\* The same of what the partner has sent.
LEMMA PartnerChanges ==
    ASSUME NEW kk, KernelFits(kk), NEW msg \in Message
    PROVE  LET kk2 == [kk EXCEPT !.partner.coming = << msg >>] IN
           /\ KernelFits(kk2) /\ kk2.stdin = kk.stdin /\ kk2.stdout = kk.stdout
           /\ kk2.up = kk.up /\ kk2.down = kk.down
           /\ kk2.partner.got = kk.partner.got /\ kk2.partner.ended = kk.partner.ended
           /\ kk2.partner.coming = << msg >>
<1> DEFINE q == << msg >>
           j == [kk.partner EXCEPT !.coming = q]
           kk2 == [kk EXCEPT !.partner = j]
<1>1. q \in Seq(Message) /\ Len(q) = 1
    OBVIOUS
<1> HIDE DEF q
<1>2. /\ j \in Partner /\ j.got = kk.partner.got /\ j.ended = kk.partner.ended
      /\ j.coming = q
    BY <1>1 DEF KernelFits, Partner
<1>3. [kk EXCEPT !.partner.coming = q] = kk2
    OBVIOUS
<1> HIDE DEF j
<1>4. Len(j.coming) <= 1
    <2>1. Len(j.coming) = 1
        BY <1>1, <1>2, Zenon
    <2> QED
        BY <2>1
<1>5. /\ KernelFits(kk2) /\ kk2.stdin = kk.stdin /\ kk2.stdout = kk.stdout
      /\ kk2.up = kk.up /\ kk2.down = kk.down /\ kk2.partner = j
    BY <1>2, <1>4 DEF KernelFits
<1> QED
    BY <1>2, <1>3, <1>5 DEF q

\* The user ends standard input: the first direction closes.
LEMMA UserClosesHolds ==
    ASSUME Inv, UserCloses
    PROVE  Inv' /\ [Promised!Next]_(Promised!vars)
<1> DEFINE d == Shutdown(k.stdin)
<1>1. /\ ~k.stdin.shut /\ k' = [k EXCEPT !.stdin = d]
      /\ UNCHANGED << copy, tcp, loop, phase, sent, read, faults >>
    BY DEF UserCloses
<1>2. /\ ChannelFits(d) /\ d.shut /\ d.buf = k.stdin.buf /\ d.gone = k.stdin.gone
      /\ d.broken = k.stdin.broken /\ d.shut = TRUE
    BY InvSays, Shuts DEF KernelFits, Shutdown, Channel
<1> HIDE DEF d
<1>3. /\ KernelFits(k') /\ k'.stdin = d /\ k'.stdout = k.stdout
      /\ k'.up = k.up /\ k'.down = k.down /\ k'.partner = k.partner
    BY <1>1, <1>2, InvSays, StdinChanges
<1>4. /\ UpTransit(k', copy', tcp') = UpTransit(k, copy, tcp)
      /\ DownTransit(k', copy', tcp') = DownTransit(k, copy, tcp)
    BY <1>1, <1>2, <1>3, Zenon DEF UpTransit, DownTransit
<1>5. Down' = Down
    BY <1>1, <1>3, <1>4, UpAndDown
<1>6. Inv'
    <2>1. Comes(k', tcp, sent')
        BY <1>1, <1>3, InvSays DEF Comes
    <2>2. ASSUME faults = 0 PROVE Good(k', copy, tcp)
        BY <1>1, <1>2, <1>3, <2>2, InvSays DEF Faultless, Good, Calm, UpEnds, DownEnds
    <2>3. (sent.bytes = Len(Down.left) + Len(Down.transit))'
        BY <1>1, <1>5 DEF Inv, TypeInv
    <2>4. Readable(k.stdin) => Readable(k'.stdin)
        BY <1>2, <1>3 DEF Readable
    <2> QED
        BY <1>1, <1>2, <1>3, <2>1, <2>2, <2>3, <2>4, OutsideSteps DEF Inv, TypeInv
<1>7. Promised!Closes(Up, Up')
    <2> DEFINE w == UpTransit(k, copy, tcp)
               g == k.partner.got
               e == k.partner.ended
               a == Direction(w, g, k.stdin.shut, e)
               b == [a EXCEPT !.closed = TRUE]
    <2>1. Up = a /\ Up' = Direction(w, g, TRUE, e)
        BY <1>2, <1>3, <1>4, UpAndDown
    <2>2. a = [transit |-> w, left |-> g, closed |-> k.stdin.shut, ended |-> e]
        BY DEF Direction
    <2>3. b = [a EXCEPT !.closed = TRUE]
        OBVIOUS
    <2> HIDE DEF w, g, e, a, b
    <2>4. b = [transit |-> w, left |-> g, closed |-> TRUE, ended |-> e]
        BY <2>2, <2>3, Zenon
    <2> QED
        BY <2>1, <2>4 DEF Promised!Closes, Direction, b
<1>8. [Promised!Next]_(Promised!vars)
    BY <1>1, <1>5, <1>7 DEF Promised!Next, Promised!Step
<1> QED
    BY <1>6, <1>8

\* The user writes a byte: it enters the first direction.
LEMMA UserWritesHolds ==
    ASSUME Inv, UserWrites
    PROVE  Inv' /\ [Promised!Next]_(Promised!vars)
<1>1. PICK byte \in 1 .. sent.load.up :
          /\ byte = 1 + Len(k.partner.got) + Buffered(tcp.out) + Len(k.up.buf)
                      + Buffered(copy.out) + Len(k.stdin.buf)
          /\ k' = [k EXCEPT !.stdin.buf = Append(@, byte)]
    BY DEF UserWrites
<1>2. /\ ~k.stdin.shut /\ Space(k.stdin) > 0
      /\ UNCHANGED << copy, tcp, loop, phase, sent, read, faults >>
    BY DEF UserWrites
<1> DEFINE i == k.stdin.buf
           i2 == Append(i, byte)
           d == [k.stdin EXCEPT !.buf = i2]
<1>3. /\ i \in Seq(Nat) /\ tcp.out.buf \in Seq(Nat) /\ k.up.buf \in Seq(Nat)
      /\ copy.out.buf \in Seq(Nat) /\ k.partner.got \in Seq(Nat)
    BY InvSays, BuffersTyped
<1>4. byte \in Nat
    BY DEF Inv, TypeInv
<1>5. /\ i2 \in Seq(Nat) /\ Len(i2) = Len(i) + 1 /\ i2 # << >> /\ i2 = i \o << byte >>
      /\ Len(i) \in Nat
    <2> HIDE DEF i
    <2>1. i2 \in Seq(Nat) /\ Len(i2) = Len(i) + 1 /\ Len(i) \in Nat
        BY <1>3, <1>4
    <2>2. i2 = i \o << byte >>
        BY <1>3, <1>4, AppendIsConcat
    <2>3. i2 # << >>
        BY <2>1
    <2> QED
        BY <2>1, <2>2, <2>3, Zenon
<1>6. k' = [k EXCEPT !.stdin = d]
    BY <1>1
<1>7. /\ ChannelFits(d) /\ d.buf = i2 /\ d.shut = k.stdin.shut
      /\ d.gone = k.stdin.gone /\ d.broken = k.stdin.broken
    <2>1. ChannelFits(k.stdin)
        BY InvSays DEF KernelFits
    <2>2. Len(i) < k.stdin.cap /\ k.stdin.cap \in Nat
        BY <1>2, <1>5, <2>1 DEF ChannelFits, Channel, Space
    <2>3. Len(i2) <= k.stdin.cap
        BY <1>5, <2>2
    <2> HIDE DEF i2, i
    <2>4. d \in Channel /\ d.buf = i2 /\ d.cap = k.stdin.cap /\ d.shut = k.stdin.shut
          /\ d.gone = k.stdin.gone /\ d.broken = k.stdin.broken
        BY <1>5, <2>1 DEF ChannelFits, Channel
    <2> QED
        BY <2>3, <2>4 DEF ChannelFits
<1> HIDE DEF i2
<1> HIDE DEF d
<1>8. /\ KernelFits(k') /\ k'.stdin = d /\ k'.stdout = k.stdout
      /\ k'.up = k.up /\ k'.down = k.down /\ k'.partner = k.partner
    BY <1>6, <1>7, InvSays, StdinChanges
<1> DEFINE w == UpTransit(k, copy, tcp)
           g == k.partner.got
<1>9. w \in Seq(Nat) /\ g \in Seq(Nat)
    BY InvSays, BuffersTyped
<1>10. byte = Len(g) + Len(w) + 1
    <2> DEFINE a == tcp.out.buf
               u == k.up.buf
               o == copy.out.buf
    <2>1. a \in Seq(Nat) /\ u \in Seq(Nat) /\ o \in Seq(Nat) /\ i \in Seq(Nat)
        BY <1>3
    <2>2. w = Onto(Onto(Onto(a, u), o), i)
        BY Zenon DEF UpTransit, Onto
    <2>3. byte = 1 + Len(g) + Len(a) + Len(u) + Len(o) + Len(i)
        BY <1>1 DEF Buffered
    <2> HIDE DEF a, u, o, i, w, g
    <2>4. Onto(a, u) \in Seq(Nat) /\ Len(Onto(a, u)) = Len(a) + Len(u)
        BY <2>1, ConcatProperties DEF Onto
    <2>5. /\ Onto(Onto(a, u), o) \in Seq(Nat)
          /\ Len(Onto(Onto(a, u), o)) = Len(Onto(a, u)) + Len(o)
        BY <2>1, <2>4, ConcatProperties DEF Onto
    <2>6. Len(w) = Len(Onto(Onto(a, u), o)) + Len(i)
        BY <2>1, <2>2, <2>5, ConcatProperties DEF Onto
    <2>7. /\ Len(a) \in Nat /\ Len(u) \in Nat /\ Len(o) \in Nat /\ Len(i) \in Nat
          /\ Len(g) \in Nat
        BY <1>9, <2>1, LenProperties
    <2>8. Len(w) = Len(a) + Len(u) + Len(o) + Len(i)
        BY <2>4, <2>5, <2>6, Zenon
    <2> QED
        BY <2>3, <2>7, <2>8
<1>11. /\ UpTransit(k', copy', tcp') = Append(w, byte)
       /\ DownTransit(k', copy', tcp') = DownTransit(k, copy, tcp)
    <2>1. DownTransit(k', copy', tcp') = DownTransit(k, copy, tcp)
        BY <1>2, <1>8, Zenon DEF DownTransit
    <2> DEFINE x == tcp.out.buf \o k.up.buf \o copy.out.buf
               z == << byte >>
    <2>2. UpTransit(k', copy', tcp') = Onto(x, Onto(i, z))
        BY <1>2, <1>5, <1>7, <1>8, Zenon DEF UpTransit, Onto
    <2>3. w = Onto(x, i)
        BY Zenon DEF UpTransit, Onto
    <2>4. x \in Seq(Nat) /\ z \in Seq(Nat)
        BY <1>3, <1>4, ConcatProperties
    <2> HIDE DEF x, z, w, i
    <2>5. Onto(Onto(x, i), z) = Onto(x, Onto(i, z))
        BY <1>3, <2>4, OntoFacts
    <2>6. Onto(w, z) = Append(w, byte)
        BY <1>4, <1>9, AppendIsConcat DEF Onto, z
    <2> QED
        BY <2>1, <2>2, <2>3, <2>5, <2>6, Zenon
<1>12. Down' = Down
    BY <1>2, <1>8, <1>11, UpAndDown
<1>13. Inv'
    <2>1. Comes(k', tcp, sent')
        BY <1>2, <1>8, InvSays DEF Comes
    <2>2. ASSUME faults = 0 PROVE Good(k', copy, tcp)
        BY <1>2, <1>7, <1>8, <2>2, InvSays DEF Faultless, Good, Calm, UpEnds, DownEnds
    <2>3. (sent.bytes = Len(Down.left) + Len(Down.transit))'
        BY <1>2, <1>12 DEF Inv, TypeInv
    <2>4. Readable(k'.stdin)
        BY <1>5, <1>7, <1>8 DEF Readable
    <2> QED
        BY <1>2, <1>7, <1>8, <2>1, <2>2, <2>3, <2>4, OutsideSteps DEF Inv, TypeInv
<1>14. Promised!Enters(Up, Up')
    <2> DEFINE e == k.partner.ended
               sh == k.stdin.shut
               a == Direction(w, g, sh, e)
               w2 == Append(w, byte)
               b == [a EXCEPT !.transit = w2]
    <2>1. Up = a /\ Up' = Direction(w2, g, sh, e)
        BY <1>2, <1>7, <1>8, <1>11, UpAndDown
    <2>2. a = [transit |-> w, left |-> g, closed |-> sh, ended |-> e]
        BY DEF Direction
    <2>3. b = [a EXCEPT !.transit = w2] /\ ~sh
        BY <1>2
    <2>4. w2 = Append(w, Len(g) + Len(w) + 1)
        BY <1>10
    <2>5. a.transit = w /\ a.left = g /\ a.closed = sh
        BY DEF Direction
    <2> HIDE DEF w, g, e, sh, a, b, w2
    <2>6. b = [transit |-> w2, left |-> g, closed |-> sh, ended |-> e]
        BY <2>2, <2>3, Zenon
    <2>7. Up' = [a EXCEPT !.transit = Append(a.transit, Len(a.left) + Len(a.transit) + 1)]
        BY <2>1, <2>4, <2>5, <2>6, Zenon DEF Direction, b
    <2> QED
        BY <2>1, <2>3, <2>5, <2>7 DEF Promised!Enters
<1>15. [Promised!Next]_(Promised!vars)
    BY <1>2, <1>12, <1>14 DEF Promised!Next, Promised!Step
<1> QED
    BY <1>13, <1>15

\* The user reads: the bytes leave the second direction.
LEMMA UserReadsHolds ==
    ASSUME Inv, UserReads
    PROVE  Inv' /\ [Promised!Next]_(Promised!vars)
<1> DEFINE none == << >>
           d == [k.stdout EXCEPT !.buf = none]
           first == k.stdout.buf
           rest == copy.in.buf \o k.down.buf \o tcp.in.buf \o ByteOf(k.partner.coming)
           was == k.stdout.shut /\ k.stdout.buf = << >>
           is == k.stdout.shut
<1>1. /\ first # << >> /\ k' = [k EXCEPT !.stdout = d]
      /\ read' = Onto(read, first)
      /\ UNCHANGED << copy, tcp, loop, phase, sent, faults >>
    BY DEF UserReads, Readable, Onto
<1>2. /\ first \in Seq(Nat) /\ copy.in.buf \in Seq(Nat) /\ k.down.buf \in Seq(Nat)
      /\ tcp.in.buf \in Seq(Nat) /\ ByteOf(k.partner.coming) \in Seq(Nat)
      /\ read \in Seq(Nat)
    BY InvSays, BuffersTyped DEF Inv, TypeInv
<1>3. /\ ChannelFits(d) /\ d.buf = none /\ d.shut = k.stdout.shut
      /\ d.gone = k.stdout.gone /\ d.broken = k.stdout.broken /\ d.cap = k.stdout.cap
    <2>1. ChannelFits(k.stdout)
        BY InvSays DEF KernelFits
    <2>2. none \in Seq(Nat) /\ Len(none) = 0
        OBVIOUS
    <2> HIDE DEF none
    <2>3. d \in Channel /\ d.buf = none /\ d.shut = k.stdout.shut
          /\ d.gone = k.stdout.gone /\ d.broken = k.stdout.broken /\ d.cap = k.stdout.cap
        BY <2>1, <2>2 DEF ChannelFits, Channel
    <2>4. d.cap \in Nat /\ Len(d.buf) = 0
        <3>1. Len(d.buf) = 0
            BY <2>2, <2>3, Zenon
        <3> QED
            BY <2>3, <3>1 DEF Channel
    <2> QED
        BY <2>3, <2>4 DEF ChannelFits
<1>4. Space(k.stdout) > 0 => Space(d) > 0
    <2>1. Len(k.stdout.buf) \in Nat /\ k.stdout.cap \in Nat /\ Len(none) = 0
        BY <1>2, InvSays DEF KernelFits, Channel
    <2>2. Space(d) = k.stdout.cap - 0
        BY <1>3, <2>1, Zenon DEF Space
    <2> HIDE DEF d
    <2> QED
        BY <2>1, <2>2 DEF Space
<1> HIDE DEF d
<1>5. /\ KernelFits(k') /\ k'.stdout = d /\ k'.stdin = k.stdin
      /\ k'.up = k.up /\ k'.down = k.down /\ k'.partner = k.partner
    BY <1>1, <1>3, InvSays, StdoutChanges
<1>6. rest \in Seq(Nat)
    <2>1. copy.in.buf \o k.down.buf \in Seq(Nat)
        BY <1>2, ConcatProperties
    <2>2. copy.in.buf \o k.down.buf \o tcp.in.buf \in Seq(Nat)
        BY <1>2, <2>1, ConcatProperties
    <2> QED
        BY <1>2, <2>2, ConcatProperties
<1>7. \A s \in Seq(Nat) :
          s \o copy.in.buf \o k.down.buf \o tcp.in.buf \o ByteOf(k.partner.coming)
              = Onto(s, rest)
    <2> DEFINE a == copy.in.buf
               b == k.down.buf
               c == tcp.in.buf
               e == ByteOf(k.partner.coming)
    <2> TAKE s \in Seq(Nat)
    <2>1. a \in Seq(Nat) /\ b \in Seq(Nat) /\ c \in Seq(Nat) /\ e \in Seq(Nat)
        BY <1>2
    <2>2. rest = Onto(Onto(Onto(a, b), c), e)
        BY Zenon DEF Onto
    <2>3. s \o a \o b \o c \o e = Onto(Onto(Onto(Onto(s, a), b), c), e)
        BY Zenon DEF Onto
    <2> HIDE DEF a, b, c, e, rest
    <2>4. Onto(Onto(s, a), b) = Onto(s, Onto(a, b)) /\ Onto(a, b) \in Seq(Nat)
        BY <2>1, OntoFacts
    <2>5. /\ Onto(Onto(s, Onto(a, b)), c) = Onto(s, Onto(Onto(a, b), c))
          /\ Onto(Onto(a, b), c) \in Seq(Nat)
        BY <2>1, <2>4, OntoFacts
    <2>6. Onto(Onto(s, Onto(Onto(a, b), c)), e) = Onto(s, Onto(Onto(Onto(a, b), c), e))
        BY <2>1, <2>5, OntoFacts
    <2>7. s \o a \o b \o c \o e = Onto(s, rest)
        BY <2>2, <2>3, <2>4, <2>5, <2>6, Zenon
    <2> QED
        BY <2>7 DEF a, b, c, e
<1>8. /\ DownTransit(k, copy, tcp) = Onto(first, rest)
      /\ DownTransit(k', copy', tcp') = rest
    <2>1. DownTransit(k, copy, tcp) = Onto(first, rest)
        BY <1>2, <1>7, Zenon DEF DownTransit
    <2>2. none \in Seq(Nat)
        OBVIOUS
    <2> HIDE DEF rest, first
    <2>3. DownTransit(k', copy', tcp') = Onto(none, rest)
        BY <1>1, <1>3, <1>5, <1>7, <2>2, Zenon DEF DownTransit
    <2>4. Onto(none, rest) = rest
        BY <1>6, ConcatEmptySeq DEF Onto
    <2> QED
        BY <2>1, <2>3, <2>4, Zenon
<1>9. UpTransit(k', copy', tcp') = UpTransit(k, copy, tcp)
    BY <1>1, <1>5, Zenon DEF UpTransit
<1>10. Up' = Up
    BY <1>1, <1>5, <1>9, UpAndDown
<1>11. /\ Down = Direction(Onto(first, rest), read, sent.closed, was)
       /\ Down' = Direction(rest, Onto(read, first), sent.closed, is)
    <2>1. Down = Direction(Onto(first, rest), read, sent.closed, was)
        BY <1>8, UpAndDown, Zenon
    <2>2. (k'.stdout.shut /\ k'.stdout.buf = << >>) = is
        BY <1>3, <1>5, InvSays DEF KernelFits, Channel
    <2>3. sent'.closed = sent.closed
        BY <1>1
    <2> HIDE DEF first, rest, is
    <2>4. Down' = Direction(rest, Onto(read, first), sent.closed, is)
        BY <1>1, <1>8, <2>2, <2>3, UpAndDown, Zenon
    <2> QED
        BY <2>1, <2>4
<1>12. /\ read' \in Seq(Nat)
       /\ (sent.bytes = Len(Down.left) + Len(Down.transit))'
    <2>1. sent.bytes = Len(read) + Len(Onto(first, rest))
        BY <1>8, LoadOfDown, Zenon
    <2>2. Down'.left = Onto(read, first) /\ Down'.transit = rest
        BY <1>11 DEF Direction
    <2> HIDE DEF first, rest
    <2>3. /\ Len(Onto(first, rest)) = Len(first) + Len(rest)
          /\ Len(Onto(read, first)) = Len(read) + Len(first)
          /\ Onto(read, first) \in Seq(Nat)
        BY <1>2, <1>6, ConcatProperties DEF Onto
    <2>4. Len(first) \in Nat /\ Len(rest) \in Nat /\ Len(read) \in Nat
        BY <1>2, <1>6, LenProperties
    <2>5. sent'.bytes = Len(Onto(read, first)) + Len(rest)
        BY <1>1, <2>1, <2>3, <2>4
    <2> QED
        BY <1>1, <2>2, <2>3, <2>5, Zenon
<1>13. ASSUME faults = 0 PROVE Good(k', copy, tcp)
    BY <1>1, <1>3, <1>5, <1>13, InvSays DEF Faultless, Good, Calm, UpEnds, DownEnds
<1>14. Inv'
    <2>1. Comes(k', tcp, sent')
        BY <1>1, <1>5, InvSays DEF Comes
    <2> QED
        BY <1>1, <1>3, <1>4, <1>5, <1>12, <1>13, <2>1, OutsideSteps DEF Inv, TypeInv
<1>15. is => faults > 0 \/ (sent.closed /\ rest = << >>)
    <2> SUFFICES ASSUME is, ~(faults > 0) PROVE sent.closed /\ rest = << >>
        OBVIOUS
    <2>1. faults = 0
        BY DEF Inv, TypeInv
    <2>2. Good(k', copy, tcp) /\ Comes(k, tcp, sent) /\ k'.partner = k.partner
        BY <1>5, <1>13, <2>1, InvSays
    <2>3. Comes(k', tcp, sent)
        BY <2>2 DEF Comes
    <2>4. k'.stdout.shut /\ k'.stdout.buf = << >>
        BY <1>3, <1>5
    <2> HIDE DEF rest
    <2>5. DownTransit(k', copy, tcp) = << >> /\ sent.closed
        BY <2>2, <2>3, <2>4, LastDown
    <2> QED
        BY <1>1, <1>8, <2>5
<1>16. Promised!Leaves(Down, Down')
    <2>1. sent.closed \in BOOLEAN /\ was \in BOOLEAN /\ is \in BOOLEAN
        BY InvSays DEF Inv, TypeInv, KernelFits, Channel
    <2>2. was => is
        OBVIOUS
    <2> HIDE DEF first, rest, was, is
    <2> QED
        BY <1>2, <1>6, <1>11, <1>15, <2>1, <2>2, BytesLeave
<1>17. [Promised!Next]_(Promised!vars)
    BY <1>1, <1>10, <1>16, DownLeaves
<1> QED
    BY <1>14, <1>17

\* The user closes standard output: a fault.
LEMMA UserLeavesHolds ==
    ASSUME Inv, UserLeaves
    PROVE  Inv' /\ [Promised!Next]_(Promised!vars)
<1> DEFINE d == [k.stdout EXCEPT !.gone = TRUE]
<1>1. /\ k' = [k EXCEPT !.stdout = d] /\ faults' = faults + 1
      /\ UNCHANGED << copy, tcp, loop, phase, sent, read >>
    BY DEF UserLeaves
<1>2. /\ ChannelFits(d) /\ d.buf = k.stdout.buf /\ d.shut = k.stdout.shut
      /\ d.gone /\ d.cap = k.stdout.cap
    BY InvSays DEF KernelFits, ChannelFits, Channel
<1> HIDE DEF d
<1>3. /\ KernelFits(k') /\ k'.stdout = d /\ k'.stdin = k.stdin
      /\ k'.up = k.up /\ k'.down = k.down /\ k'.partner = k.partner
    BY <1>1, <1>2, InvSays, StdoutChanges
<1>4. /\ UpTransit(k', copy', tcp') = UpTransit(k, copy, tcp)
      /\ DownTransit(k', copy', tcp') = DownTransit(k, copy, tcp)
    BY <1>1, <1>2, <1>3, Zenon DEF UpTransit, DownTransit
<1>5. Up' = Up /\ Down' = Down
    BY <1>1, <1>2, <1>3, <1>4, NothingMoves
<1>6. faults' \in Nat /\ faults' > 0 /\ faults' # 0
    BY <1>1 DEF Inv, TypeInv
<1>7. Inv'
    <2>1. Comes(k', tcp, sent')
        BY <1>1, <1>3, InvSays DEF Comes
    <2>2. (sent.bytes = Len(Down.left) + Len(Down.transit))'
        BY <1>1, <1>5 DEF Inv, TypeInv
    <2>3. Space(k.stdout) > 0 => Space(k'.stdout) > 0
        BY <1>2, <1>3 DEF Space
    <2> QED
        BY <1>1, <1>2, <1>3, <1>6, <2>1, <2>2, <2>3, OutsideSteps DEF Inv, TypeInv
<1>8. [Promised!Next]_(Promised!vars)
    BY <1>5, <1>6 DEF Promised!Next
<1> QED
    BY <1>7, <1>8

\* What comes from the partner is put behind all that is under way.
LEMMA PartnerPuts ==
    ASSUME Inv, NEW msg \in Message, Sends(msg),
           UNCHANGED << copy, tcp, loop, phase, read >>
    PROVE  /\ KernelFits(k') /\ k'.stdin = k.stdin /\ k'.stdout = k.stdout
           /\ k'.up = k.up /\ k'.down = k.down
           /\ k'.partner.got = k.partner.got /\ k'.partner.ended = k.partner.ended
           /\ k'.partner.coming = << msg >> /\ Head(k'.partner.coming) = msg
           /\ UpTransit(k', copy', tcp') = UpTransit(k, copy, tcp)
           /\ DownTransit(k', copy', tcp')
                 = Onto(DownTransit(k, copy, tcp), ByteOf(<< msg >>))
<1>1. /\ k.partner.coming = << >>
      /\ k' = [k EXCEPT !.partner.coming = << msg >>]
      /\ copy' = copy /\ tcp' = tcp
    BY DEF Sends
<1>2. /\ KernelFits(k') /\ k'.stdin = k.stdin /\ k'.stdout = k.stdout
      /\ k'.up = k.up /\ k'.down = k.down
      /\ k'.partner.got = k.partner.got /\ k'.partner.ended = k.partner.ended
      /\ k'.partner.coming = << msg >>
    BY <1>1, InvSays, PartnerChanges
<1>3. Head(k'.partner.coming) = msg
    <2>1. Head(<< msg >>) = msg
        OBVIOUS
    <2> QED
        BY <1>2, <2>1, Zenon
<1>4. UpTransit(k', copy', tcp') = UpTransit(k, copy, tcp)
    BY <1>1, <1>2, Zenon DEF UpTransit
<1>5. DownTransit(k', copy', tcp') = Onto(DownTransit(k, copy, tcp), ByteOf(<< msg >>))
    <2> DEFINE a == k.stdout.buf
               b == copy.in.buf
               c == k.down.buf
               d == tcp.in.buf
               x == Onto(Onto(Onto(a, b), c), d)
               y == ByteOf(<< msg >>)
    <2>1. a \in Seq(Nat) /\ b \in Seq(Nat) /\ c \in Seq(Nat) /\ d \in Seq(Nat)
        BY InvSays, BuffersTyped
    <2>2. DownTransit(k, copy, tcp) = Onto(x, ByteOf(<< >>))
        BY <1>1, Zenon DEF DownTransit, Onto
    <2>3. DownTransit(k', copy', tcp') = Onto(x, y)
        BY <1>1, <1>2, Zenon DEF DownTransit, Onto
    <2>4. ByteOf(<< >>) = << >>
        BY DEF ByteOf
    <2> HIDE DEF a, b, c, d, x, y
    <2>5. Onto(a, b) \in Seq(Nat)
        BY <2>1, OntoFacts
    <2>6. Onto(Onto(a, b), c) \in Seq(Nat)
        BY <2>1, <2>5, OntoFacts
    <2>7. x \in Seq(Nat)
        BY <2>1, <2>6, OntoFacts DEF x
    <2>8. Onto(x, << >>) = x
        BY <2>7, ConcatEmptySeq DEF Onto
    <2>9. Onto(DownTransit(k, copy, tcp), y) = Onto(x, y)
        BY <2>2, <2>4, <2>8, Zenon
    <2> QED
        BY <2>3, <2>9, Zenon DEF y
<1> QED
    BY <1>2, <1>3, <1>4, <1>5

\* The invariant after the partner has sent.
LEMMA PartnerKeeps ==
    ASSUME Inv, NEW msg \in Message, Sends(msg),
           UNCHANGED << copy, tcp, loop, phase, read >>,
           sent' \in [bytes : Nat, closed : BOOLEAN, load : [up : Nat, down : Nat]],
           faults' \in Nat,
           sent'.bytes = Len(Down'.left) + Len(Down'.transit),
           sent.closed => sent'.closed,
           msg.kind = "byte" => ~sent'.closed /\ Available(tcp.in) > 0,
           msg.kind = "fin" => sent'.closed,
           faults' = 0 => faults = 0 /\ msg.kind # "rst"
    PROVE  Inv'
<1>1. /\ KernelFits(k') /\ k'.stdin = k.stdin /\ k'.stdout = k.stdout
      /\ k'.up = k.up /\ k'.down = k.down
      /\ k'.partner.got = k.partner.got /\ k'.partner.ended = k.partner.ended
      /\ k'.partner.coming = << msg >> /\ Head(k'.partner.coming) = msg
    BY PartnerPuts
<1>2. k'.partner.coming # << >>
    <2>1. << msg >> # << >>
        OBVIOUS
    <2> QED
        BY <1>1, <2>1
<1>3. Comes(k', tcp, sent')
    BY <1>1, InvSays DEF Comes
<1>4. ASSUME faults' = 0 PROVE faults = 0 /\ Good(k', copy, tcp)
    <2>1. faults = 0 /\ msg.kind # "rst"
        BY <1>4
    <2>2. Good(k, copy, tcp)
        BY <2>1, InvSays DEF Faultless
    <2> QED
        BY <1>1, <2>1, <2>2 DEF Good, Calm, UpEnds, DownEnds
<1> QED
    BY <1>1, <1>2, <1>3, <1>4, OutsideSteps DEF Inv, TypeInv

\* The partner sends a byte: it enters the second direction.
LEMMA PartnerSendsHolds ==
    ASSUME Inv, PartnerSends
    PROVE  Inv' /\ [Promised!Next]_(Promised!vars)
<1> DEFINE byte == sent.bytes + 1
           msg == [kind |-> "byte", byte |-> byte]
           w == DownTransit(k, copy, tcp)
           w2 == Append(w, byte)
           cl == sent.closed
           e == k.stdout.shut /\ k.stdout.buf = << >>
<1>1. /\ ~cl /\ Available(tcp.in) > 0 /\ Sends(msg)
      /\ sent' = [sent EXCEPT !.bytes = byte]
      /\ UNCHANGED << copy, tcp, loop, phase, read, faults >>
    BY DEF PartnerSends
<1>2. /\ sent.bytes \in Nat /\ byte \in Nat /\ w \in Seq(Nat) /\ read \in Seq(Nat)
      /\ sent \in [bytes : Nat, closed : BOOLEAN, load : [up : Nat, down : Nat]]
    <2>1. sent \in [bytes : Nat, closed : BOOLEAN, load : [up : Nat, down : Nat]]
        BY DEF Inv, TypeInv
    <2>2. w \in Seq(Nat) /\ read \in Seq(Nat)
        BY InvSays, BuffersTyped DEF Inv, TypeInv
    <2> HIDE DEF w
    <2>3. sent.bytes \in Nat /\ byte \in Nat
        BY <2>1
    <2> QED
        BY <2>1, <2>2, <2>3
<1>3. msg \in Message /\ msg.kind = "byte"
    BY <1>2 DEF Message
<1>4. /\ sent' \in [bytes : Nat, closed : BOOLEAN, load : [up : Nat, down : Nat]]
      /\ sent'.bytes = byte /\ sent'.closed = cl
    <2> HIDE DEF byte
    <2> QED
        BY <1>1, <1>2
<1>5. ByteOf(<< msg >>) = << byte >>
    <2>1. << msg >> # << >> /\ Head(<< msg >>) = msg
        OBVIOUS
    <2>2. msg.byte = byte
        OBVIOUS
    <2> HIDE DEF msg, byte
    <2> QED
        BY <1>3, <2>1, <2>2, Zenon DEF ByteOf
<1>6. /\ UpTransit(k', copy', tcp') = UpTransit(k, copy, tcp)
      /\ DownTransit(k', copy', tcp') = w2
    <2> HIDE DEF msg
    <2>1. /\ UpTransit(k', copy', tcp') = UpTransit(k, copy, tcp)
          /\ DownTransit(k', copy', tcp') = Onto(w, ByteOf(<< msg >>))
        BY <1>1, <1>3, PartnerPuts
    <2> HIDE DEF w, byte
    <2>2. Onto(w, << byte >>) = Append(w, byte)
        BY <1>2, AppendIsConcat DEF Onto
    <2> QED
        BY <1>5, <2>1, <2>2, Zenon
<1>7. /\ k'.stdin = k.stdin /\ k'.stdout = k.stdout
      /\ k'.partner.got = k.partner.got /\ k'.partner.ended = k.partner.ended
    <2> HIDE DEF msg
    <2> QED
        BY <1>1, <1>3, PartnerPuts
<1>8. Up' = Up
    BY <1>6, <1>7, UpAndDown
<1>9. Down = Direction(w, read, cl, e) /\ Down' = Direction(w2, read, cl, e)
    <2>1. Down = Direction(w, read, cl, e)
        BY UpAndDown, Zenon
    <2>2. read' = read /\ k'.stdout.shut = k.stdout.shut /\ k'.stdout.buf = k.stdout.buf
        BY <1>1, <1>7
    <2>3. (k'.stdout.shut /\ k'.stdout.buf = << >>) = e
        BY <2>2, Zenon
    <2> HIDE DEF w2, cl, e
    <2>4. Down' = Direction(w2, read, cl, e)
        BY <1>4, <1>6, <2>2, <2>3, UpAndDown, Zenon
    <2> QED
        BY <2>1, <2>4
<1>10. sent.bytes = Len(read) + Len(w) /\ Len(read) \in Nat /\ Len(w) \in Nat
    BY <1>2, LoadOfDown, LenProperties
<1>11. Inv'
    <2>1. Len(w2) = Len(w) + 1
        <3> HIDE DEF w
        <3> QED
            BY <1>2
    <2>2. Down'.left = read /\ Down'.transit = w2
        BY <1>9 DEF Direction
    <2> HIDE DEF w, w2
    <2>3. byte = Len(read) + Len(w2)
        BY <1>10, <2>1
    <2>4. sent'.bytes = Len(Down'.left) + Len(Down'.transit)
        BY <1>4, <2>2, <2>3, Zenon
    <2>5. faults' \in Nat /\ faults' = faults
        BY <1>1 DEF Inv, TypeInv
    <2> HIDE DEF msg
    <2> QED
        BY <1>1, <1>3, <1>4, <2>4, <2>5, PartnerKeeps
<1>12. Promised!Enters(Down, Down')
    <2> DEFINE a == Direction(w, read, cl, e)
               b == [a EXCEPT !.transit = w2]
    <2>1. a = [transit |-> w, left |-> read, closed |-> cl, ended |-> e]
        BY DEF Direction
    <2>2. b = [a EXCEPT !.transit = w2] /\ ~cl
        BY <1>1
    <2>3. w2 = Append(w, Len(read) + Len(w) + 1)
        BY <1>10
    <2>4. a.transit = w /\ a.left = read /\ a.closed = cl
        BY DEF Direction
    <2> HIDE DEF w, e, cl, a, b, w2
    <2>5. b = [transit |-> w2, left |-> read, closed |-> cl, ended |-> e]
        BY <2>1, <2>2, Zenon
    <2>6. Down' = [a EXCEPT !.transit = Append(a.transit, Len(a.left) + Len(a.transit) + 1)]
        BY <1>9, <2>3, <2>4, <2>5, Zenon DEF Direction, b
    <2>7. Down = a
        BY <1>9 DEF a
    <2> QED
        BY <2>2, <2>4, <2>6, <2>7 DEF Promised!Enters
<1>13. [Promised!Next]_(Promised!vars)
    BY <1>1, <1>8, <1>12 DEF Promised!Next, Promised!Step
<1> QED
    BY <1>11, <1>13

\* The partner sends its FIN: the second direction closes.
LEMMA PartnerClosesHolds ==
    ASSUME Inv, PartnerCloses
    PROVE  Inv' /\ [Promised!Next]_(Promised!vars)
<1> DEFINE msg == [kind |-> "fin"]
           w == DownTransit(k, copy, tcp)
           cl == sent.closed
           e == k.stdout.shut /\ k.stdout.buf = << >>
<1>1. /\ ~cl /\ Sends(msg) /\ sent' = [sent EXCEPT !.closed = TRUE]
      /\ UNCHANGED << copy, tcp, loop, phase, read, faults >>
    BY DEF PartnerCloses
<1>2. /\ w \in Seq(Nat) /\ read \in Seq(Nat)
      /\ sent \in [bytes : Nat, closed : BOOLEAN, load : [up : Nat, down : Nat]]
    BY InvSays, BuffersTyped DEF Inv, TypeInv
<1>3. msg \in Message /\ msg.kind = "fin"
    BY DEF Message
<1>4. /\ sent' \in [bytes : Nat, closed : BOOLEAN, load : [up : Nat, down : Nat]]
      /\ sent'.bytes = sent.bytes /\ sent'.closed = TRUE
    BY <1>1, <1>2
<1>5. ByteOf(<< msg >>) = << >>
    <2>1. << msg >> # << >> /\ Head(<< msg >>) = msg
        OBVIOUS
    <2>2. msg.kind # "byte"
        BY <1>3
    <2> HIDE DEF msg
    <2> QED
        BY <2>1, <2>2, Zenon DEF ByteOf
<1> HIDE DEF msg
<1>6. /\ UpTransit(k', copy', tcp') = UpTransit(k, copy, tcp)
      /\ DownTransit(k', copy', tcp') = w
    <2>1. /\ UpTransit(k', copy', tcp') = UpTransit(k, copy, tcp)
          /\ DownTransit(k', copy', tcp') = Onto(w, ByteOf(<< msg >>))
        BY <1>1, <1>3, PartnerPuts
    <2> HIDE DEF w
    <2>2. Onto(w, << >>) = w
        BY <1>2, ConcatEmptySeq DEF Onto
    <2> QED
        BY <1>5, <2>1, <2>2, Zenon
<1>7. /\ k'.stdin = k.stdin /\ k'.stdout = k.stdout
      /\ k'.partner.got = k.partner.got /\ k'.partner.ended = k.partner.ended
    BY <1>1, <1>3, PartnerPuts
<1>8. Up' = Up
    BY <1>6, <1>7, UpAndDown
<1>9. Down = Direction(w, read, cl, e) /\ Down' = Direction(w, read, TRUE, e)
    <2>1. Down = Direction(w, read, cl, e)
        BY UpAndDown, Zenon
    <2>2. read' = read /\ k'.stdout.shut = k.stdout.shut /\ k'.stdout.buf = k.stdout.buf
        BY <1>1, <1>7
    <2>3. (k'.stdout.shut /\ k'.stdout.buf = << >>) = e
        BY <2>2, Zenon
    <2> HIDE DEF w, e
    <2>4. Down' = Direction(w, read, TRUE, e)
        BY <1>4, <1>6, <2>2, <2>3, UpAndDown, Zenon
    <2> QED
        BY <2>1, <2>4
<1>10. Inv'
    <2>1. Down'.left = read /\ Down'.transit = w
        BY <1>9 DEF Direction
    <2> HIDE DEF w
    <2>2. sent.bytes = Len(read) + Len(w)
        BY LoadOfDown DEF w
    <2>3. sent'.bytes = Len(Down'.left) + Len(Down'.transit)
        BY <1>4, <2>1, <2>2, Zenon
    <2>4. faults' \in Nat /\ faults' = faults
        BY <1>1 DEF Inv, TypeInv
    <2> QED
        BY <1>1, <1>3, <1>4, <2>3, <2>4, PartnerKeeps
<1>11. Promised!Closes(Down, Down')
    <2> DEFINE a == Direction(w, read, cl, e)
               b == [a EXCEPT !.closed = TRUE]
    <2>1. a = [transit |-> w, left |-> read, closed |-> cl, ended |-> e]
        BY DEF Direction
    <2>2. b = [a EXCEPT !.closed = TRUE]
        OBVIOUS
    <2> HIDE DEF w, e, cl, a, b
    <2>3. b = [transit |-> w, left |-> read, closed |-> TRUE, ended |-> e]
        BY <2>1, <2>2, Zenon
    <2> QED
        BY <1>9, <2>3 DEF Promised!Closes, Direction, a, b
<1>12. [Promised!Next]_(Promised!vars)
    BY <1>1, <1>8, <1>11 DEF Promised!Next, Promised!Step
<1> QED
    BY <1>10, <1>12

\* Neither an ack nor a RST is a byte of the stream.
LEMMA PartnerSignals ==
    ASSUME Inv, NEW kind \in {"ack", "rst"}, Sends([kind |-> kind]),
           UNCHANGED << copy, tcp, loop, phase, sent, read >>,
           faults' \in Nat, faults' = 0 => faults = 0 /\ kind # "rst"
    PROVE  Inv' /\ Up' = Up /\ Down' = Down
<1> DEFINE msg == [kind |-> kind]
           w == DownTransit(k, copy, tcp)
<1>1. w \in Seq(Nat)
    BY InvSays, BuffersTyped
<1>2. msg \in Message /\ msg.kind = kind /\ Sends(msg)
    BY DEF Message
<1>3. ByteOf(<< msg >>) = << >>
    <2>1. << msg >> # << >> /\ Head(<< msg >>) = msg
        OBVIOUS
    <2>2. msg.kind # "byte"
        BY <1>2
    <2> HIDE DEF msg
    <2> QED
        BY <2>1, <2>2, Zenon DEF ByteOf
<1> HIDE DEF msg
<1>4. /\ UpTransit(k', copy', tcp') = UpTransit(k, copy, tcp)
      /\ DownTransit(k', copy', tcp') = w
    <2>1. /\ UpTransit(k', copy', tcp') = UpTransit(k, copy, tcp)
          /\ DownTransit(k', copy', tcp') = Onto(w, ByteOf(<< msg >>))
        BY <1>2, PartnerPuts
    <2> HIDE DEF w
    <2>2. Onto(w, << >>) = w
        BY <1>1, ConcatEmptySeq DEF Onto
    <2> QED
        BY <1>3, <2>1, <2>2, Zenon
<1>5. /\ k'.stdin = k.stdin /\ k'.stdout = k.stdout
      /\ k'.partner.got = k.partner.got /\ k'.partner.ended = k.partner.ended
    BY <1>2, PartnerPuts
<1>6. Up' = Up /\ Down' = Down
    BY <1>4, <1>5, NothingMoves
<1>7. sent'.bytes = Len(Down'.left) + Len(Down'.transit)
    BY <1>6 DEF Inv, TypeInv
<1>8. Inv'
    BY <1>2, <1>7, PartnerKeeps DEF Inv, TypeInv
<1> QED
    BY <1>6, <1>8

\* The partner acknowledges: neither direction changes.
LEMMA PartnerAcksHolds ==
    ASSUME Inv, PartnerAcks
    PROVE  Inv' /\ [Promised!Next]_(Promised!vars)
<1>1. /\ Sends([kind |-> "ack"]) /\ faults' = faults
      /\ UNCHANGED << copy, tcp, loop, phase, sent, read >>
    BY DEF PartnerAcks
<1>2. faults' \in Nat
    BY <1>1 DEF Inv, TypeInv
<1>3. Inv' /\ Up' = Up /\ Down' = Down
    BY <1>1, <1>2, PartnerSignals
<1> QED
    BY <1>1, <1>3 DEF Promised!vars

\* The partner sends a RST: a fault.
LEMMA PartnerResetsHolds ==
    ASSUME Inv, PartnerResets
    PROVE  Inv' /\ [Promised!Next]_(Promised!vars)
<1>1. /\ Sends([kind |-> "rst"]) /\ faults' = faults + 1
      /\ UNCHANGED << copy, tcp, loop, phase, sent, read >>
    BY DEF PartnerResets
<1>2. faults' \in Nat /\ faults' > 0 /\ faults' # 0
    BY <1>1 DEF Inv, TypeInv
<1>3. Inv' /\ Up' = Up /\ Down' = Down
    BY <1>1, <1>2, PartnerSignals
<1> QED
    BY <1>2, <1>3 DEF Promised!Next

-----------------------------------------------------------------------------
(***************************************************************************)
(* Every step, and the initial states.                                     *)
(***************************************************************************)
LEMMA NothingHappens ==
    ASSUME Inv, UNCHANGED vars
    PROVE  Inv' /\ [Promised!Next]_(Promised!vars)
<1>1. UNCHANGED << k, copy, tcp, loop, phase, sent, read, faults >>
    BY DEF vars
<1>2. Up' = Up /\ Down' = Down
    BY <1>1, Zenon DEF Up, Down
<1>3. Inv'
    BY <1>1, <1>2 DEF Inv, TypeInv, Faultless, Phases
<1> QED
    BY <1>1, <1>2, <1>3 DEF Promised!vars

\* Every action keeps the invariant and is a step of Relay.tla.
LEMMA NextHolds ==
    ASSUME Inv, Next
    PROVE  Inv' /\ [Promised!Next]_(Promised!vars)
<1>1. CASE CopyPolls
    BY <1>1, CopyPollsHolds
<1>2. CASE CopyServes
    BY <1>2, CopyServesHolds
<1>3. CASE ShutsDown
    BY <1>3, ShutsDownHolds
<1>4. CASE Joins
    BY <1>4, JoinsHolds
<1>5. CASE ThreadPolls
    BY <1>5, ThreadPollsHolds
<1>6. CASE ThreadServes
    BY <1>6, ThreadServesHolds
<1>7. CASE ThreadCounts
    BY <1>7, ThreadCountsHolds
<1>8. CASE LingerEnds
    BY <1>8, LingerEndsHolds
<1>9. CASE UserWrites
    BY <1>9, UserWritesHolds
<1>10. CASE UserCloses
    BY <1>10, UserClosesHolds
<1>11. CASE UserReads
    BY <1>11, UserReadsHolds
<1>12. CASE UserLeaves
    BY <1>12, UserLeavesHolds
<1>13. CASE PartnerSends
    BY <1>13, PartnerSendsHolds
<1>14. CASE PartnerCloses
    BY <1>14, PartnerClosesHolds
<1>15. CASE PartnerAcks
    BY <1>15, PartnerAcksHolds
<1>16. CASE PartnerResets
    BY <1>16, PartnerResetsHolds
<1>17. CASE Stays
    BY <1>17, NothingHappens DEF Stays
<1> QED
    BY <1>1, <1>2, <1>3, <1>4, <1>5, <1>6, <1>7, <1>8, <1>9, <1>10, <1>11,
       <1>12, <1>13, <1>14, <1>15, <1>16, <1>17 DEF Next

\* New channels and streams are empty and open.
LEMMA NewFits ==
    ASSUME NEW cap \in Nat
    PROVE  /\ ChannelFits(NewChannel(cap)) /\ ~NewChannel(cap).gone
           /\ ~NewChannel(cap).broken /\ ~NewChannel(cap).shut
           /\ NewChannel(cap).buf = << >>
           /\ StreamFits(NewFifo(cap)) /\ NewFifo(cap).cap = cap
           /\ ~NewFifo(cap).closed /\ ~NewFifo(cap).error /\ NewFifo(cap).buf = << >>
<1>1. << >> \in Seq(Nat) /\ Len(<< >>) = 0
    OBVIOUS
<1> QED
    BY <1>1 DEF NewChannel, NewFifo, ChannelFits, Channel, StreamFits, Stream

\* The invariant and Relay.tla's initial state hold at first.
LEMMA InitHolds ==
    ASSUME Init
    PROVE  Inv /\ Promised!Init
<1> DEFINE ch == NewChannel(PipeCapacity)
           fc == NewFifo(CopyCapacity)
           fs == NewFifo(StreamCapacity)
           pa == NewPartner
           p == Copy!Prepares([k |-> k, m |-> copy], RuleSet(CopyRules))
           q == Thread!Prepares([k |-> k, m |-> tcp], RuleSet(ThreadRules))
           none == << >>
<1>1. /\ PipeCapacity \in Nat /\ CopyCapacity \in Nat /\ StreamCapacity \in Nat
      /\ 0 < CopyCapacity /\ FlightLimit \in Nat
    BY CopyProgramConstants
<1>2. /\ ChannelFits(ch) /\ ~ch.gone /\ ~ch.broken /\ ~ch.shut /\ ch.buf = none
      /\ StreamFits(fc) /\ fc.cap = CopyCapacity /\ ~fc.closed /\ ~fc.error
      /\ fc.buf = none
      /\ StreamFits(fs) /\ ~fs.closed /\ ~fs.error /\ fs.buf = none
    BY <1>1, NewFits
<1>3. /\ k = [stdin |-> ch, stdout |-> ch, up |-> ch, down |-> ch, partner |-> pa]
      /\ copy = [out |-> fc, in |-> fc, outShut |-> FALSE, inShut |-> FALSE,
                 inputEof |-> FALSE, sockEof |-> FALSE]
      /\ tcp = [out |-> fs, in |-> fs, outShut |-> FALSE, inShut |-> FALSE,
                eof |-> FALSE, flight |-> 0, finSent |-> FALSE, linger |-> TRUE]
      /\ loop = [main |-> Prepared(p), thread |-> Prepared(q)]
      /\ phase = [main |-> "copying", thread |-> "copying", missed |-> 0]
      /\ \E load \in Loads : sent = [bytes |-> 0, closed |-> FALSE, load |-> load]
      /\ read = none /\ faults = 0
    BY DEF Init, NewCopy, NewThread
<1>4. /\ pa.got = none /\ ~pa.ended /\ pa.coming = none /\ pa \in Partner
      /\ Len(pa.coming) = 0
    <2>1. << >> \in Seq(Nat) /\ << >> \in Seq(Message) /\ Len(<< >>) = 0
        OBVIOUS
    <2> QED
        BY <2>1 DEF NewPartner, Partner
<1>5. /\ none \in Seq(Nat) /\ Len(none) = 0 /\ none \o none = none
      /\ ByteOf(none) = none
    BY DEF ByteOf
<1> HIDE DEF ch, fc, fs, pa, p, q, none
<1>6. /\ k.stdin = ch /\ k.stdout = ch /\ k.up = ch /\ k.down = ch /\ k.partner = pa
      /\ copy.out = fc /\ copy.in = fc /\ ~copy.outShut /\ ~copy.inShut
      /\ ~copy.inputEof /\ ~copy.sockEof
      /\ tcp.out = fs /\ tcp.in = fs /\ ~tcp.outShut /\ ~tcp.inShut
      /\ ~tcp.eof /\ ~tcp.finSent
    BY <1>3
<1>7. KernelFits(k)
    BY <1>2, <1>3, <1>4 DEF KernelFits, ChannelFits
<1>8. CopyFits(copy)
    BY <1>1, <1>2, <1>3 DEF CopyFits, StreamFits
<1>9. ThreadFits(tcp)
    BY <1>1, <1>2, <1>3 DEF ThreadFits, StreamFits
<1>10. /\ sent \in [bytes : Nat, closed : BOOLEAN, load : [up : Nat, down : Nat]]
       /\ sent.bytes = 0 /\ sent.closed = FALSE
    <2>1. PICK load \in Loads : sent = [bytes |-> 0, closed |-> FALSE, load |-> load]
        BY <1>3
    <2>2. load \in [up : Nat, down : Nat]
        BY CopyProgramConstants
    <2> QED
        BY <2>1, <2>2
<1>11. Comes(k, tcp, sent)
    BY <1>2, <1>4, <1>6 DEF Comes, none
<1>12. Good(k, copy, tcp)
    BY <1>2, <1>4, <1>6 DEF Good, Calm, UpEnds, DownEnds, none
<1>13. /\ UpTransit(k, copy, tcp) = none /\ DownTransit(k, copy, tcp) = none
    BY <1>2, <1>4, <1>5, <1>6, Zenon DEF UpTransit, DownTransit
<1>14. /\ Up = Direction(none, none, FALSE, FALSE)
       /\ Down = Direction(none, none, FALSE, FALSE)
    <2>1. k.stdin.shut = FALSE /\ (k.stdout.shut /\ k.stdout.buf = << >>) = FALSE
        BY <1>2, <1>6 DEF ChannelFits, Channel
    <2>2. k.partner.ended = FALSE /\ k.partner.got = none
        BY <1>4, <1>6 DEF Partner
    <2> QED
        BY <1>3, <1>10, <1>13, <2>1, <2>2, UpAndDown, Zenon
<1>15. sent.bytes = Len(Down.left) + Len(Down.transit)
    <2>1. Down.left = none /\ Down.transit = none
        BY <1>14 DEF Direction
    <2> QED
        BY <1>5, <1>10, <2>1
<1>16. /\ loop = [main |-> loop.main, thread |-> loop.thread]
       /\ loop.main = Prepared(p) /\ loop.thread = Prepared(q)
    <2> DEFINE a == Prepared(p)
               b == Prepared(q)
    <2>1. loop = [main |-> a, thread |-> b]
        BY <1>3
    <2> HIDE DEF a, b
    <2>2. loop.main = a /\ loop.thread = b
        BY <2>1
    <2> QED
        BY <2>1, <2>2, Zenon DEF a, b
<1>17. /\ MainLoop(k, copy, loop.main)
       /\ CopyRulesGone(k, copy, loop.main.rules)
    <2>1. CopyLooked(k, copy, CopyRuleSet, CopyRuleSet, p)
        BY <1>8, CopyPreparesEnds, CopyRulesListed DEF p
    <2>2. MainLoop(k, copy, Prepared(p))
        BY <2>1, CopyPrepared
    <2>3. CopyRulesGone(k, copy, CopyRuleSet)
        BY DEF CopyRulesGone, CopyRuleSet
    <2>4. CopyRulesGone(k, copy, p.rules)
        BY <1>8, <2>1, <2>3, CopyLooksGone
    <2>5. Prepared(p).rules = p.rules
        BY DEF Prepared
    <2> QED
        BY <1>16, <2>2, <2>4, <2>5
<1>18. /\ ThreadLoop(k, tcp, loop.thread)
       /\ ThreadRulesGone(k, tcp, loop.thread.rules)
    <2>1. ThreadLooked(k, tcp, ThreadRuleSet, ThreadRuleSet, q)
        BY <1>9, ThreadPreparesEnds, ThreadRulesListed DEF q
    <2>2. ThreadLoop(k, tcp, Prepared(q))
        BY <2>1, ThreadPrepared DEF ThreadRuleSet
    <2>3. ThreadRulesGone(k, tcp, ThreadRuleSet)
        BY DEF ThreadRulesGone, ThreadRuleSet
    <2>4. ThreadRulesGone(k, tcp, q.rules)
        BY <1>9, <2>1, <2>3, ThreadLooksGone
    <2>5. Prepared(q).rules = q.rules
        BY DEF Prepared
    <2> QED
        BY <1>16, <2>2, <2>4, <2>5
<1>19. Phases /\ phase.main = "copying"
    BY <1>3 DEF Phases
<1>20. TypeInv
    BY <1>2, <1>3, <1>5, <1>6, <1>7, <1>8, <1>9, <1>10, <1>11, <1>15, <1>16, <1>17,
       <1>18, <1>19 DEF TypeInv
<1>21. Faultless
    BY <1>12, <1>17, <1>18, <1>19 DEF Faultless
<1>22. Promised!Init
    BY <1>3, <1>14 DEF Promised!Init, Promised!Empty, Direction, none
<1> QED
    BY <1>20, <1>21, <1>22 DEF Inv

\* What the invariant says of the capacities.
LEMMA InvTypeOK ==
    ASSUME Inv
    PROVE  TypeOK
<1>1. KernelFits(k) /\ CopyFits(copy) /\ ThreadFits(tcp)
    BY InvSays
<1>2. ASSUME NEW ch, ChannelFits(ch) PROVE Len(ch.buf) \in 0 .. ch.cap
    BY <1>2, LenProperties DEF ChannelFits, Channel
<1>3. ASSUME NEW f, StreamFits(f) PROVE Available(f) \in 0 .. f.cap
    BY <1>3, LenProperties DEF StreamFits, Stream, Available
<1>4. \A ch \in Channels : Len(ch.buf) \in 0 .. ch.cap
    <2>1. \A ch \in Channels : ChannelFits(ch)
        BY <1>1 DEF Channels, KernelFits
    <2> QED
        BY <1>2, <2>1
<1>5. \A f \in {copy.out, copy.in, tcp.out, tcp.in} : Available(f) \in 0 .. f.cap
    <2>1. \A f \in {copy.out, copy.in, tcp.out, tcp.in} : StreamFits(f)
        BY <1>1 DEF CopyFits, ThreadFits
    <2> QED
        BY <1>3, <2>1
<1>6. tcp.flight \in 0 .. FlightLimit
    BY <1>1 DEF ThreadFits
<1>7. /\ loop.main.rules \subseteq RuleSet(CopyRules)
      /\ loop.thread.rules \subseteq RuleSet(ThreadRules)
    BY InvSays, CopyRulesListed, ThreadRulesListed
<1> QED
    BY <1>4, <1>5, <1>6, <1>7 DEF TypeOK

\* What the invariant says of a program that has stopped.
LEMMA InvStopped ==
    ASSUME Inv
    PROVE  StoppedOnlyByFault
<1> SUFFICES ASSUME ~Alive, ~(faults > 0) PROVE ThrownByCount
    BY DEF StoppedOnlyByFault
<1>1. faults = 0
    BY DEF Inv, TypeInv
<1>2. Calm(k, copy, tcp)
    BY <1>1, InvSays DEF Faultless, Good
<1>3. ~Killed
    BY <1>2 DEF Calm, Killed, Channels
<1>4. /\ phase.thread \in {"copying", "hung up", "counting", "ended"}
      /\ phase.main = "thrown" => phase.thread = "ended" /\ phase.missed = 2
    BY InvSays DEF Phases
<1>5. phase.main = "thrown"
    BY <1>3, <1>4 DEF Alive
<1> QED
    BY <1>3, <1>4, <1>5 DEF ThrownByCount

-----------------------------------------------------------------------------
(***************************************************************************)
(* The theorems.                                                           *)
(***************************************************************************)
\* What the poll of either thread has found stays true until it is dealt with,
\* every end follows the last byte, and a rule is erased only when nothing is
\* left for it to do: the inductive invariant, in every state of the program.
THEOREM CopyProgramInvariant == Spec => []Inv
<1>1. Init => Inv
    BY InitHolds
<1>2. Inv /\ [Next]_vars => Inv'
    BY NextHolds, NothingHappens
<1> QED
    BY <1>1, <1>2, PTL DEF Spec

\* The buffers of the kernel, of the copy and of the connection never hold more
\* than their capacity, and the window is never exceeded, whatever either
\* thread was about to do when the other one did something.
THEOREM CopyProgramTypeOK == Spec => []TypeOK
<1>1. Inv => TypeOK
    BY InvTypeOK
<1> QED
    BY <1>1, CopyProgramInvariant, PTL

\* No write of either thread fails and no rule is served in vain because of what
\* the other thread has done since poll: the program is stopped by a user who
\* leaves, by a RST, or by a read count that is stored too late.
THEOREM CopyProgramStopsOnlyByFault == Spec => []StoppedOnlyByFault
<1>1. Inv => StoppedOnlyByFault
    BY InvStopped
<1> QED
    BY <1>1, CopyProgramInvariant, PTL

\* bidirectional_stream_copy and the socket's thread together hand on every byte
\* of either direction once and in order, and its end behind the last byte,
\* unless a fault has struck: each step is a step of Relay.tla or changes
\* neither direction.
THEOREM CopyProgramImplementsRelay == Spec => ImplementsRelay
<1>1. Init => Promised!Init
    BY InitHolds
<1>2. Inv /\ [Next]_vars => [Promised!Next]_(Promised!vars)
    BY NextHolds, NothingHappens
<1> QED
    BY <1>1, <1>2, CopyProgramInvariant, PTL DEF Spec, ImplementsRelay, Promised!Spec
=============================================================================
