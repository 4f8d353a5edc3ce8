# The minnow TCP/IP stack in TLA+

This directory holds a TLA+ model of the TCP/IP stack of this repository (the
CS 144 "minnow" code under `src/`, `util/` and `apps/`): modules that follow the
code operation by operation, configurations that check them with TLC on small
instances, and proofs checked by TLAPS for every instance.  Paths below are
relative to the repository.

## 1. The system

| component | state | operations | used by |
|---|---|---|---|
| `ByteStream` (`src/byte_stream.cc`) | one string, offsets `begin_`/`end_`, two counters, closed and error marks | push, close, peek, pop, `read` | reassembler (output), sender (input) |
| `Reassembler` (`src/reassembler.cc`) | set of pending segments, `next_`, `last_`/`has_last_`, output stream | insert, bytes_pending | receiver |
| `Wrap32` (`src/wrapping_integers.cc`) | none (32-bit value) | wrap, unwrap | receiver, sender |
| `TCPReceiver` (`src/tcp_receiver.cc`) | reassembler, isn, checkpoint, SYN/FIN/RST marks | receive a segment, send the ackno and window | peer |
| `TCPSender` (`src/tcp_sender.cc`) | input stream, acknowledged and next sequence number, window, outstanding segments, timer and back-off | push, receive an ack, tick | peer |
| `TCPPeer` (`util/tcp_peer.hh`) | a sender, a receiver, `need_send_`, lingering and its clock | push, tick, receive, active | socket |
| `TCPMinnowSocket` (`util/tcp_minnow_socket_impl.hh`) | peer, datagram adapter, a local socket pair, a thread with an event loop | connect, listen_and_accept, three rules, destructor, wait_until_closed | applications |
| `EventLoop` (`util/eventloop.cc`) | rules with interest, callback, cancel and error | add_rule, wait_next_event | socket, stream copy, `apps/endtoend.cc` |
| datagram path (`util/tcp_over_ip.cc`, `util/fd_adapter.hh`, `util/lossy_fd_adapter.hh`) | addresses, listening flag | wrap, unwrap and filter, lose | socket |
| `NetworkInterface` (`src/network_interface.cc`) | ARP cache, pending requests, queued and received datagrams | send_datagram, recv_frame, tick | router, hosts |
| `Router` (`src/router.cc`) | route table, interfaces | add_route, route | `apps/endtoend.cc` |
| stream copy (`apps/bidirectional_stream_copy.cc`) | two byte streams and two marks | four rules of an event loop | `apps/tcp_ipv4.cc`, `apps/endtoend.cc` |
| `apps/endtoend.cc` | a host, a router, a network thread and a socket to a relay | four rules that move frames, connect or listen, exit | the user |

How they interact: an application writes to a local socket; rule 2 of the event
loop moves the bytes into the sender's stream and pushes; the sender cuts them
into segments, and the peer attaches to each what its receiver has to say
(ackno, window).  Rule 1 hands an incoming datagram to `TCPPeer::receive`: its
segment goes to the receiver and from there to the reassembler, its ack to the
sender, and the peer pushes again and answers if it must.  Rule 3 moves
reassembled bytes to the application.  After every event the peer's clock ticks
and an expired timer sends the oldest outstanding segment again.

A program has two threads that share only the socket pair: the main thread runs
the stream copy's event loop, the socket's thread the three rules above.  In
`endtoend.cc` a third one carries Ethernet frames between the host's interface,
the router and a UDP relay that leads to the same program on the other side.

What is hard here: substrings that overlap and come in any order while a reader
moves the window; numbers that wrap; partial, old and impossible acks; windows
that shrink and close; SYN and FIN that take sequence numbers; lost datagrams
or overtaken and timers that expire too early; the end of a connection, where
one side has to linger; two event loops that act on what `poll` said before the
other thread shut the socket down; a client that dies and comes back from
another port and another Ethernet address; lost ARP answers while segments
queue.  `PROJECT.json` lists each of these hazards at its line with the
properties that watch it, or the reason why none does.

What makes each part correct:

- **ByteStream**: a bounded first-in first-out queue of bytes with two counts.
- **Reassembler**: its output is the prefix of the peer's stream, every known
  byte within the window is kept, none twice, and the end closes the output.
- **Wrap32**: unwrap is the closest number, and a number followed through its
  wrapped form is never lost.
- **TCPSender**: what is in flight is outstanding exactly once; the timer runs
  exactly then; the window is respected; a timeout sends what is missing.
- **NetworkInterface**: datagrams leave for their hop once and in order, nothing
  waits for a known hop, and requests for one address keep five seconds apart.
- **connection**: readers get the partner's stream to its end whatever is lost,
  nothing counts as delivered that did not arrive, and both sides stop.
- **Router**: the longest match and, of equals, the last added; every datagram
  on its way to a host passes the two routers and no other, and one that is led
  astray comes to an end.
- **program**: each direction is a stream from the user to the partner or back,
  no write fails, and the program ends when both ends have closed.

## 2. The modules

| module | what it is | code |
|---|---|---|
| `Fifo` | operators of a bounded queue on one record | `byte_stream.hh`, as promised to callers |
| `ByteFifo` | the abstract specification of a byte stream | the same |
| `ByteStream` | the string and its offsets, one action per operation | `byte_stream.cc`, `byte_stream_helpers.cc` |
| `ByteStreamProofs` | theorems about `ByteStream` | |
| `ReassemblerOps` | `insert` and `bytes_pending` on one record | `reassembler.cc` |
| `Reassembler` | `insert` step by step (its drain loop one segment a step) and a reader | the same |
| `ReassemblerProofs` | theorems about `Reassembler` | |
| `Wrap32` | wrap and unwrap with 2·`Half` raw values | `wrapping_integers.cc` |
| `SeqnoTracking` | a 64-bit number followed through its wrapped form | `tcp_receiver.cc:32`, `tcp_sender.cc:46` |
| `OperatorLemmas` | lemmas about the operators of `Wrap32`, `Fifo`, `TCPSenderOps`, `TCPReceiverOps`, `ReassemblerOps` and `NetworkInterfaceOps` and their loops, powers and least elements, for the proofs below | |
| `TCPSenderOps` | the sender on one record | `tcp_sender.cc` |
| `TCPSender` | the sender alone, `push` one segment a step, against any acks | the same |
| `TCPSenderProofs` | theorems about `TCPSender`, and about `SeqnoTracking` | |
| `TCPReceiverOps` | the receiver on one record | `tcp_receiver.cc` |
| `TCPPeerOps` | the peer on one record | `tcp_peer.hh` |
| `TCPConnection` | two peers, their sockets' rules and the datagrams between them | `tcp_minnow_socket_impl.hh`, `lossy_fd_adapter.hh` |
| `TCPConnectionProofs` | theorems about `TCPConnection` | |
| `NetworkInterfaceOps` | the interface on one record | `network_interface.cc` |
| `NetworkInterface` | one interface, its customer, its clock and any wire | the same |
| `NetworkInterfaceProofs` | theorems about `NetworkInterface` | |
| `RouterOps` | the route table and `route` over records of `NetworkInterfaceOps` | `router.cc` |
| `RouterLoop` | routers that share links, with tables that change and lead anywhere | `router.cc`, set up as in `tests/router.cc` |
| `TCPOverIPOps` | the adapter: wrapping and filtering, the listening flag | `tcp_over_ip.cc`, `fd_adapter.hh` |
| `EndToEnd` | two programs: peers, adapters, interfaces, routers, network threads and the relay | `apps/endtoend.cc` |
| `EndToEndProofs` | theorems about `EndToEnd` | |
| `EventLoop` | `wait_next_event` before and after `poll`, over rules given as operators | `eventloop.cc` |
| `Descriptors` | pipes and local sockets, and the read and write halves of callbacks | `file_descriptor.cc`, `socket.cc` |
| `StreamCopy` | the stream copy's four rules | `apps/bidirectional_stream_copy.cc` |
| `SocketThread` | the socket's three rules with errors and hangups | `tcp_minnow_socket_impl.hh` |
| `Relay` | the abstract specification of a program that copies | |
| `CopyProgram` | both threads, the user and the partner | the last four, `apps/tcp_ipv4.cc` |
| `CopyProgramProofs` | theorems about `CopyProgram` | |

`MC...` modules and the `.cfg` files give the constants small values.

A component that others own is written as operators over a record whose fields
are the code's members (the comment at the head of the module says which); a
state machine over these operators is a module of its own.  An operator of a
state change is the whole function of the code: `Insert` drains and closes,
`PeerReceive` hands both halves on, pushes and answers.  Where a loop is worth
looking into, the machine takes it turn by turn (`InsertDrains`, `PushTurns`) and
the composing modules use the whole (`DrainAll`, `PushAll`), a recursive function
over the same turns.

The composition goes two ways up from the peer.  `EndToEnd` puts the real peer,
sender and receiver on real interfaces and routers: `HostReads` is one call of
rule 1 with all it leads to, from the frame to the answers, and `RouterTakes` one
callback of the network thread, `recv_frame` and `route`.  `CopyProgram` goes into
the threads instead: `EventLoop` is instantiated once for the main thread's rules
(`Copy`) and once for the socket's (`Thread`), a call of `wait_next_event` is two
steps with `poll` between them (`CopyPolls`, `CopyServes`, which also prepares the
next call), and anything may happen in between.  There the connection is taken
for what `TCPConnection` shows of it: bytes and the FIN reach the partner in order
and within the window.

A byte is the number of its place in its stream, so that one that is lost,
repeated or moved shows.  Operators marked `mutant` are wrong variants that no
action uses: with one in place of the right definition, the property named with
it in `PROJECT.json` fails, which shows that the property depends on that code.

## 3. The runs

| run | configuration | what it shows |
|---|---|---|
| `byte_stream` | capacity 3, two byte values, pushes of up to 3 bytes, 6 in all | the string with offsets implements `ByteFifo`, counts and contents agree, and a push stores all there is room for |
| `reassembler` | stream of 6, capacity 4, substrings of up to 3, written ones pass the window by up to 2 | prefix, completeness, bounds, counting, closing |
| `reassembler_overrun` | pending ones pass the window too | **fails**: a cut segment is written whole |
| `seqno_tracking` | 16 raw values, numbers to 40, jumps of up to 7 | every number is recovered; unwrap is the closest |
| `tcp_sender` | 16 raw values, isn 14, stream of 3, 4 bytes, payload 2, windows 0, 1, 3, any ackno | what is outstanding tiles the flight, the timer, the window, the FIN, retransmissions |
| `tcp_connection` | client 3 bytes, server 1, capacity 2, payload 2; two losses, or one datagram overtaken, or an early timer | both readers get the stream, acknowledgements are true, no segment is cut, nobody is left behind, everything is read and both stop |
| `tcp_connection_early_fin` | applications close when they like, one loss | **fails**: a missing byte is acknowledged |
| `tcp_connection_delayed_syn` | server 2 bytes, one early timer, one datagram overtaken | **fails**: a SYN that comes late takes the server's sender back, and a byte is skipped |
| `network_interface` | two IP and two Ethernet addresses, entries live 3, requests 1, ticks of 1 and 2, two datagrams for each hop | order, waiting, the table and the distance of requests |
| `router_loop` | two routers on two links, three sets of tables that are filled while datagrams come, with loops, two spellings of one network and routes put right; three datagrams with a TTL of 4, 3 and 1 | the route taken is the longest and newest, and every journey ends |
| `end_to_end` | the two programs, two route tables, client 1 byte; a frame lost on the relay or a client that crashes and starts again | the way of every datagram, one partner for each peer, and that both programs end with everything delivered |
| `copy_program` | one byte up and three down, or two up and one down, buffers and pipes of 2, window of 1; the user leaves or a RST comes | each direction is a stream (`Relay`), no write fails without a fault, the program ends |

### Why the bounds are enough

- Streams: a capacity of 3 or 4 with writes of up to 3 reaches every case
  of `push` and `insert` (no room, exactly full, overlap on either side,
  nesting, a gap) and moves the window over the whole capacity more than once.
- Numbers: 16 raw values with an isn of 14 wrap within every run's stream;
  `Half` is a parameter, and the code's arithmetic uses nothing of 2^31 but
  that it is half of the number space.
- Sender: payload 2 with windows up to 3 gives full, partial and single-byte
  segments, partial acks inside a segment, a FIN with and without room, a
  closed window and its probe; acks are any raw value, so old, repeated and
  impossible ones all come.  `RetxBound` ends the doubling of the timeout.
- Connection: a capacity and a payload of 2 allow a byte that is lost or overtaken
  with one behind it, a segment of two bytes and the same two in one each, and a
  third byte or a FIN that finds the window closed and has to probe it, while the
  other side sends too.  A behaviour draws its member of `Budgets`: how many datagrams are lost, how
  many are overtaken by all behind them, and how many timers expire with
  something under way; timers that expire when nothing is under way are not
  bounded.  `RetxBound` is 4: each doubling takes a fault of its own, so no
  behaviour of these runs reaches it.  Losses and delays have budgets of their
  own in the passing run, since a SYN sent again and then overtaken is what
  `tcp_connection_delayed_syn` shows to go wrong.  Losses together with early
  timers, more of them, and longer streams are left to the
  theorems (section 4): of these they bound only the faults of `NobodyLeftBehind`,
  by three.
- Interface: an entry's life of 3 and a request's of 1 put the end of a request
  before, at and after a tick, and let a second request follow an expired entry;
  two entries for one address show the oldest expire first.  The wire may carry
  any ARP message to anyone, so late, repeated, unasked and contradicting answers
  all come.  `MaxSent`, `MaxEntries` and `MaxReceived` bound histories and
  queues.  Datagrams are symmetric, as nothing looks into them.
- Routers: three address bits leave room for a network in two spellings, a host
  in it and a default route.  TTLs of 4 and 3 go round a loop of two routers
  twice, and one of 1 is dropped at once.  The three sets of tables are filled in
  steps that come at any time, so a datagram may set out by a route that is put
  right before it comes back.  Time stands still: no timer is needed to end a
  journey.
- End to end: three address bits hold the three networks of `endtoend.cc` with
  the addresses it uses; the second table adds default routes, overlaps, a host
  route and a route put right.  One byte and one fault meet every stage: ARP on
  three links, SYN, data, FIN and the last acks.  `EventMs` is 0, as the 10 ms an
  event counts for are small against the 5000 and 30000 of the ARP timeouts;
  time passes by `RestMs`, 3 where a request lives 4 and an entry 12, so that a
  timer of the peer finds the last request still young, and the next one not.
  The initial TTL of 4 is two routers and two to spare.
- Programs: with pipes and buffers of 2 and up to three bytes a write may be
  partial, every buffer but the user's full, and an end may be found with bytes in
  each of the three buffers behind it.  Three bytes down are what the stale count
  below needs.  One fault in a behaviour (`FaultBudget`): the user
  closes standard output, or a RST comes, at any point.

### Assumptions of the passing runs

Some say what callers, networks and partners do:

- `PopBeyond = 0`: nobody pops more than is buffered (both callers in the code
  comply: `read` and rule 3 of the socket).  With 1, `ImplementsFifo` fails, whose queue
  counts what is gone.
- `OverrunPending = 0`: data behind a gap stays within the window.  In a
  connection this holds, since the sender respects the window
  (`NothingWaitsCut`); `reassembler_overrun` shows what happens otherwise.
- `FinHabits`: a peer flags its end consistently.  With the habit "mixed",
  `ClosedWhenComplete` fails.
- `CloseOnlyIdle`: applications close when all they wrote is acknowledged.  A
  connection needs it to be safe from the acknowledged but missing byte
  (`tcp_connection_early_fin`), and real applications do not promise it.
- `TablesAssumption`: the route tables write every network one way, and send what
  is for a host out on its side.  The tables of `endtoend.cc:219-229` do both.
  `add_route` compares prefixes with all their bits (`router.cc:24-25`), so of two
  spellings of one network the first added stays in force, not the last:
  `RouteIsLongestAndCurrent` says so of the tables of `router_loop`, which
  assumes nothing of routes.
- `end_to_end` has no more than one byte, losses only on the relay, and a client
  that restarts only before it is connected.  One outcome is excepted from
  `ConversationEnds`: a server that took the SYN of a client that is dead by then
  listens to nobody else, and the code has no way out of that (nothing counts
  attempts, nothing tells the server).
- `copy_program` begins with an established connection to a partner that reads
  all, acknowledges all and closes some time.

### Fairness

`Spec` of `TCPConnection` has weak fairness of the datagrams' delivery, of each
socket rule (reading, closing, the end of connect and accept), of the tick with
nothing under way and of the linger clock.  Each corresponds to a file
descriptor that stays ready or to time passing: `_tcp_loop` polls again at least
every `TCP_TICK_MS` and ticks after every event.  The event loop serves one rule
in each round, the first that is ready; that none starves is not assumed in
`CopyProgram`, where only the two threads as a whole are fair and the rules are
served in the code's order.  In `EndToEnd` the network thread is fair as a whole
too, its rules in order, and each host's thread and timers are.  Writing is not
fair in `TCPConnection` (an application may write less); in `EndToEnd` it is, as
`Supply` is what the application does write.  Losses, delays and crashes are
finitely many, the weakest assumption under which anything arrives.  That an
application or a user closes in the end is an assumption about them.

`LingerExpires` comes after ten timeouts without a message (`MayLeave`).  The
model has no clock for that, only what a clock would say of a partner that still
waits: `silence` adds up the partner's timeouts as they run out, and a peer does
not leave while those and the one that is running fill less than the ten.  That no
datagram travels for ten timeouts is assumed; that the partner has been
served by then is not, and holds up to three losses and early timers (section 4).
In `EndToEnd` time passes only when nothing is under way, which is what a local
network is like against timeouts of a second; its one fault lies within the
three, and there `MayLeave` says outright that the partner is served.

The specifications write some `WF` out with the guard of the action, because TLC
does not get through `ENABLED` of a whole `PeerReceive` or `Serves`: either the
guard is false again and again, or the action is taken again and again (of
`Deliver`: the first datagram is taken, which only a loss does besides).  Where
every step of the action makes its guard false, or a behaviour has only so many of
them, the first half says it all (`CopyProgram`, and all but `Deliver` in
`TCPConnection`).

## 4. The proofs

TLC checked every statement below on a small instance before it was proved.  Two of
them are in no run now, as a run checks more: `CountersMatchBytes`, which
`ImplementsFifo` includes, and `RouteIsLongestAndLast`, which is
`RouteIsLongestAndCurrent` for tables that write every network one way.

`ByteStreamProofs` proves, for every capacity, byte set and set of writes:

| theorem | statement | assumes |
|---|---|---|
| `TypeCorrect` | `Spec => []TypeOK` | the constants' types |
| `StreamKeepsBytes` | `Spec => []NothingLostOrReordered` | the same |
| `PushesFillRoom` | `Spec => PushFillsRoom` | the same |
| `CountersCorrect` | `Spec => []CountersMatchBytes` | `PopBeyond = 0` |
| `StreamImplementsFifo` | `Spec => ImplementsFifo` | `PopBeyond = 0` |

`NothingLostOrReordered` (accepted = taken followed by what peek shows) is not
inductive alone: that a push stores as many bytes as it says needs
`0 <= begin_ <= end_ <= Capacity` and the string's domain, which `TypeOK` states.
The invariant is therefore `IInv == TypeOK /\ NothingLostOrReordered`.  The only
hard step is `Push`: one lemma says what `peek` shows after the move and the
copy, place by place, and that this is the old `peek` followed by the stored
part of the new bytes; `Pop` needs that the removed prefix and what is left make
up the old `peek`.  The refinement maps the string between the offsets to the
queue's buffer and sends every action to the queue's action of the same name, or
to a stutter when a closed stream is pushed to.

`NetworkInterfaceProofs` proves, for all sets of addresses and datagrams and all
times a tick may report:

| theorem | statement | assumes |
|---|---|---|
| `TypeCorrect` | `Spec => []TypeOK` | the constants' types, `RequestLife < EntryLife` |
| `DatagramsLeaveInOrder` | `Spec => []SentOnceInOrder` | the same |
| `NothingWaitsForKnownHop` | `Spec => []KnownHopsAreServed` | the same |
| `CacheCorrect` | `Spec => []CacheIsWhatWasHeard` | the same |
| `RequestsSpaced` | `Spec => RequestsAreSpaced` | the same |

`RequestLife < EntryLife` holds of the code's constants (5 and 30 seconds) and is
needed: if an answer were forgotten sooner than its request, a second request
could follow at once.  The invariant is `TypeOK`, `KnownHopsAreServed` and
`SentOnceInOrder` with two more parts.  `AskedKept` says why no request comes too
soon: the last one is still pending with its age, or an entry learned since is
still in the table.  `HeardKept` ties entries to what was heard: none is younger
than the last message that paired its addresses, and that message's entry stays
until it expires.  The steps of `tick` rest on one counting lemma: ages fall
along the entries of an address, so the expired ones are a prefix, as long as
they are many (`PrefixBySize`, `ExpiredIsPrefix`, `AgedIsTheRest`).

At its end `TCPSenderProofs` proves of `SeqnoTracking`, for every `Half` (the code's
is 2^31), every bound and every jump shorter than half the numbers:

| theorem | statement | assumes |
|---|---|---|
| `NumbersRecovered` | `NumbersSpec => []NumberIsRecovered` | the constants' types |
| `UnwrapReturnsClosest` | `NumbersSpec => []UnwrapIsClosest` | the same |

Both rest on the arithmetic of `OperatorLemmas`: what `%` is in a sum
(`OnlyRemainder`, `SameRemainder`), that the signed difference `unwrap` computes is
the one number of its remainder within half the modulus (`SignedDistanceIsNear`), and that adding
it to the checkpoint gives the closest number of the raw value, or the number
itself when that lies within half the modulus (`UnwrapClosest`,
`UnwrapInvertsWrap`).

`TCPSenderProofs` proves, for every capacity, payload size, timeout, initial
number, set of windows, stream length and `Half`, against a peer that acknowledges
whatever it likes:

| theorem | statement | assumes |
|---|---|---|
| `TypeCorrect` | `Spec => []TypeOK` | the constants' types |
| `WindowKept` | `Spec => WindowRespected` | the same |
| `TimerCorrect` | `Spec => []TimerRunsWhileOutstanding` | the same |
| `FlightTiled` | `Spec => []OutstandingTilesFlight` | `LateSyn = FALSE` |
| `FinIsLast` | `Spec => NothingAfterFin` | `LateSyn = FALSE` |
| `TimeoutResendsRight` | `Spec => TimeoutResendsFirstMissing` | `LateSyn = FALSE` |

`TypeInv` adds to the types what keeps the counters out of trouble: what is
acknowledged has been sent, and the loop of `push` leaves no more than the window
had.  `FlightInv` says that the segments lie between the acknowledged and the next
number, overlap nowhere and leave no number out; that the next number is 1 (SYN)
plus the bytes taken from the stream plus 1 (FIN); and what each segment holds.
`LateSyn = FALSE` keeps away the message that takes the sender back to its start
(`tcp_sender.cc:113`) once bytes are on their way; with it the last three are
false, and section 5 shows what a connection makes of that.  An ack may
still be old, repeated, beyond what was sent or any raw value.  `PowersDouble` gives 2^(n+1) = 2 * 2^n for the
back-off.

`ReassemblerProofs` proves, for every capacity, stream length, size of substrings
and peer that respects the bounds in the last column:

| theorem | statement | assumes |
|---|---|---|
| `TypeCorrect` | `Spec => []TypeOK` | the constants' types |
| `PendingCounted` | `Spec => []BytesPendingCountsOnce` | the same |
| `OutputRight` | `Spec => []OutputIsStreamPrefix` | `OverrunPending = 0` |
| `NothingForgotten` | `Spec => []PendingIsWhatIsKnown` | `OverrunPending = 0` |
| `ClosedRight` | `Spec => []ClosedWhenComplete` | `OverrunPending = 0`, no peer that mixes the habits of flagging the end |

`OverrunPending = 0` is needed: `reassembler_overrun` shows how a pending substring
that passes the window is written whole.  Substrings that are written at once may pass it.
The invariant has four parts, each of which rests on those before it:

- `TypeInv`: the segments' bounds lie within their data, no two have the same keys
  (the set orders them by these), and the output keeps its capacity.
- `StreamInv`: the output holds its own places of the stream and as much of it as
  `next_` says, every segment holds its places and ends within the
  window, and the end, when known, is the stream's.
- `KnownInv`: a place at or after `next_` is known exactly if some segment covers
  it, and between calls every segment begins after `next_`.
- `CloseInv`: a peer that flags all that reaches the end has flagged a
  segment that is held or written there.  A peer that flags only an empty
  substring sends it last, or `insert` would return at line 21 before it closes.

`PendingCounted` needs of these only `TypeInv`.  `bytes_pending` goes through the
segments in the order of their keys: a segment's rank, the number of those
before it, is an injection into as many places as there are segments, so every
place is taken and the order lists them all (`InOrderSorts`).  At each
place of that list what is counted so far is the size of what the segments up to it
cover, and the furthest end is theirs (`CountsOnce`).

Each part is kept by each turn of the drain loop (`DrainOne...`), not only by the
call as a whole.  Statements for all natural numbers are proved by looking at a
least counterexample (`SmallestOne`), as the library's induction theorems take an
operator as parameter.

`TCPConnectionProofs` proves, for every `Half`, initial numbers, capacities,
streams, payload size, window limit and budgets of losses, early timers and
overtaken datagrams:

| theorem | statement | assumes |
|---|---|---|
| `TypeCorrect` | `Spec => []TypeOK` | the constants' types |
| `ReaderSafe` | `Spec /\ []NoLateSyn => []ReaderGetsTheStream` | `SupplyIsShort` |
| `NothingCut` | `Spec /\ []NoLateSyn => []NothingWaitsCut` | `SupplyIsShort` |
| `ReaderSafeInOrder` | `Spec => []ReaderGetsTheStream` | `SupplyIsShort`, `NothingOvertakes` |

The types come first, component by component: `SenderSound`, `ReceiverSound` and
`PeerSound` say of a record what keeps its operators within their domains, and
one lemma for each operator (`PushAll`, `Insert`, `SenderReceive`, `PeerReceive`,
`PeerTick` and the rest) says that it returns such a record and datagrams of the right
type.  The two loops, recursive functions here, are gone through by their least
turn that fails.

Neither half of a connection is right by itself, so the invariant `Inv` speaks of
a sender, its partner's receiver and the datagrams both ways (`Agree`):

- `SendRight`: every outstanding segment, and every one on its way (`Sent`), holds
  bytes of the stream at their own places, with the number that wraps the place, and
  ends within the receiver's window as it is now; the sender takes the window to
  be no wider than it is.  A window once announced stays good because the
  edge moves only to the right, as the reader takes bytes.
- `RecvRight`: the output is the stream from its start, and what waits in the
  reassembler holds its own places, uncut, within the window.  The stream index
  that `unwrap` finds is the right one since checkpoint and index both lie within the
  stream, which is shorter than half the numbers (`SupplyIsShort`, which
  the code needs too: it is 2^31 there).
- `AckRight`: an answer acknowledges a number the sender has, and its window ends
  no further right than the receiver's.
- `Opening` is about who has started (`Young`, `Started`): until its SYN has come, a
  sender that has sent anything has sent just that.

`GoesOn` says what a step of one peer may do to all this, one lemma for each kind
of step proves it (`ReceiveGoesOn`, `PushGoesOn`, `TickGoesOn`, `QuietGoesOn`), and
`StepKeeps` shows that then both peers' halves of `Inv` hold again.

`NoLateSyn` (no datagram without an ackno is under way to a peer whose application
has its connection) is needed: the run `tcp_connection_delayed_syn` is a behaviour
in which it fails, and then the reader does not get the stream (section 5).
`ReaderSafeInOrder` shows that only reordering can break it.  In a network
that keeps the order `OrderHolds` is invariant: behind a datagram with an
ackno come only such, none without one goes to the client, and when the server is
connected, those to the server are gone.  Early timers and losses are not restricted.

It goes on to prove, for the same constants, what the acknowledgements promise:

| theorem | statement | assumes |
|---|---|---|
| `AcknoSaysNext` | `Spec /\ []NoLateSyn /\ []NoSynAfterFin => []AcknoIsNextNeeded` | `SupplyIsShort`, `CloseOnlyIdle` |
| `AcknowledgedArrives` | the same `=> []AcknowledgedHasArrived` | the same |
| `NobodyLeftBehind` | the same `=> []NobodyIsLeftBehind` | the same and `FewFaults` |
| `AcknoSaysNextInOrder` | `Spec => []AcknoIsNextNeeded` | these and `NothingOvertakes` |
| `AcknowledgedArrivesInOrder` | `Spec => []AcknowledgedHasArrived` | the same |
| `NobodyLeftBehindInOrder` | `Spec => []NobodyIsLeftBehind` | the same and `FewFaults` |

`CloseOnlyIdle` (applications close only what is acknowledged) is needed: otherwise
a bare FIN that comes while a byte before it is missing is acknowledged in that
byte's place (`tcp_connection_early_fin`, section 5).  `Inv` says that what arrives is
right, and nothing of what has arrived; `AckInv` adds that, in two parts.

`Promises`, for each sender and its partner's receiver:

- `Ends`: the FIN is sent with the close, when all else has arrived; what the sender
  takes as acknowledged has arrived; every segment with the FIN carries nothing else (`Bare`).
- `Tidy`: the receiver has the FIN exactly when it has closed its stream, so the
  two places where `tcp_receiver.cc` counts the FIN agree; what waits lies beyond
  the next byte.
- `Acks`: every answer under way acknowledges a number that the receiver has got.
  The sender unwraps it to that number because its stream is short, and old
  answers stay true because what a receiver has got never shrinks (`Moves`).

`Partings`: a peer that is quiet, or need not linger, leaves a partner whose
segments are all acknowledged.  For the one that does not linger this follows from
the order of the FINs; for the one that lingers it is a question of time, and
needs `FewFaults`: at most three datagrams are lost or timers early.  `MayLeave`
says only that the peer has been silent for ten timeouts, counting those of a
partner that still waits.  Why that is enough is `TenAreEnough`:

- `Steadies`: a sender with something in flight has its timer running and the last
  number it sent outstanding, a sender without has the initial timeout again, and
  once the FIN is sent only the FIN is in flight.
- `Waitings`: as long as a peer whose FIN is out still waits, what its partner
  has been silent for, its own timeout and the faults that are left stay
  `InTime`.  A fault is used up each time the timeout doubles, so with three the
  silence is at most 1 + 2 + 4 timeouts when the last of them runs out, and the
  FIN that is sent then, or its acknowledgement, can no longer be lost.

`WaitInv` joins this to `AckInv`, as each needs the other: a peer that has
left early answers nothing, and without answers the partner's silence grows.
Three is the most: with a budget of four losses, and no bytes to send, TLC finds a
partner that still waits when the peer leaves (1 + 2 + 4 + 8 is more than ten).

`NoSynAfterFin` (no SYN is under way to a receiver that has the FIN) is needed
because such a SYN clears `has_fin_` (`tcp_receiver.cc:19`), after which the receiver
acknowledges one number less than it has got.  In a network that keeps the order it
cannot happen, early timers and losses included: `Firsts` says that only the
first segment of a sender carries the SYN, that none is outstanding once a number is
acknowledged, and that none is under way behind a FIN.

`CopyProgramProofs` proves, for every capacity of pipes and buffers, every limit on
a write, window, load and number of faults, with no assumption but
`CopyProgramConstants`:

| theorem | statement |
|---|---|
| `CopyProgramTypeOK` | `Spec => []TypeOK` |
| `CopyProgramStopsOnlyByFault` | `Spec => []StoppedOnlyByFault` |
| `CopyProgramImplementsRelay` | `Spec => ImplementsRelay` |

What seven rules in two threads do to six buffers rests on an invariant of two parts.
`TypeInv` holds whatever happens:

- `CopyAnswer` and `ThreadAnswer`: what `poll` has found stays true until the thread
  has dealt with it, whatever the other thread, the user and the partner do in
  between.  This is why a callback never writes to a descriptor without room.
- `CopyFits` and `ThreadFits`: the two marks of an end in each callback are set
  together with the close, so what `wait_next_event` erases before it polls
  leaves the streams as they are.
- `MainLoop` and `ThreadLoop`: a rule that was asked about is still interested when it
  is served, which is what a callback needs to make a difference.

`Faultless` holds until the first fault:

- `UpEnds` and `DownEnds`: the end of a stream follows its last byte from each place to
  the next, so that no place is closed while the one before it still holds a byte.
- `CopyRulesGone` and `ThreadRulesGone`: a rule is erased only when its place has
  nothing left to pass on, though a hangup, an `eof` mark and a lost interest erase it
  in different parts of `wait_next_event`.  A hangup that a thread sees means that
  both directions of the socket pair are shut, and then its buffers are
  finished.  That is why the cancel callbacks close nothing early.

The refinement then has one lemma for each callback: a step moves bytes along
within one direction, which `Relay` does not see, or it is one of `Enters`, `Closes`
and `Leaves` of one direction, with the bytes in the order they came.  After a
fault `Relay` lets a direction end too early, and the steps are shown to do no
more than that.  A count that is stored stale throws, which changes no byte.

`EndToEndProofs` proves, for all addresses, route tables, start-ups, numbers,
streams, capacities, times and budgets of losses that `EndToEndConstants` and
`TablesAssumption` allow:

| theorem | statement |
|---|---|
| `EndToEndTypeOK` | `Spec => []TypeOK` |
| `EndToEndRoutes` | `Spec => []RouteIsLongestAndLast` |
| `EndToEndTwoRouters` | `Spec => []TwoRoutersOnTheWay` |
| `EndToEndOnePartner` | `Spec => []OnePartner` |

A datagram may wait in any of a dozen places: five queues of frames, the queues that
three interfaces keep for each hop until ARP answers, on either side.  The
invariant `Placed(P)` is the same for all of them, and `P` says what it means: for
each side, the datagrams that may be on their way up from its host (`up`), across
from its router to the other (`across`) and down to its host (`down`), and the
addresses between which its host's adapter may speak (`ends`).

- `Placed(P)`: every queue, wire and interface holds datagrams of the set for its
  place, no interface is left with something received, every router's table
  is what `add_route` made of one of the tables, and a listening adapter belongs to
  a server that has heard of nobody.
- `Closed(P)`: the program takes no datagram out of these sets.  What an adapter
  wraps is in `up`; what comes in `down` is from an address the adapter may take
  for its partner's; what a table makes of `up` and of the other side's `across` is in
  the set of the interface that its best match names; and a checksum put right
  changes nothing.

`NextKeepsPlaced` holds for every `P` that is closed, so the steps are gone through
once (`HostToRouterRight` to `RestartsRight`), over what `send_datagram`, `recv_frame`,
`tick`, `route` and the peer do to one record.  Two `P` are used:
`Anywhere`, all datagrams everywhere, gives the types and the one partner, and
`FromHostToHost`, which fixes both addresses and lets each router take one off the
TTL, gives the two routers.  That the second is closed
(`FromHostToHostClosed`) is where the tables come in: `BestIsWhatApplies` shows
that the loop of `route()` finds, in the table as `add_route` has left it, the route
that applies among those added, and `TablesAssumption` says to which side it leads.

`TypeOK` asks more than types: no frame anywhere carries a datagram with a TTL of
zero, since `route` drops those that would have one, and no mapping is kept
past its time.

All invariants that the passing runs check are stated by theorems, with the
hypotheses given above, but `RouteIsLongestAndCurrent`, which is only checked with
TLC.  So are the liveness properties (`EverythingIsRead`, `BothLeave`, `JourneysEnd`,
`ConversationEnds`, `ProgramEnds`), as liveness is out of TLAPS's reach.

## 5. Disagreements between code and documentation

Each of the first three is a run that fails:

1. `reassembler.cc:52-53` and `78-79`: a pending segment cut at the window is
   written whole (`reassembler.hh:31-32`).  Two peers of this code never do this.
2. `tcp_receiver.cc:46-50` acknowledges a missing byte before a bare FIN
   (`tcp_receiver_message.hh:12`); the connection then hangs.
3. `tcp_sender.cc:113-117` takes any message without an ackno for the start of
   the connection: a SYN that was sent twice and comes late makes a server that
   has sent bytes number the next ones wrong, and the client loses one without
   notice (`tcp_minnow_socket.hh:107`).  The receiver does the same to its own
   half (`tcp_receiver.cc:17-25`).

The others are seen by a change of a constant, or have no code to model:

4. `byte_stream.cc:92-93` does not count an overlong pop (`byte_stream.hh:59`):
   with `PopBeyond = 1` in `MCByteStream.cfg`, `ImplementsFifo` fails.  No caller
   in the repository makes such a pop.
5. `reassembler.cc:20-21`: the end learned late does not close the stream
   (`reassembler.hh:34`): with `FinHabits` `{"mixed"}`, `ClosedWhenComplete` fails.
   A sender of this code never says it late: its bare FIN comes as an empty
   substring behind the last byte.
6. Nothing reads `TCPConfig::MAX_RETX_ATTEMPTS` (`tcp_config.hh:17`).
7. The destructor sends no RST (`tcp_minnow_socket.hh:36`).

Three more things came to light for which no run is set up to fail:

- A RST that comes between the main thread's `poll` and its write to the socket
  kills the program: the socket's thread has shut the pair down, the write raises
  SIGPIPE, and nothing handles it.  `StoppedOnlyByFault` says that this, and the
  user closing standard output, are the only ways to it.
- The socket's thread ends with `shutdown( SHUT_RDWR )` on the owner's descriptor
  (`tcp_minnow_socket_impl.hh:284`), though `tcp_minnow_socket.hh:107` says that
  only the owner calls public methods.  This adds one to `read_count_` with no
  lock (`socket.cc:110`).  If the main thread reads twice between the load and the
  store of that addition, and the store falls into the second read's callback,
  the loop takes the rule for a busy wait and throws (`eventloop.cc:211`): the
  program stops with bytes unwritten.  The default build (Debug) compiles the
  addition to a load, an add and a store, so this can happen, rarely as it may.
  `ThreadCounts` and `Miscounted` model it, and `StoppedOnlyByFault` and
  `ProgramEnds` name it as the one exception (`ThrownByCount`); without the
  exception, both fail.
- The router lowers the TTL and not the checksum, so every datagram it forwards
  has a wrong one.  They arrive because `IPv4Header::parse` replaces the checksum
  before it reports the error and `recv_frame` does not look at the report.  With
  an interface that did (`DropsWrongSum`), no conversation would end.

## 6. Not modelled

The byte layout of headers and the arithmetic of checksums (sequential code on
one buffer), addresses, the TUN device, command lines, `tcp_native` (which uses
the kernel's TCP), and the tests.  Rules of an event loop without a
file descriptor and `RuleHandle::cancel`, which nothing in the repository calls.
The destructor's `_abort`, and with it `webget`, the one application that leaves
without `wait_until_closed`: its thread ends after one event more, with its FIN
sent or not.
The 64-bit width of stream indices and counters: none gets near it.  Data races
other than the one above: the threads share the socket pair, `_abort` and
`exit_flag`, the last two atomic.  Whether a loop spins (a rule without interest
whose descriptor has hung up makes `poll` return at once) is not a property of
states.

## 7. Plan

Done: byte stream, reassembler, sequence numbers, sender, network interface,
connection, copying program and the two programs end to end, with proofs; as parts of
these the receiver, peer, router, the adapter over IP, event loop, socket thread and
stream copy.

Next: `webget` and the destructor as another main thread over `SocketThread`, and a
connection whose peers start over properly, to see whether the delayed SYN is the
only thing that stands between it and reordering.
