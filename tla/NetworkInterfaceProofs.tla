----------------------- MODULE NetworkInterfaceProofs -----------------------
(***************************************************************************)
(* Proofs about NetworkInterface.tla, for all sets of addresses and        *)
(* datagrams and all times a tick may report.                              *)
(***************************************************************************)
EXTENDS NetworkInterface, OperatorLemmas

-----------------------------------------------------------------------------
(***************************************************************************)
(* What each action does to the fields of the record.                      *)
(***************************************************************************)
LEMMA InterfaceFields ==
    ASSUME TypeOK
    PROVE  /\ n.eth = OwnEth /\ n.ip = OwnIP
           /\ n.rtable \in [IPs -> Seq(Entries)]
           /\ n.pending \in SUBSET Requests
           /\ n.queued \in [IPs -> Seq(Datagrams)]
           /\ n.received \in Seq(Datagrams)
BY DEF TypeOK, Interfaces

\* send_datagram: a known hop, one that was asked for, and one that was not.
LEMMA SendStep ==
    ASSUME TypeOK, NEW dgram \in Datagrams, NEW hop \in IPs, Send(dgram, hop)
    PROVE  /\ n' \in Interfaces
           /\ n'.rtable = n.rtable
           /\ sent' = [sent EXCEPT ![hop] = Append(@, dgram)]
           /\ heard' = heard
           /\ \/ /\ Knows(n, hop)
                 /\ n'.pending = n.pending /\ n'.queued = n.queued
                 /\ gone' = [gone EXCEPT ![hop] = @ \o << dgram >>]
                 /\ asked' = asked
                 /\ SendDatagram(n, dgram, hop).arp = << >>
              \/ /\ ~Knows(n, hop) /\ AskedRecently(n, hop)
                 /\ n'.pending = n.pending
                 /\ n'.queued = [n.queued EXCEPT ![hop] = Append(@, dgram)]
                 /\ gone' = [gone EXCEPT ![hop] = @ \o << >>]
                 /\ asked' = asked
                 /\ SendDatagram(n, dgram, hop).arp = << >>
              \/ /\ ~Knows(n, hop) /\ ~AskedRecently(n, hop)
                 /\ n'.pending = n.pending \cup {[ip |-> hop, age |-> 0]}
                 /\ n'.queued = [n.queued EXCEPT ![hop] = Append(@, dgram)]
                 /\ gone' = [gone EXCEPT ![hop] = @ \o << >>]
                 /\ asked' = [asked EXCEPT ![hop] = 0]
<1> DEFINE s == SendDatagram(n, dgram, hop)
           queue == [n.queued EXCEPT ![hop] = Append(@, dgram)]
           queues == [n EXCEPT !.queued = queue]
           asks == [queues EXCEPT !.pending = @ \cup {[ip |-> hop, age |-> 0]}]
<1>1. /\ n' = s.n
      /\ sent' = [sent EXCEPT ![hop] = Append(@, dgram)]
      /\ gone' = [gone EXCEPT ![hop] = @ \o Payloads(s.datagrams)]
      /\ asked' = IF s.arp = << >> THEN asked ELSE [asked EXCEPT ![hop] = 0]
      /\ heard' = heard
    BY DEF Send
<1>2. n \in Interfaces
    BY DEF TypeOK
<1>3. Payloads(<< >>) = << >>
    BY DEF Payloads
<1>4. CASE Knows(n, hop)
    <2>1. /\ s.n = n /\ s.arp = << >>
          /\ s.datagrams = << DatagramFrame(dgram, n.rtable[hop][1].eth) >>
        BY <1>4 DEF SendDatagram
    <2>2. Payloads(s.datagrams) = << dgram >>
        BY <2>1 DEF Payloads, DatagramFrame
    <2> QED
        BY <1>1, <1>2, <1>4, <2>1, <2>2
<1>5. queue \in [IPs -> Seq(Datagrams)]
    BY InterfaceFields, AppendProperties
<1> HIDE DEF queue
<1>6. /\ queues \in Interfaces
      /\ queues.rtable = n.rtable /\ queues.pending = n.pending
      /\ queues.queued = queue
    BY <1>2, <1>5 DEF Interfaces
<1>7. CASE ~Knows(n, hop) /\ AskedRecently(n, hop)
    <2>1. s.n = queues /\ s.arp = << >> /\ s.datagrams = << >>
        BY <1>7 DEF SendDatagram, queue
    <2>2. n' = queues /\ gone' = [gone EXCEPT ![hop] = @ \o << >>] /\ asked' = asked
        BY <1>1, <1>3, <2>1
    <2> QED
        BY <1>1, <1>6, <1>7, <2>1, <2>2 DEF queue
<1>8. CASE ~Knows(n, hop) /\ ~AskedRecently(n, hop)
    <2>1. s.n = asks /\ s.arp = << ArpRequest(n, hop) >> /\ s.datagrams = << >>
        BY <1>8 DEF SendDatagram, queue
    <2>2. s.arp # << >>
        BY <2>1
    <2>3. [ip |-> hop, age |-> 0] \in Requests
        BY LivesAssumption DEF Requests
    <2> HIDE DEF queues
    <2>4. /\ asks \in Interfaces
          /\ asks.rtable = n.rtable /\ asks.queued = queue
          /\ asks.pending = n.pending \cup {[ip |-> hop, age |-> 0]}
        BY <1>6, <2>3 DEF Interfaces
    <2>5. n' = asks /\ gone' = [gone EXCEPT ![hop] = @ \o << >>]
        BY <1>1, <1>3, <2>1
    <2>6. asked' = [asked EXCEPT ![hop] = 0]
        BY <1>1, <2>2
    <2> QED
        BY <1>1, <1>8, <2>4, <2>5, <2>6 DEF queue
<1> QED
    BY <1>4, <1>7, <1>8

\* recv_frame with an ARP message: ignored when it is for another interface,
\* else learned, and what waits for its sender leaves.
LEMMA RecvArpStep ==
    ASSUME TypeOK, NEW frame \in Frames, RecvArp(frame)
    PROVE  /\ sent' = sent /\ asked' = asked
           /\ \/ n' = n /\ gone' = gone /\ heard' = heard
              \/ \E ip \in IPs, eth \in Eths :
                    /\ n' \in Interfaces
                    /\ n'.rtable = [n.rtable EXCEPT ![ip] =
                                        Append(@, [eth |-> eth, age |-> 0])]
                    /\ n'.pending = {r \in n.pending : r.ip # ip}
                    /\ n'.queued = [n.queued EXCEPT ![ip] = << >>]
                    /\ gone' = [gone EXCEPT ![ip] = @ \o n.queued[ip]]
                    /\ heard' = [heard EXCEPT ![ip] = [@ EXCEPT ![eth] = 0]]
<1> DEFINE s == RecvFrame(n, frame)
           ip == frame.arp.senderIP
           eth == frame.arp.senderEth
           table == [n.rtable EXCEPT ![ip] = Append(@, [eth |-> eth, age |-> 0])]
           learned == [n EXCEPT !.rtable = table]
<1>1. frame.type = "ARP" /\ n' = s.n /\ sent' = sent /\ asked' = asked
    BY DEF RecvArp
<1>2. gone' = [gone EXCEPT ![ip] = @ \o Payloads(s.datagrams)]
    BY DEF RecvArp
<1>3. heard' = IF ForUs(n, frame)
                 THEN [heard EXCEPT ![ip] = [@ EXCEPT ![eth] = 0]] ELSE heard
    BY DEF RecvArp
<1>4. ip \in IPs /\ eth \in Eths
    BY <1>1 DEF Frames, DatagramFrame, ArpFrame, Arps
<1>5. gone \in [IPs -> Seq(Datagrams)] /\ n \in Interfaces
    BY DEF TypeOK
<1> HIDE DEF ip, eth
<1>6. CASE ~ForUs(n, frame)
    <2>1. s.n = n /\ s.datagrams = << >>
        BY <1>6 DEF RecvFrame
    <2>2. Payloads(<< >>) = << >>
        BY DEF Payloads
    <2>3. gone[ip] \o << >> = gone[ip]
        BY <1>4, <1>5, ConcatEmptySeq
    <2>4. gone' = gone
        BY <1>2, <1>4, <1>5, <2>1, <2>2, <2>3
    <2> QED
        BY <1>1, <1>3, <1>6, <2>1, <2>4
<1>7. CASE ForUs(n, frame)
    <2>1. /\ s.n = Flushed(Learns(n, ip, eth), ip)
          /\ s.datagrams = FlushedFrames(n, ip, eth)
        BY <1>1, <1>7 DEF RecvFrame, ip, eth
    <2>2. Payloads(FlushedFrames(n, ip, eth)) = n.queued[ip]
        <3>1. n.queued[ip] \in Seq(Datagrams)
            BY <1>4, InterfaceFields
        <3>2. Payloads(FlushedFrames(n, ip, eth))
                = [i \in DOMAIN n.queued[ip] |-> n.queued[ip][i]]
            BY DEF Payloads, FlushedFrames, DatagramFrame
        <3> QED
            BY <3>1, <3>2, LenProperties
    <2>3. [eth |-> eth, age |-> 0] \in Entries
        BY <1>4, LivesAssumption DEF Entries
    <2>4. table \in [IPs -> Seq(Entries)]
        BY <1>4, <2>3, InterfaceFields, AppendProperties
    <2>5. Learns(n, ip, eth) = learned
        BY DEF Learns
    <2> HIDE DEF table
    <2>6. /\ learned \in Interfaces /\ learned.rtable = table
          /\ learned.pending = n.pending /\ learned.queued = n.queued
        BY <1>5, <2>4 DEF Interfaces
    <2> HIDE DEF learned
    <2>7. [n.queued EXCEPT ![ip] = << >>] \in [IPs -> Seq(Datagrams)]
        BY <1>4, InterfaceFields, EmptySeq
    <2>8. s.n = [learned EXCEPT !.pending = {r \in n.pending : r.ip # ip},
                                !.queued = [n.queued EXCEPT ![ip] = << >>]]
        BY <2>1, <2>5, <2>6 DEF Flushed
    <2>9. {r \in n.pending : r.ip # ip} \in SUBSET Requests
        BY InterfaceFields
    <2>10. /\ s.n \in Interfaces /\ s.n.rtable = table
           /\ s.n.pending = {r \in n.pending : r.ip # ip}
           /\ s.n.queued = [n.queued EXCEPT ![ip] = << >>]
        BY <2>6, <2>7, <2>8, <2>9 DEF Interfaces
    <2>11. gone' = [gone EXCEPT ![ip] = @ \o n.queued[ip]]
        BY <1>2, <2>1, <2>2
    <2>12. heard' = [heard EXCEPT ![ip] = [@ EXCEPT ![eth] = 0]]
        BY <1>3, <1>7
    <2> QED
        BY <1>1, <1>4, <2>10, <2>11, <2>12 DEF table
<1> QED
    BY <1>6, <1>7

\* recv_frame with a datagram, and a customer that takes one, leave the tables
\* and queues alone.
LEMMA ReceivedStep ==
    ASSUME TypeOK,
           TakeReceived \/ \E frame \in Frames : RecvDatagram(frame)
    PROVE  /\ n' \in Interfaces
           /\ n'.rtable = n.rtable /\ n'.pending = n.pending
           /\ n'.queued = n.queued
           /\ UNCHANGED << sent, gone, asked, heard >>
<1>1. n \in Interfaces /\ n.received \in Seq(Datagrams)
    BY InterfaceFields DEF TypeOK
<1>2. CASE TakeReceived
    <2>1. Tail(n.received) \in Seq(Datagrams)
        BY <1>1, <1>2, HeadTailProperties DEF TakeReceived
    <2> QED
        BY <1>1, <1>2, <2>1 DEF TakeReceived, Interfaces
<1>3. ASSUME NEW frame \in Frames, RecvDatagram(frame)
      PROVE  /\ n' \in Interfaces
             /\ n'.rtable = n.rtable /\ n'.pending = n.pending
             /\ n'.queued = n.queued
             /\ UNCHANGED << sent, gone, asked, heard >>
    <2>1. frame.type = "IPv4" /\ n' = RecvFrame(n, frame).n
        BY <1>3 DEF RecvDatagram
    <2>2. frame.dgram \in Datagrams
        BY <2>1 DEF Frames, DatagramFrame, ArpFrame
    <2>3. Append(n.received, frame.dgram) \in Seq(Datagrams)
        BY <1>1, <2>2, AppendProperties
    <2>4. n' = n \/ n' = [n EXCEPT !.received = Append(@, frame.dgram)]
        BY <2>1 DEF RecvFrame
    <2>5. UNCHANGED << sent, gone, asked, heard >>
        BY <1>3 DEF RecvDatagram
    <2> QED
        BY <1>1, <2>3, <2>4, <2>5 DEF Interfaces
<1> QED
    BY <1>2, <1>3

\* tick.
LEMMA TickStep ==
    ASSUME TypeOK, NEW ms \in Steps, Tick(ms)
    PROVE  /\ ms \in Nat
           /\ n' \in Interfaces
           /\ \A ip \in IPs : n'.rtable[ip] = Aged(n.rtable[ip], ms)
           /\ n'.pending = PendingAged(n.pending, ms)
           /\ n'.queued = n.queued
           /\ sent' = sent /\ gone' = gone
           /\ asked' = [ip \in IPs |-> AtMost(asked[ip] + ms, Never)]
           /\ heard' = [ip \in IPs |->
                  [eth \in Eths |-> AtMost(heard[ip][eth] + ms, Forgotten)]]
<1> DEFINE table == [ip \in IPs |-> Aged(n.rtable[ip], ms)]
           left == PendingAged(n.pending, ms)
<1>1. ms \in Nat
    BY StepsAssumption
<1>2. \A ip \in IPs : n.rtable[ip] \in Seq(Entries) /\ AgesFall(n.rtable[ip])
    BY InterfaceFields DEF TypeOK
<1>3. \A ip \in IPs : Aged(n.rtable[ip], ms) \in Seq(Entries)
    BY <1>1, <1>2, AgedIsTheRest
<1>4. table \in [IPs -> Seq(Entries)]
    BY <1>3
<1>5. left \in SUBSET Requests
    <2> SUFFICES ASSUME NEW r \in n.pending, r.age + ms <= RequestLife
                 PROVE  [ip |-> r.ip, age |-> r.age + ms] \in Requests
        BY DEF PendingAged
    <2>1. r.ip \in IPs /\ r.age \in 0 .. RequestLife
        BY InterfaceFields DEF Requests
    <2>2. r.age + ms \in 0 .. RequestLife
        BY <1>1, <2>1, LivesAssumption
    <2> QED
        BY <2>1, <2>2 DEF Requests
<1>6. n' = [n EXCEPT !.rtable = table, !.pending = left]
    BY DEF Tick, InterfaceTick
<1> HIDE DEF table, left
<1>7. /\ n' \in Interfaces /\ n'.rtable = table /\ n'.pending = left
      /\ n'.queued = n.queued
    BY <1>4, <1>5, <1>6 DEF TypeOK, Interfaces
<1> QED
    BY <1>1, <1>7 DEF Tick, table, left

-----------------------------------------------------------------------------
(***************************************************************************)
(* The inductive invariant.  HeardKept relates entries to what was heard:  *)
(* no entry is younger than the last message that paired its addresses,    *)
(* and that message's entry is there until it expires.  AskedKept says why *)
(* no request comes soon after another: the first is still pending, or an  *)
(* entry learned since then is still there.                                *)
(***************************************************************************)
EntriesMatch(entries, ago) ==
    /\ \A i \in 1 .. Len(entries) : ago[entries[i].eth] <= entries[i].age
    /\ \A eth \in Eths : ago[eth] < Forgotten =>
          \E i \in 1 .. Len(entries) :
              entries[i].eth = eth /\ entries[i].age = ago[eth]

HeardKept == \A ip \in IPs : EntriesMatch(n.rtable[ip], heard[ip])

AnswerKnown(entries, ago) ==
    \E i \in 1 .. Len(entries) : entries[i].age <= ago

AskedKept ==
    \A ip \in IPs : asked[ip] <= RequestLife =>
        \/ [ip |-> ip, age |-> asked[ip]] \in n.pending
        \/ AnswerKnown(n.rtable[ip], asked[ip])

IInv ==
    TypeOK /\ KnownHopsAreServed /\ SentOnceInOrder /\ HeardKept /\ AskedKept

\* Every conjunct holds at the start.
LEMMA InitIInv == Init => IInv
<1> SUFFICES ASSUME Init
             PROVE  IInv
    OBVIOUS
<1>1. n = NewInterface(OwnEth, OwnIP)
    BY DEF Init
<1>2. /\ n.rtable = [a \in IPs |-> << >>] /\ n.queued = [a \in IPs |-> << >>]
      /\ n.pending = {}
    BY <1>1 DEF NewInterface
<1>3. n \in Interfaces
    BY <1>1, OwnAssumption, EmptySeq DEF NewInterface, Interfaces
<1>4. Never \in 0 .. Never /\ Forgotten \in 0 .. Forgotten
    BY LivesAssumption DEF Never, Forgotten
<1>5. TypeOK
    BY <1>2, <1>3, <1>4, EmptySeq DEF Init, TypeOK, AgesFall
<1>6. KnownHopsAreServed
    BY <1>2 DEF KnownHopsAreServed, Knows
<1>7. SentOnceInOrder
    BY <1>2, ConcatEmptySeq, EmptySeq DEF Init, SentOnceInOrder
<1>8. HeardKept
    BY <1>2, LivesAssumption DEF Init, HeardKept, EntriesMatch, Forgotten
<1>9. AskedKept
    BY LivesAssumption DEF Init, AskedKept, Never
<1> QED
    BY <1>5, <1>6, <1>7, <1>8, <1>9 DEF IInv

\* The types of the next state.
LEMMA NextTypeOK == TypeOK /\ [Next]_vars => TypeOK'
<1> SUFFICES ASSUME TypeOK, [Next]_vars
             PROVE  TypeOK'
    OBVIOUS
<1>1. /\ n \in Interfaces
      /\ \A ip \in IPs : AgesFall(n.rtable[ip]) /\ n.rtable[ip] \in Seq(Entries)
      /\ sent \in [IPs -> Seq(Datagrams)] /\ gone \in [IPs -> Seq(Datagrams)]
      /\ asked \in [IPs -> 0 .. Never]
      /\ heard \in [IPs -> [Eths -> 0 .. Forgotten]]
    BY InterfaceFields DEF TypeOK
<1>2. RequestLife \in Nat /\ EntryLife \in Nat /\ Never \in Nat /\ Forgotten \in Nat
    BY LivesAssumption DEF Never, Forgotten
<1>3. ASSUME NEW dgram \in Datagrams, NEW hop \in IPs, Send(dgram, hop)
      PROVE  TypeOK'
    <2>1. << >> \in Seq(Datagrams) /\ << dgram >> \in Seq(Datagrams)
        OBVIOUS
    <2>2. /\ gone[hop] \o << >> \in Seq(Datagrams)
          /\ gone[hop] \o << dgram >> \in Seq(Datagrams)
          /\ Append(sent[hop], dgram) \in Seq(Datagrams)
        BY <1>1, <2>1, ConcatProperties, AppendProperties
    <2>3. /\ n' \in Interfaces /\ n'.rtable = n.rtable /\ heard' = heard
          /\ sent' = [sent EXCEPT ![hop] = Append(@, dgram)]
          /\ \/ gone' = [gone EXCEPT ![hop] = @ \o << dgram >>]
             \/ gone' = [gone EXCEPT ![hop] = @ \o << >>]
          /\ asked' = asked \/ asked' = [asked EXCEPT ![hop] = 0]
        BY <1>3, SendStep
    <2>4. gone' \in [IPs -> Seq(Datagrams)] /\ sent' \in [IPs -> Seq(Datagrams)]
        BY <1>1, <2>2, <2>3
    <2>5. 0 \in 0 .. Never
        BY <1>2
    <2>6. asked' \in [IPs -> 0 .. Never]
        BY <1>1, <2>3, <2>5
    <2> QED
        BY <1>1, <2>3, <2>4, <2>6 DEF TypeOK
<1>4. ASSUME NEW frame \in Frames, RecvArp(frame)
      PROVE  TypeOK'
    <2>1. CASE n' = n /\ gone' = gone /\ heard' = heard
        BY <1>1, <1>4, <2>1, RecvArpStep DEF TypeOK
    <2>2. ASSUME NEW ip \in IPs, NEW eth \in Eths,
                 n' \in Interfaces,
                 n'.rtable = [n.rtable EXCEPT ![ip] = Append(@, [eth |-> eth, age |-> 0])],
                 gone' = [gone EXCEPT ![ip] = @ \o n.queued[ip]],
                 heard' = [heard EXCEPT ![ip] = [@ EXCEPT ![eth] = 0]]
          PROVE  TypeOK'
        <3>1. gone[ip] \o n.queued[ip] \in Seq(Datagrams)
            BY <1>1, InterfaceFields, ConcatProperties
        <3>2. gone' \in [IPs -> Seq(Datagrams)]
            BY <1>1, <2>2, <3>1
        <3>3. heard' \in [IPs -> [Eths -> 0 .. Forgotten]]
            BY <1>1, <1>2, <2>2
        <3>4. AgesFall(Append(n.rtable[ip], [eth |-> eth, age |-> 0]))
            BY <1>1, AppendKeepsOrder
        <3>5. \A a \in IPs : AgesFall(n'.rtable[a])
            BY <1>1, <2>2, <3>4, InterfaceFields
        <3> QED
            BY <1>1, <1>4, <2>2, <3>2, <3>3, <3>5, RecvArpStep DEF TypeOK
    <2> QED
        BY <1>4, <2>1, <2>2, RecvArpStep
<1>5. ASSUME NEW ms \in Steps, Tick(ms)
      PROVE  TypeOK'
    <2>1. ms \in Nat
        BY StepsAssumption
    <2>2. asked' \in [IPs -> 0 .. Never]
        BY <1>1, <1>2, <1>5, <2>1, TickStep DEF AtMost
    <2>3. \A ip \in IPs, eth \in Eths :
              AtMost(heard[ip][eth] + ms, Forgotten) \in 0 .. Forgotten
        BY <1>1, <1>2, <2>1 DEF AtMost
    <2>4. heard' \in [IPs -> [Eths -> 0 .. Forgotten]]
        BY <1>5, <2>3, TickStep
    <2>5. \A ip \in IPs : AgesFall(Aged(n.rtable[ip], ms))
        BY <1>1, <2>1, AgedIsTheRest
    <2> QED
        BY <1>1, <1>5, <2>2, <2>4, <2>5, TickStep DEF TypeOK
<1>6. CASE TakeReceived \/ \E frame \in Frames : RecvDatagram(frame)
    BY <1>1, <1>6, ReceivedStep DEF TypeOK
<1>7. CASE UNCHANGED vars
    BY <1>1, <1>7 DEF TypeOK, vars
<1> QED
    BY <1>3, <1>4, <1>5, <1>6, <1>7 DEF Next

\* Nothing waits for a known hop in the next state.
LEMMA NextServed ==
    TypeOK /\ KnownHopsAreServed /\ [Next]_vars => KnownHopsAreServed'
<1> SUFFICES ASSUME TypeOK, KnownHopsAreServed, [Next]_vars, NEW ip \in IPs,
                    n'.rtable[ip] # << >>
             PROVE  n'.queued[ip] = << >> /\ \A r \in n'.pending : r.ip # ip
    BY DEF KnownHopsAreServed, Knows, AskedRecently
<1>1. /\ n.rtable \in [IPs -> Seq(Entries)] /\ n.queued \in [IPs -> Seq(Datagrams)]
      /\ \A a \in IPs : AgesFall(n.rtable[a])
    BY InterfaceFields DEF TypeOK
<1>2. n.rtable[ip] # << >> => n.queued[ip] = << >> /\ \A r \in n.pending : r.ip # ip
    BY DEF KnownHopsAreServed, Knows, AskedRecently
<1>3. ASSUME NEW dgram \in Datagrams, NEW hop \in IPs, Send(dgram, hop)
      PROVE  n'.queued[ip] = << >> /\ \A r \in n'.pending : r.ip # ip
    <2>1. n.rtable[ip] # << >>
        BY <1>3, SendStep
    <2>2. CASE Knows(n, hop)
        BY <1>2, <1>3, <2>1, <2>2, SendStep
    <2>3. CASE ~Knows(n, hop)
        <3>1. ip # hop
            BY <2>1, <2>3 DEF Knows
        <3>2. /\ n'.queued = [n.queued EXCEPT ![hop] = Append(@, dgram)]
              /\ \/ n'.pending = n.pending
                 \/ n'.pending = n.pending \cup {[ip |-> hop, age |-> 0]}
            BY <1>3, <2>3, SendStep
        <3> QED
            BY <1>1, <1>2, <2>1, <3>1, <3>2
    <2> QED
        BY <2>2, <2>3
<1>4. ASSUME NEW frame \in Frames, RecvArp(frame)
      PROVE  n'.queued[ip] = << >> /\ \A r \in n'.pending : r.ip # ip
    <2>1. CASE n' = n
        BY <1>2, <2>1
    <2>2. ASSUME NEW a \in IPs, NEW eth \in Eths,
                 n'.rtable = [n.rtable EXCEPT ![a] = Append(@, [eth |-> eth, age |-> 0])],
                 n'.pending = {r \in n.pending : r.ip # a},
                 n'.queued = [n.queued EXCEPT ![a] = << >>]
          PROVE  n'.queued[ip] = << >> /\ \A r \in n'.pending : r.ip # ip
        <3>1. CASE ip = a
            BY <1>1, <2>2, <3>1
        <3>2. CASE ip # a
            BY <1>1, <1>2, <2>2, <3>2
        <3> QED
            BY <3>1, <3>2
    <2> QED
        BY <1>4, <2>1, <2>2, RecvArpStep
<1>5. ASSUME NEW ms \in Steps, Tick(ms)
      PROVE  n'.queued[ip] = << >> /\ \A r \in n'.pending : r.ip # ip
    <2>1. /\ ms \in Nat /\ n'.rtable[ip] = Aged(n.rtable[ip], ms)
          /\ n'.pending = PendingAged(n.pending, ms) /\ n'.queued = n.queued
        BY <1>5, TickStep
    <2>2. n.rtable[ip] # << >>
        <3> SUFFICES ASSUME n.rtable[ip] = << >>
                     PROVE  FALSE
            OBVIOUS
        <3>1. Aged(n.rtable[ip], ms) \in Seq(Entries) /\ Len(Aged(n.rtable[ip], ms)) = 0
            BY <1>1, <2>1, AgedIsTheRest
        <3> QED
            BY <2>1, <3>1, EmptySeq
    <2> QED
        BY <1>2, <2>1, <2>2 DEF PendingAged
<1>6. CASE TakeReceived \/ \E frame \in Frames : RecvDatagram(frame)
    BY <1>2, <1>6, ReceivedStep
<1>7. CASE UNCHANGED vars
    BY <1>2, <1>7 DEF vars
<1> QED
    BY <1>3, <1>4, <1>5, <1>6, <1>7 DEF Next

\* Concatenation is associative.
LEMMA AssociativeOnDatagrams ==
    \A s, t, u \in Seq(Datagrams) : (s \o t) \o u = s \o (t \o u)
<1> QED
    BY ConcatAssociative

\* What is sent is what has gone followed by what waits, in the next state.
LEMMA NextInOrder ==
    TypeOK /\ KnownHopsAreServed /\ SentOnceInOrder /\ [Next]_vars => SentOnceInOrder'
<1> SUFFICES ASSUME TypeOK, KnownHopsAreServed, SentOnceInOrder, [Next]_vars,
                    NEW ip \in IPs
             PROVE  gone'[ip] \o n'.queued[ip] = sent'[ip]
    BY DEF SentOnceInOrder
<1>1. /\ n.queued \in [IPs -> Seq(Datagrams)]
      /\ sent \in [IPs -> Seq(Datagrams)] /\ gone \in [IPs -> Seq(Datagrams)]
    BY InterfaceFields DEF TypeOK
<1>2. gone[ip] \o n.queued[ip] = sent[ip]
    BY DEF SentOnceInOrder
<1>3. ASSUME NEW dgram \in Datagrams, NEW hop \in IPs, Send(dgram, hop)
      PROVE  gone'[ip] \o n'.queued[ip] = sent'[ip]
    <2>1. sent' = [sent EXCEPT ![hop] = Append(@, dgram)]
        BY <1>3, SendStep
    <2>2. CASE Knows(n, hop)
        <3>1. n.queued[hop] = << >>
            BY <2>2 DEF KnownHopsAreServed
        <3>2. n'.queued = n.queued /\ gone' = [gone EXCEPT ![hop] = @ \o << dgram >>]
            BY <1>3, <2>2, SendStep
        <3>3. CASE ip = hop
            <4>1. gone[ip] = sent[ip]
                BY <1>1, <1>2, <3>1, <3>3, ConcatEmptySeq
            <4>2. gone'[ip] = gone[ip] \o << dgram >> /\ sent'[ip] = Append(sent[ip], dgram)
                BY <1>1, <2>1, <3>2, <3>3
            <4>3. Append(sent[ip], dgram) = sent[ip] \o << dgram >>
                BY <1>1, AppendIsConcat
            <4>4. gone[ip] \o << dgram >> \in Seq(Datagrams)
                BY <1>1, ConcatProperties
            <4> QED
                BY <3>1, <3>2, <3>3, <4>1, <4>2, <4>3, <4>4, ConcatEmptySeq
        <3>4. CASE ip # hop
            BY <1>1, <1>2, <2>1, <3>2, <3>4
        <3> QED
            BY <3>3, <3>4
    <2>3. CASE ~Knows(n, hop)
        <3>1. /\ n'.queued = [n.queued EXCEPT ![hop] = Append(@, dgram)]
              /\ gone' = [gone EXCEPT ![hop] = @ \o << >>]
            BY <1>3, <2>3, SendStep
        <3>2. CASE ip = hop
            <4>1. gone'[ip] = gone[ip]
                BY <1>1, <3>1, <3>2, ConcatEmptySeq
            <4>2. /\ n'.queued[ip] = Append(n.queued[ip], dgram)
                  /\ sent'[ip] = Append(sent[ip], dgram)
                BY <1>1, <2>1, <3>1, <3>2
            <4>3. /\ Append(n.queued[ip], dgram) = n.queued[ip] \o << dgram >>
                  /\ Append(sent[ip], dgram) = sent[ip] \o << dgram >>
                BY <1>1, AppendIsConcat
            <4>4. /\ gone[ip] \in Seq(Datagrams) /\ n.queued[ip] \in Seq(Datagrams)
                  /\ << dgram >> \in Seq(Datagrams)
                BY <1>1
            <4>5. (gone[ip] \o n.queued[ip]) \o << dgram >>
                    = gone[ip] \o (n.queued[ip] \o << dgram >>)
                BY <4>4, AssociativeOnDatagrams, Zenon
            <4> QED
                BY <1>2, <4>1, <4>2, <4>3, <4>5
        <3>3. CASE ip # hop
            BY <1>1, <1>2, <2>1, <3>1, <3>3
        <3> QED
            BY <3>2, <3>3
    <2> QED
        BY <2>2, <2>3
<1>4. ASSUME NEW frame \in Frames, RecvArp(frame)
      PROVE  gone'[ip] \o n'.queued[ip] = sent'[ip]
    <2>1. sent' = sent
        BY <1>4, RecvArpStep
    <2>2. CASE n' = n /\ gone' = gone
        BY <1>2, <2>1, <2>2
    <2>3. ASSUME NEW a \in IPs,
                 n'.queued = [n.queued EXCEPT ![a] = << >>],
                 gone' = [gone EXCEPT ![a] = @ \o n.queued[a]]
          PROVE  gone'[ip] \o n'.queued[ip] = sent'[ip]
        <3>1. CASE ip = a
            <4>1. gone'[ip] = sent[ip] /\ n'.queued[ip] = << >>
                BY <1>1, <1>2, <2>3, <3>1
            <4> QED
                BY <1>1, <2>1, <4>1, ConcatEmptySeq
        <3>2. CASE ip # a
            BY <1>1, <1>2, <2>1, <2>3, <3>2
        <3> QED
            BY <3>1, <3>2
    <2> QED
        BY <1>4, <2>2, <2>3, RecvArpStep
<1>5. ASSUME NEW ms \in Steps, Tick(ms)
      PROVE  gone'[ip] \o n'.queued[ip] = sent'[ip]
    BY <1>2, <1>5, TickStep
<1>6. CASE TakeReceived \/ \E frame \in Frames : RecvDatagram(frame)
    BY <1>2, <1>6, ReceivedStep
<1>7. CASE UNCHANGED vars
    BY <1>2, <1>7 DEF vars
<1> QED
    BY <1>3, <1>4, <1>5, <1>6, <1>7 DEF Next

\* A message that is learned: its entry is new, and it was heard just now.
LEMMA LearnedMatch ==
    ASSUME NEW entries \in Seq(Entries), NEW ago \in [Eths -> 0 .. Forgotten],
           EntriesMatch(entries, ago), NEW eth \in Eths
    PROVE  EntriesMatch(Append(entries, [eth |-> eth, age |-> 0]),
                        [ago EXCEPT ![eth] = 0])
<1> DEFINE new == [eth |-> eth, age |-> 0]
           all == Append(entries, new)
           now == [ago EXCEPT ![eth] = 0]
           len == Len(entries)
<1>1. new \in Entries
    BY LivesAssumption DEF Entries
<1>2. /\ len \in Nat /\ Len(all) = len + 1
      /\ \A i \in 1 .. len : all[i] = entries[i]
      /\ all[len + 1] = new
    BY <1>1, LenProperties, AppendProperties
<1>3. \A i \in 1 .. len : entries[i].eth \in Eths /\ entries[i].age \in Nat
    BY EntryTypes
<1>4. new.age = 0 /\ new.eth = eth
    OBVIOUS
<1>5. /\ now[eth] = 0
      /\ \A e \in Eths : e # eth => now[e] = ago[e]
    OBVIOUS
<1>6. /\ \A i \in 1 .. len : ago[entries[i].eth] <= entries[i].age
      /\ \A e \in Eths : ago[e] < Forgotten =>
            \E i \in 1 .. len : entries[i].eth = e /\ entries[i].age = ago[e]
    BY DEF EntriesMatch
<1> HIDE DEF new, all, now, len
<1>7. \A i \in 1 .. len + 1 : now[all[i].eth] <= all[i].age
    <2> SUFFICES ASSUME NEW i \in 1 .. len + 1
                 PROVE  now[all[i].eth] <= all[i].age
        OBVIOUS
    <2>1. CASE i = len + 1
        BY <1>2, <1>4, <1>5, <2>1
    <2>2. CASE i \in 1 .. len /\ entries[i].eth = eth
        BY <1>2, <1>3, <1>5, <2>2
    <2>3. CASE i \in 1 .. len /\ entries[i].eth # eth
        BY <1>2, <1>3, <1>5, <1>6, <2>3
    <2> QED
        BY <1>2, <2>1, <2>2, <2>3
<1>8. ASSUME NEW e \in Eths, now[e] < Forgotten
      PROVE  \E i \in 1 .. len + 1 : all[i].eth = e /\ all[i].age = now[e]
    <2>1. CASE e = eth
        <3>1. len + 1 \in 1 .. len + 1
            BY <1>2
        <3> QED
            BY <1>2, <1>4, <1>5, <2>1, <3>1
    <2>2. CASE e # eth
        <3>1. PICK i \in 1 .. len : entries[i].eth = e /\ entries[i].age = ago[e]
            BY <1>5, <1>6, <1>8, <2>2
        <3>2. i \in 1 .. len + 1 /\ all[i] = entries[i]
            BY <1>2
        <3> QED
            BY <1>5, <2>2, <3>1, <3>2
    <2> QED
        BY <2>1, <2>2
<1> QED
    BY <1>2, <1>7, <1>8 DEF EntriesMatch, all, now, new

\* A tick: entries and what was heard grow old together.
LEMMA AgedMatch ==
    ASSUME NEW entries \in Seq(Entries), AgesFall(entries),
           NEW ago \in [Eths -> 0 .. Forgotten],
           EntriesMatch(entries, ago), NEW ms \in Nat
    PROVE  EntriesMatch(Aged(entries, ms),
                        [eth \in Eths |-> AtMost(ago[eth] + ms, Forgotten)])
<1> DEFINE k == Expired(entries, ms)
           aged == Aged(entries, ms)
           later == [eth \in Eths |-> AtMost(ago[eth] + ms, Forgotten)]
<1>1. /\ aged \in Seq(Entries) /\ k \in 0 .. Len(entries)
      /\ \A i \in 1 .. Len(aged) :
            /\ i + k \in 1 .. Len(entries)
            /\ aged[i].eth = entries[i + k].eth
            /\ aged[i].age = entries[i + k].age + ms
      /\ \A i \in 1 .. Len(entries) :
            entries[i].age + ms < EntryLife =>
               /\ i - k \in 1 .. Len(aged)
               /\ aged[i - k].eth = entries[i].eth
               /\ aged[i - k].age = entries[i].age + ms
    BY AgedIsTheRest
<1>2. \A i \in 1 .. Len(entries) : entries[i].eth \in Eths /\ entries[i].age \in Nat
    BY EntryTypes
<1>3. Forgotten \in Nat /\ Forgotten = EntryLife
    BY LivesAssumption DEF Forgotten
<1>4. \A e \in Eths : ago[e] \in 0 .. Forgotten
    OBVIOUS
<1>5. \A e \in Eths : /\ later[e] <= ago[e] + ms
                      /\ later[e] < Forgotten => later[e] = ago[e] + ms
    BY <1>3, <1>4 DEF AtMost
<1>6. /\ \A i \in 1 .. Len(entries) : ago[entries[i].eth] <= entries[i].age
      /\ \A e \in Eths : ago[e] < Forgotten =>
            \E i \in 1 .. Len(entries) :
                entries[i].eth = e /\ entries[i].age = ago[e]
    BY DEF EntriesMatch
<1>7. \A e \in Eths : later[e] \in 0 .. Forgotten
    BY <1>3, <1>4 DEF AtMost
<1> HIDE DEF k, aged, later
<1>8. ASSUME NEW i \in 1 .. Len(aged)
      PROVE  later[aged[i].eth] <= aged[i].age
    <2>1. /\ i + k \in 1 .. Len(entries)
          /\ aged[i].eth = entries[i + k].eth
          /\ aged[i].age = entries[i + k].age + ms
        BY <1>1
    <2>2. /\ entries[i + k].eth \in Eths /\ entries[i + k].age \in Nat
          /\ ago[entries[i + k].eth] <= entries[i + k].age
        BY <1>2, <1>6, <2>1
    <2>3. /\ later[entries[i + k].eth] <= ago[entries[i + k].eth] + ms
          /\ ago[entries[i + k].eth] \in 0 .. Forgotten
          /\ later[entries[i + k].eth] \in 0 .. Forgotten
        BY <1>4, <1>5, <1>7, <2>2
    <2> QED
        BY <1>3, <2>1, <2>2, <2>3
<1>9. ASSUME NEW e \in Eths, later[e] < Forgotten
      PROVE  \E i \in 1 .. Len(aged) : aged[i].eth = e /\ aged[i].age = later[e]
    <2>1. later[e] = ago[e] + ms /\ ago[e] \in 0 .. Forgotten
        BY <1>4, <1>5, <1>9
    <2>2. ago[e] < Forgotten
        BY <1>3, <1>9, <2>1
    <2>3. PICK i \in 1 .. Len(entries) : entries[i].eth = e /\ entries[i].age = ago[e]
        BY <1>6, <2>2
    <2>4. entries[i].age + ms < EntryLife
        BY <1>3, <1>9, <2>1, <2>3
    <2>5. /\ i - k \in 1 .. Len(aged) /\ aged[i - k].eth = e
          /\ aged[i - k].age = later[e]
        BY <1>1, <2>1, <2>3, <2>4
    <2> QED
        BY <2>5
<1> QED
    BY <1>8, <1>9 DEF EntriesMatch, aged, later

\* Entries and what was heard agree in the next state.
LEMMA NextHeardKept == TypeOK /\ HeardKept /\ [Next]_vars => HeardKept'
<1> SUFFICES ASSUME TypeOK, HeardKept, [Next]_vars, NEW ip \in IPs
             PROVE  EntriesMatch(n'.rtable[ip], heard'[ip])
    BY DEF HeardKept, EntriesMatch
<1>1. /\ n.rtable \in [IPs -> Seq(Entries)]
      /\ \A a \in IPs : AgesFall(n.rtable[a])
      /\ heard \in [IPs -> [Eths -> 0 .. Forgotten]]
    BY InterfaceFields DEF TypeOK
<1>2. EntriesMatch(n.rtable[ip], heard[ip])
    BY DEF HeardKept
<1>3. ASSUME NEW dgram \in Datagrams, NEW hop \in IPs, Send(dgram, hop)
      PROVE  EntriesMatch(n'.rtable[ip], heard'[ip])
    <2>1. n'.rtable = n.rtable /\ heard' = heard
        BY <1>3, SendStep
    <2> QED
        BY <1>2, <2>1
<1>4. ASSUME NEW frame \in Frames, RecvArp(frame)
      PROVE  EntriesMatch(n'.rtable[ip], heard'[ip])
    <2>1. CASE n' = n /\ heard' = heard
        BY <1>2, <2>1
    <2>2. ASSUME NEW a \in IPs, NEW eth \in Eths,
                 n'.rtable = [n.rtable EXCEPT ![a] = Append(@, [eth |-> eth, age |-> 0])],
                 heard' = [heard EXCEPT ![a] = [@ EXCEPT ![eth] = 0]]
          PROVE  EntriesMatch(n'.rtable[ip], heard'[ip])
        <3>1. CASE ip = a
            <4>1. /\ n'.rtable[ip] = Append(n.rtable[ip], [eth |-> eth, age |-> 0])
                  /\ heard'[ip] = [heard[ip] EXCEPT ![eth] = 0]
                BY <1>1, <2>2, <3>1
            <4>2. EntriesMatch(Append(n.rtable[ip], [eth |-> eth, age |-> 0]),
                               [heard[ip] EXCEPT ![eth] = 0])
                BY <1>1, <1>2, LearnedMatch
            <4> QED
                BY <4>1, <4>2
        <3>2. CASE ip # a
            <4>1. n'.rtable[ip] = n.rtable[ip] /\ heard'[ip] = heard[ip]
                BY <1>1, <2>2, <3>2
            <4> QED
                BY <1>2, <4>1
        <3> QED
            BY <3>1, <3>2
    <2> QED
        BY <1>4, <2>1, <2>2, RecvArpStep
<1>5. ASSUME NEW ms \in Steps, Tick(ms)
      PROVE  EntriesMatch(n'.rtable[ip], heard'[ip])
    <2>1. /\ ms \in Nat /\ n'.rtable[ip] = Aged(n.rtable[ip], ms)
          /\ heard'[ip] = [eth \in Eths |-> AtMost(heard[ip][eth] + ms, Forgotten)]
        BY <1>5, TickStep
    <2>2. EntriesMatch(Aged(n.rtable[ip], ms),
                       [eth \in Eths |-> AtMost(heard[ip][eth] + ms, Forgotten)])
        BY <1>1, <1>2, <2>1, AgedMatch
    <2> QED
        BY <2>1, <2>2
<1>6. CASE TakeReceived \/ \E frame \in Frames : RecvDatagram(frame)
    <2>1. n'.rtable = n.rtable /\ heard' = heard
        BY <1>6, ReceivedStep
    <2> QED
        BY <1>2, <2>1
<1>7. CASE UNCHANGED vars
    <2>1. n' = n /\ heard' = heard
        BY <1>7 DEF vars
    <2> QED
        BY <1>2, <2>1
<1> QED
    BY <1>3, <1>4, <1>5, <1>6, <1>7 DEF Next

\* An entry that answers a request is still there when less than RequestLife
\* has passed since the request.
LEMMA AgedAnswer ==
    ASSUME NEW entries \in Seq(Entries), AgesFall(entries), NEW ago \in Nat,
           AnswerKnown(entries, ago), NEW ms \in Nat, ago + ms <= RequestLife
    PROVE  AnswerKnown(Aged(entries, ms), ago + ms)
<1> DEFINE k == Expired(entries, ms)
           aged == Aged(entries, ms)
<1>1. PICK i \in 1 .. Len(entries) : entries[i].age <= ago
    BY DEF AnswerKnown
<1>2. entries[i].age \in Nat
    BY EntryTypes
<1>3. entries[i].age + ms <= ago + ms /\ entries[i].age + ms < EntryLife
    BY <1>1, <1>2, LivesAssumption
<1>4. i - k \in 1 .. Len(aged) /\ aged[i - k].age = entries[i].age + ms
    BY <1>3, AgedIsTheRest
<1> QED
    BY <1>3, <1>4 DEF AnswerKnown

\* Why no request comes soon after another, in the next state.
LEMMA NextAskedKept == TypeOK /\ AskedKept /\ [Next]_vars => AskedKept'
<1> SUFFICES ASSUME TypeOK, AskedKept, [Next]_vars, NEW ip \in IPs,
                    asked'[ip] <= RequestLife
             PROVE  \/ [ip |-> ip, age |-> asked'[ip]] \in n'.pending
                    \/ AnswerKnown(n'.rtable[ip], asked'[ip])
    BY DEF AskedKept, AnswerKnown
<1> DEFINE Kept == \/ [ip |-> ip, age |-> asked'[ip]] \in n'.pending
                   \/ AnswerKnown(n'.rtable[ip], asked'[ip])
<1>1. /\ n.rtable \in [IPs -> Seq(Entries)]
      /\ \A a \in IPs : AgesFall(n.rtable[a])
      /\ asked \in [IPs -> 0 .. Never]
    BY InterfaceFields DEF TypeOK
<1>2. asked[ip] <= RequestLife =>
         \/ [ip |-> ip, age |-> asked[ip]] \in n.pending
         \/ AnswerKnown(n.rtable[ip], asked[ip])
    BY DEF AskedKept
<1>3. ASSUME NEW dgram \in Datagrams, NEW hop \in IPs, Send(dgram, hop)
      PROVE  Kept
    <2>1. n'.rtable = n.rtable
        BY <1>3, SendStep
    <2>2. CASE asked' = asked /\ n'.pending = n.pending
        BY <1>2, <2>1, <2>2
    <2>3. CASE /\ asked' = [asked EXCEPT ![hop] = 0]
               /\ n'.pending = n.pending \cup {[ip |-> hop, age |-> 0]}
        <3>1. CASE ip = hop
            <4>1. asked'[ip] = 0
                BY <1>1, <2>3, <3>1
            <4> QED
                BY <2>3, <3>1, <4>1
        <3>2. CASE ip # hop
            <4>1. asked'[ip] = asked[ip]
                BY <1>1, <2>3, <3>2
            <4> QED
                BY <1>2, <2>1, <2>3, <4>1
        <3> QED
            BY <3>1, <3>2
    <2> QED
        BY <1>3, <2>2, <2>3, SendStep
<1>4. ASSUME NEW frame \in Frames, RecvArp(frame)
      PROVE  Kept
    <2>1. asked' = asked
        BY <1>4, RecvArpStep
    <2>2. CASE n' = n
        BY <1>2, <2>1, <2>2
    <2>3. ASSUME NEW a \in IPs, NEW eth \in Eths,
                 n'.rtable = [n.rtable EXCEPT ![a] = Append(@, [eth |-> eth, age |-> 0])],
                 n'.pending = {r \in n.pending : r.ip # a}
          PROVE  Kept
        <3>1. CASE ip = a
            <4> DEFINE new == [eth |-> eth, age |-> 0]
                       all == Append(n.rtable[ip], new)
            <4>1. n'.rtable[ip] = all
                BY <1>1, <2>3, <3>1
            <4>2. new \in Entries /\ new.age = 0
                BY LivesAssumption DEF Entries
            <4>3. /\ Len(n.rtable[ip]) \in Nat /\ Len(all) = Len(n.rtable[ip]) + 1
                  /\ all[Len(n.rtable[ip]) + 1] = new
                BY <1>1, <4>2, LenProperties, AppendProperties
            <4>4. Len(all) \in 1 .. Len(all) /\ all[Len(all)].age = 0
                BY <4>2, <4>3
            <4>5. 0 <= asked'[ip]
                BY <1>1, <2>1
            <4>6. AnswerKnown(all, asked'[ip])
                BY <4>4, <4>5 DEF AnswerKnown
            <4> QED
                BY <4>1, <4>6
        <3>2. CASE ip # a
            <4>1. n'.rtable[ip] = n.rtable[ip]
                BY <1>1, <2>3, <3>2
            <4>2. [ip |-> ip, age |-> asked[ip]] \in n.pending =>
                     [ip |-> ip, age |-> asked[ip]] \in n'.pending
                BY <2>3, <3>2
            <4> QED
                BY <1>2, <2>1, <4>1, <4>2
        <3> QED
            BY <3>1, <3>2
    <2> QED
        BY <1>4, <2>2, <2>3, RecvArpStep
<1>5. ASSUME NEW ms \in Steps, Tick(ms)
      PROVE  Kept
    <2>1. /\ ms \in Nat /\ n'.rtable[ip] = Aged(n.rtable[ip], ms)
          /\ n'.pending = PendingAged(n.pending, ms)
          /\ asked'[ip] = AtMost(asked[ip] + ms, Never)
        BY <1>5, TickStep
    <2>2. /\ RequestLife \in Nat /\ Never = RequestLife + 1
          /\ asked[ip] \in 0 .. Never
        BY <1>1, LivesAssumption DEF Never
    <2>3. /\ asked'[ip] = asked[ip] + ms
          /\ asked[ip] + ms <= RequestLife /\ asked[ip] <= RequestLife
        BY <2>1, <2>2 DEF AtMost
    <2>4. CASE [ip |-> ip, age |-> asked[ip]] \in n.pending
        BY <2>1, <2>3, <2>4 DEF PendingAged
    <2>5. CASE AnswerKnown(n.rtable[ip], asked[ip])
        <3>1. asked[ip] \in Nat
            BY <2>2
        <3>2. AnswerKnown(Aged(n.rtable[ip], ms), asked[ip] + ms)
            BY <1>1, <2>1, <2>3, <2>5, <3>1, AgedAnswer
        <3> QED
            BY <2>1, <2>3, <3>2
    <2> QED
        BY <1>2, <2>3, <2>4, <2>5
<1>6. CASE TakeReceived \/ \E frame \in Frames : RecvDatagram(frame)
    <2>1. n'.rtable = n.rtable /\ n'.pending = n.pending /\ asked' = asked
        BY <1>6, ReceivedStep
    <2> QED
        BY <1>2, <2>1
<1>7. CASE UNCHANGED vars
    <2>1. n' = n /\ asked' = asked
        BY <1>7 DEF vars
    <2> QED
        BY <1>2, <2>1
<1> QED
    BY <1>3, <1>4, <1>5, <1>6, <1>7 DEF Next

-----------------------------------------------------------------------------
(***************************************************************************)
(* The theorems.                                                           *)
(***************************************************************************)

\* The invariant holds always.
LEMMA SpecIInv == Spec => []IInv
<1>1. IInv /\ [Next]_vars => IInv'
    BY NextTypeOK, NextServed, NextInOrder, NextHeardKept, NextAskedKept DEF IInv
<1> QED
    BY InitIInv, <1>1, PTL DEF Spec

\* Every part of an interface keeps its type, no entry outlives 30 seconds, and
\* tick (network_interface.cc:107-124) erases the oldest first.
THEOREM TypeCorrect == Spec => []TypeOK
<1>1. IInv => TypeOK
    BY DEF IInv
<1> QED
    BY <1>1, SpecIInv, PTL

\* Datagrams leave for their hop once and in order, whatever ARP messages come
\* (network_interface.cc:38-46, 214-222).
THEOREM DatagramsLeaveInOrder == Spec => []SentOnceInOrder
<1>1. IInv => SentOnceInOrder
    BY DEF IInv
<1> QED
    BY <1>1, SpecIInv, PTL

\* Nothing waits for a known hop (network_interface.cc:87-91).
THEOREM NothingWaitsForKnownHop == Spec => []KnownHopsAreServed
<1>1. IInv => KnownHopsAreServed
    BY DEF IInv
<1> QED
    BY <1>1, SpecIInv, PTL

\* The table holds what was heard of in the last 30 seconds
\* (network_interface.cc:89, 107-115).
THEOREM CacheCorrect == Spec => []CacheIsWhatWasHeard
<1>1. IInv => CacheIsWhatWasHeard
    <2> SUFFICES ASSUME IInv, NEW ip \in IPs
                 PROVE  {n.rtable[ip][i].eth : i \in DOMAIN n.rtable[ip]}
                            = {eth \in Eths : heard[ip][eth] < Forgotten}
        BY DEF CacheIsWhatWasHeard
    <2>1. /\ n.rtable[ip] \in Seq(Entries)
          /\ heard[ip] \in [Eths -> 0 .. Forgotten]
          /\ EntriesMatch(n.rtable[ip], heard[ip])
        BY InterfaceFields DEF IInv, TypeOK, HeardKept
    <2>2. DOMAIN n.rtable[ip] = 1 .. Len(n.rtable[ip])
        BY <2>1, LenProperties
    <2>3. \A i \in 1 .. Len(n.rtable[ip]) :
              /\ n.rtable[ip][i].eth \in Eths
              /\ n.rtable[ip][i].age \in Nat
              /\ n.rtable[ip][i].age < EntryLife
        BY <2>1, EntryTypes
    <2>4. ASSUME NEW i \in 1 .. Len(n.rtable[ip])
          PROVE  heard[ip][n.rtable[ip][i].eth] < Forgotten
        <3>1. /\ heard[ip][n.rtable[ip][i].eth] <= n.rtable[ip][i].age
              /\ heard[ip][n.rtable[ip][i].eth] \in 0 .. Forgotten
            BY <2>1, <2>3 DEF EntriesMatch
        <3> QED
            BY <2>3, <3>1, LivesAssumption DEF Forgotten
    <2>5. ASSUME NEW eth \in Eths, heard[ip][eth] < Forgotten
          PROVE  \E i \in 1 .. Len(n.rtable[ip]) : n.rtable[ip][i].eth = eth
        BY <2>1, <2>5 DEF EntriesMatch
    <2> QED
        BY <2>2, <2>3, <2>4, <2>5
<1> QED
    BY <1>1, SpecIInv, PTL

\* Requests for one address are more than five seconds apart
\* (network_interface.cc:48-59, network_interface.hh:118).
THEOREM RequestsSpaced == Spec => RequestsAreSpaced
<1>1. ASSUME IInv, NEW dgram \in Datagrams, NEW hop \in IPs, Send(dgram, hop),
             SendDatagram(n, dgram, hop).arp # << >>
      PROVE  asked[hop] > RequestLife
    <2>1. TypeOK /\ AskedKept
        BY <1>1 DEF IInv
    <2>2. ~Knows(n, hop) /\ ~AskedRecently(n, hop)
        BY <1>1, <2>1, SendStep
    <2>3. [ip |-> hop, age |-> asked[hop]] \notin n.pending
        BY <2>2 DEF AskedRecently
    <2>4. n.rtable[hop] = << >>
        BY <2>2 DEF Knows
    <2>5. ~AnswerKnown(n.rtable[hop], asked[hop])
        BY <2>4 DEF AnswerKnown
    <2>6. ~(asked[hop] <= RequestLife)
        BY <2>1, <2>3, <2>5 DEF AskedKept
    <2> QED
        BY <2>1, <2>6, LivesAssumption DEF TypeOK, Never
<1>2. IInv /\ [Next]_vars =>
        [\A dgram \in Datagrams, hop \in IPs :
            Send(dgram, hop) /\ SendDatagram(n, dgram, hop).arp # << >>
               => asked[hop] > RequestLife]_vars
    BY <1>1
<1> QED
    BY <1>2, SpecIInv, PTL DEF Spec, RequestsAreSpaced
=============================================================================
