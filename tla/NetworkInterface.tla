-------------------------- MODULE NetworkInterface --------------------------
(***************************************************************************)
(* One NetworkInterface (src/src/network_interface.cc) at work: a customer *)
(* that sends datagrams to any hop and takes what was received, a clock,   *)
(* and a wire on which any frame may come: late, repeated or unasked ARP   *)
(* messages, hosts that have changed their Ethernet address, and frames    *)
(* for others.                                                             *)
(***************************************************************************)
EXTENDS NetworkInterfaceOps

CONSTANTS
    Datagrams,       \* what an InternetDatagram can be
    OwnEth, OwnIP,   \* the interface's addresses
    Steps,           \* the times, in ms, that one tick may report
    MaxSent,         \* bound: datagrams sent to one hop
    MaxEntries,      \* bound: entries for one address at a time
    MaxReceived      \* bound: datagrams received and not yet taken

ASSUME OwnAssumption == OwnEth \in Eths /\ OwnIP \in IPs
ASSUME StepsAssumption == Steps \subseteq Nat
ASSUME BoundsAssumption ==
    MaxSent \in Nat /\ MaxEntries \in Nat /\ MaxReceived \in Nat

VARIABLES
    n,       \* the record of NetworkInterfaceOps
    sent,    \* history: the datagrams given to send_datagram for each hop
    gone,    \* history: the datagrams transmitted for each hop
    asked,   \* history: time since the last ARP request for each address
    heard    \* history: time since an ARP message paired each two addresses

vars == << n, sent, gone, asked, heard >>

Never == RequestLife + 1   \* no request for longer than RequestLife
Forgotten == EntryLife     \* not heard of for EntryLife

AtMost(a, b) == IF a < b THEN a ELSE b

Frames == {DatagramFrame(d, e) : d \in Datagrams, e \in Eths}
             \cup {ArpFrame(dst, a) : dst \in Eths \cup {Broadcast}, a \in Arps}

Init ==
    /\ n = NewInterface(OwnEth, OwnIP)
    /\ sent = [ip \in IPs |-> << >>]
    /\ gone = [ip \in IPs |-> << >>]
    /\ asked = [ip \in IPs |-> Never]
    /\ heard = [ip \in IPs |-> [eth \in Eths |-> Forgotten]]

Payloads(frames) == [i \in DOMAIN frames |-> frames[i].dgram]

Send(dgram, hop) ==
    LET s == SendDatagram(n, dgram, hop)
    IN  /\ Len(sent[hop]) < MaxSent
        /\ n' = s.n
        /\ sent' = [sent EXCEPT ![hop] = Append(@, dgram)]
        /\ gone' = [gone EXCEPT ![hop] = @ \o Payloads(s.datagrams)]
        /\ asked' = IF s.arp = << >> THEN asked ELSE [asked EXCEPT ![hop] = 0]
        /\ UNCHANGED heard

RecvDatagram(frame) ==
    /\ frame.type = "IPv4"
    /\ Len(n.received) < MaxReceived
    /\ n' = RecvFrame(n, frame).n
    /\ UNCHANGED << sent, gone, asked, heard >>

RecvArp(frame) ==
    LET s == RecvFrame(n, frame)
        ip == frame.arp.senderIP
        eth == frame.arp.senderEth
    IN  /\ frame.type = "ARP"
        /\ Len(n.rtable[ip]) < MaxEntries
        /\ n' = s.n
        /\ gone' = [gone EXCEPT ![ip] = @ \o Payloads(s.datagrams)]
        /\ heard' = IF ForUs(n, frame)
                      THEN [heard EXCEPT ![ip] = [@ EXCEPT ![eth] = 0]]
                      ELSE heard
        /\ UNCHANGED << sent, asked >>

Tick(ms) ==
    /\ n' = InterfaceTick(n, ms)
    /\ asked' = [ip \in IPs |-> AtMost(asked[ip] + ms, Never)]
    /\ heard' = [ip \in IPs |->
                    [eth \in Eths |-> AtMost(heard[ip][eth] + ms, Forgotten)]]
    /\ UNCHANGED << sent, gone >>

\* The customer takes a datagram from datagrams_received().
TakeReceived ==
    /\ n.received # << >>
    /\ n' = [n EXCEPT !.received = Tail(@)]
    /\ UNCHANGED << sent, gone, asked, heard >>

Next ==
    \/ \E dgram \in Datagrams, hop \in IPs : Send(dgram, hop)
    \/ \E frame \in Frames : RecvDatagram(frame)
    \/ \E frame \in Frames : RecvArp(frame)
    \/ \E ms \in Steps : Tick(ms)
    \/ TakeReceived

Spec == Init /\ [][Next]_vars

-----------------------------------------------------------------------------
Interfaces ==
    [eth : {OwnEth}, ip : {OwnIP},
     rtable : [IPs -> Seq(Entries)], pending : SUBSET Requests,
     queued : [IPs -> Seq(Datagrams)], received : Seq(Datagrams)]

\* Every part has its type.  No entry outlives EntryLife and no request
\* RequestLife, and the ages of an address's entries fall along the deque, so
\* that those tick erases are the first (network_interface.cc:107-124).
TypeOK ==
    /\ n \in Interfaces
    /\ \A ip \in IPs : AgesFall(n.rtable[ip])
    /\ sent \in [IPs -> Seq(Datagrams)]
    /\ gone \in [IPs -> Seq(Datagrams)]
    /\ asked \in [IPs -> 0 .. Never]
    /\ heard \in [IPs -> [Eths -> 0 .. Forgotten]]

\* Whatever is learned, repeated or forgotten meanwhile, a hop's datagrams are
\* transmitted once and in the order they were sent; what is not transmitted
\* yet is queued (network_interface.cc:38-46, 214-222).
SentOnceInOrder == \A hop \in IPs : gone[hop] \o n.queued[hop] = sent[hop]

\* Nothing waits for a hop that is known, and no request is kept for one: an
\* ARP message of any kind ends the wait (network_interface.cc:87-91), and an
\* entry expires only when nothing waits behind it.
KnownHopsAreServed ==
    \A ip \in IPs : Knows(n, ip) => n.queued[ip] = << >> /\ ~AskedRecently(n, ip)

\* An interface knows an address for as long as it was heard of less than 30
\* seconds ago, whichever of its entries came first
\* (network_interface.cc:107-115): those are the addresses in its table.
CacheIsWhatWasHeard ==
    \A ip \in IPs :
        {n.rtable[ip][i].eth : i \in DOMAIN n.rtable[ip]}
            = {eth \in Eths : heard[ip][eth] < Forgotten}

\* Two requests for one address are more than five seconds apart
\* (network_interface.cc:48-54, network_interface.hh:118), also when an answer
\* and the end of its entry lie between them.
RequestsAreSpaced ==
    [][\A dgram \in Datagrams, hop \in IPs :
          Send(dgram, hop) /\ SendDatagram(n, dgram, hop).arp # << >>
             => asked[hop] > RequestLife]_vars
=============================================================================
