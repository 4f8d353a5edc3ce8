------------------------ MODULE NetworkInterfaceOps ------------------------
(***************************************************************************)
(* src/src/network_interface.cc as operators over one record               *)
(*                                                                         *)
(*   eth, ip   ethernet_address_, ip_address_                              *)
(*   rtable    rtable_: for each IP address the [eth, age] entries learned *)
(*             for it, the oldest first                                    *)
(*   pending   pending_arp_reqs_, a set of [ip, age]                       *)
(*   queued    datagrams_queued_: for each hop what waits for it, in order *)
(*   received  datagrams_received_                                         *)
(*                                                                         *)
(* The code keeps the first three in deques that it only ever searches for *)
(* one address, so that each address's own entries in their order are all  *)
(* that matters.  A frame carries what recv_frame reads: dst and type, and *)
(* a datagram or an ARP message.  An operation that transmits returns      *)
(* [n, datagrams, arp]: the datagrams' frames leave first, in their order. *)
(***************************************************************************)
EXTENDS Integers, Sequences, FiniteSets

CONSTANTS
    IPs,          \* IP addresses
    Eths,         \* Ethernet addresses that ARP messages carry
    Broadcast,    \* ETHERNET_BROADCAST
    ZeroEth,      \* ETHERNET_ZERO
    EntryLife,    \* rtable_entry_expire_time_
    RequestLife   \* pending_arp_req_expire_time_

ASSUME LivesAssumption ==
    /\ EntryLife \in Nat /\ RequestLife \in Nat
    /\ RequestLife < EntryLife             \* 5 and 30 seconds in the code
ASSUME BroadcastAssumption == Broadcast \notin Eths

Arps     == [opcode : {"REQUEST", "REPLY"}, senderIP : IPs, senderEth : Eths,
             targetIP : IPs]
Entries  == [eth : Eths, age : 0 .. EntryLife - 1]
Requests == [ip : IPs, age : 0 .. RequestLife]

\* An address's entries, the oldest first.
AgesFall(entries) ==
    \A i, j \in DOMAIN entries : i <= j => entries[i].age >= entries[j].age

NewInterface(eth, ip) ==
    [eth |-> eth, ip |-> ip, rtable |-> [a \in IPs |-> << >>], pending |-> {},
     queued |-> [a \in IPs |-> << >>], received |-> << >>]

(***************************************************************************)
(* Frames                                                                  *)
(***************************************************************************)
DatagramFrame(dgram, eth) == [dst |-> eth, type |-> "IPv4", dgram |-> dgram]

\* pack_arp: what is meant for the zero address is broadcast.
ArpFrame(dst, arp) == [dst |-> dst, type |-> "ARP", arp |-> arp]
PackArp(target, arp) ==
    ArpFrame(IF target = ZeroEth THEN Broadcast ELSE target, arp)

ArpRequest(n, query) ==
    PackArp(ZeroEth, [opcode |-> "REQUEST", senderIP |-> n.ip,
                      senderEth |-> n.eth, targetIP |-> query])
ArpReply(n, request) ==
    PackArp(request.senderEth, [opcode |-> "REPLY", senderIP |-> n.ip,
                                senderEth |-> n.eth,
                                targetIP |-> request.senderIP])

(***************************************************************************)
(* send_datagram( dgram, next_hop )                                        *)
(***************************************************************************)
Knows(n, ip) == n.rtable[ip] # << >>
NeverAsked(n, ip) == FALSE              \* mutant: does not look for a request
AskedRecently(n, ip) == \E r \in n.pending : r.ip = ip

SendDatagram(n, dgram, hop) ==
    LET queues == [n EXCEPT !.queued = [n.queued EXCEPT ![hop] = Append(@, dgram)]]
    IN  IF Knows(n, hop)
          THEN [n |-> n,
                datagrams |-> << DatagramFrame(dgram, n.rtable[hop][1].eth) >>,
                arp |-> << >>]
        ELSE IF AskedRecently(n, hop)
          THEN [n |-> queues, datagrams |-> << >>, arp |-> << >>]
        ELSE [n |-> [queues EXCEPT !.pending = @ \cup {[ip |-> hop, age |-> 0]}],
              datagrams |-> << >>, arp |-> << ArpRequest(n, hop) >>]

(***************************************************************************)
(* recv_frame( frame )                                                     *)
(***************************************************************************)
LearnsOnce(n, ip, eth) ==       \* mutant: a known address is not learned again
    IF Knows(n, ip) THEN n
    ELSE [n EXCEPT !.rtable = [n.rtable EXCEPT ![ip] = Append(@, [eth |-> eth, age |-> 0])]]
Learns(n, ip, eth) ==
    [n EXCEPT !.rtable = [n.rtable EXCEPT ![ip] = Append(@, [eth |-> eth, age |-> 0])]]

\* flush_pending: the interface, and the frames of what waited for ip.
FlushedQueueStays(n, ip) ==     \* mutant: transmits without erasing
    [n EXCEPT !.pending = {r \in @ : r.ip # ip}]
FlushedRequestStays(n, ip) ==   \* mutant: does not erase the request
    [n EXCEPT !.queued = [n.queued EXCEPT ![ip] = << >>]]
Flushed(n, ip) ==
    [n EXCEPT !.pending = {r \in @ : r.ip # ip},
              !.queued = [n.queued EXCEPT ![ip] = << >>]]
FlushedFrames(n, ip, eth) ==
    [i \in DOMAIN n.queued[ip] |-> DatagramFrame(n.queued[ip][i], eth)]

ReplyTo(n, arp) ==
    IF arp.opcode = "REQUEST" /\ arp.targetIP = n.ip
      THEN << ArpReply(n, arp) >> ELSE << >>

ForUs(n, frame) == frame.dst \in {Broadcast, n.eth}

RecvFrame(n, frame) ==
    IF ~ForUs(n, frame)
      THEN [n |-> n, datagrams |-> << >>, arp |-> << >>]
    ELSE IF frame.type = "IPv4"
      THEN [n |-> [n EXCEPT !.received = Append(@, frame.dgram)],
            datagrams |-> << >>, arp |-> << >>]
    ELSE LET ip == frame.arp.senderIP
             eth == frame.arp.senderEth
         IN  [n |-> Flushed(Learns(n, ip, eth), ip),
              datagrams |-> FlushedFrames(n, ip, eth),
              arp |-> ReplyTo(n, frame.arp)]

(***************************************************************************)
(* tick( ms ).  Entries of one address grow old together, so that those    *)
(* that expire are the first ones.                                         *)
(***************************************************************************)
ExpiredLate(entries, ms) ==     \* mutant: > instead of >=
    Cardinality({i \in DOMAIN entries : entries[i].age + ms > EntryLife})
Expired(entries, ms) ==
    Cardinality({i \in DOMAIN entries : entries[i].age + ms >= EntryLife})
Aged(entries, ms) ==
    [i \in 1 .. Len(entries) - Expired(entries, ms) |->
        LET e == entries[i + Expired(entries, ms)]
        IN  [eth |-> e.eth, age |-> e.age + ms]]

PendingAged(pending, ms) ==
    {[ip |-> r.ip, age |-> r.age + ms] :
        r \in {q \in pending : q.age + ms <= RequestLife}}

InterfaceTick(n, ms) ==
    [n EXCEPT !.rtable = [ip \in IPs |-> Aged(@[ip], ms)],
              !.pending = PendingAged(@, ms)]
=============================================================================
