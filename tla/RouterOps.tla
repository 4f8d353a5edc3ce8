----------------------------- MODULE RouterOps -----------------------------
(***************************************************************************)
(* src/src/router.cc as operators over one record                          *)
(*                                                                         *)
(*   ifaces   _interfaces, records of NetworkInterfaceOps                  *)
(*   rtable   rtable_, a sequence of [prefix, length, hop, iface], hop     *)
(*            being NoHop for a network that is attached directly          *)
(*                                                                         *)
(* An IP address is a number of AddressBits bits.  A datagram has at least *)
(* dst, ttl and sum, the ttl its header checksum was computed for.         *)
(***************************************************************************)
EXTENDS NetworkInterfaceOps

CONSTANTS
    AddressBits,   \* 32
    NoHop          \* an empty optional<Address>

ASSUME AddressAssumption ==
    AddressBits \in Nat \ {0} /\ IPs = 0 .. 2 ^ AddressBits - 1 /\ NoHop \notin IPs

(***************************************************************************)
(* add_route.  A route with the same prefix, written the same way, is      *)
(* replaced where it stands.                                               *)
(***************************************************************************)
Route(prefix, length, hop, iface) ==
    [prefix |-> prefix, length |-> length, hop |-> hop, iface |-> iface]

SamePrefix(rtable, route) ==
    {i \in DOMAIN rtable : /\ rtable[i].prefix = route.prefix
                           /\ rtable[i].length = route.length}

AddRoute(rtable, route) ==
    LET same  == SamePrefix(rtable, route)
        first == CHOOSE i \in same : \A j \in same : i <= j
    IN  IF same = {} THEN Append(rtable, route)
                     ELSE [rtable EXCEPT ![first] = route]

AddRoutes(routes) ==
    LET table[i \in 0 .. Len(routes)] ==
            IF i = 0 THEN << >> ELSE AddRoute(table[i - 1], routes[i])
    IN  table[Len(routes)]

(***************************************************************************)
(* What recv_frame makes of an IPv4 frame.                                 *)
(***************************************************************************)
\* InternetDatagram's parse puts the checksum right that it finds wrong, and
\* says so to a caller (recv_frame) that does not ask.
DropsWrongSum(n, frame) ==       \* mutant: recv_frame asks
    IF frame.type = "IPv4" /\ frame.dgram.sum # frame.dgram.ttl
      THEN [n |-> n, datagrams |-> << >>, arp |-> << >>]
      ELSE RecvFrame(n, frame)
Arrives(n, frame) ==
    RecvFrame(n, IF frame.type = "IPv4"
                   THEN [frame EXCEPT !.dgram.sum = frame.dgram.ttl]
                   ELSE frame)

(***************************************************************************)
(* route().  The scan keeps the first of the longest matches.              *)
(***************************************************************************)
\* The mask is shifted by the word's size less the length; a machine shifts by
\* that modulo the size, so that a length of 0 would clear no bit at all.
Cleared(length) == 2 ^ ((AddressBits - length) % AddressBits)

IfMatchShifts(ip, prefix, length) ==   \* mutant: length 0 is not told apart
    ip \div Cleared(length) = prefix \div Cleared(length)
IfMatch(ip, prefix, length) ==
    length = 0 \/ ip \div Cleared(length) = prefix \div Cleared(length)

LongerMatches(best, e, ip) ==
    /\ IfMatch(ip, e.prefix, e.length)
    /\ best = << >> \/ e.length > best[1].length

BestMatch(rtable, ip) ==         \* << >>, or the entry on its own
    LET best[i \in 0 .. Len(rtable)] ==
            IF i = 0 THEN << >>
            ELSE IF LongerMatches(best[i - 1], rtable[i], ip) THEN << rtable[i] >>
            ELSE best[i - 1]
    IN  best[Len(rtable)]

\* A step of the router is [ifaces, out]: out[i] is what interface i has
\* transmitted, in order.
Transmits(step, i, sends) ==
    [step EXCEPT !.ifaces = [step.ifaces EXCEPT ![i] = sends.n],
                 !.out = [step.out EXCEPT ![i] =
                             step.out[i] \o sends.datagrams \o sends.arp]]

\* One datagram from the queue of an interface: line 59 drops it, line 77
\* sends it on, and without a match it is dropped as well.
ForwardKeepsTTL(rtable, step, dgram) ==      \* mutant: the TTL is not reduced
    LET best == BestMatch(rtable, dgram.dst)
        hop  == IF best[1].hop = NoHop THEN dgram.dst ELSE best[1].hop
    IN  IF dgram.ttl <= 1 \/ best = << >> THEN step
        ELSE Transmits(step, best[1].iface,
                       SendDatagram(step.ifaces[best[1].iface], dgram, hop))
Forward(rtable, step, dgram) ==
    LET best == BestMatch(rtable, dgram.dst)
        hop  == IF best[1].hop = NoHop THEN dgram.dst ELSE best[1].hop
    IN  IF dgram.ttl <= 1 \/ best = << >> THEN step
        ELSE Transmits(step, best[1].iface,
                       SendDatagram(step.ifaces[best[1].iface],
                                    [dgram EXCEPT !.ttl = @ - 1], hop))

\* All that interface i has received, and so all interfaces in turn.
RouteFrom(rtable, step, i) ==
    LET queue == step.ifaces[i].received
        sent[j \in 0 .. Len(queue)] ==
            IF j = 0 THEN step ELSE Forward(rtable, sent[j - 1], queue[j])
    IN  [sent[Len(queue)] EXCEPT !.ifaces[i].received = << >>]

RouteAll(rtable, step) ==
    LET sent[i \in 0 .. Len(step.ifaces)] ==
            IF i = 0 THEN step ELSE RouteFrom(rtable, sent[i - 1], i)
    IN  sent[Len(step.ifaces)]
=============================================================================
