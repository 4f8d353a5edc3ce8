---------------------------- MODULE TCPOverIPOps ----------------------------
(***************************************************************************)
(* src/util/tcp_over_ip.cc as operators over one record, the adapter:      *)
(*                                                                         *)
(*   source, destination   config(): each an [ip, port]                    *)
(*   listening             listening()                                     *)
(*                                                                         *)
(* A datagram is a record: the header's src, dst and ttl, the ttl its      *)
(* checksum was computed for (sum), whether its payload claims to be and   *)
(* is a TCP segment (tcp), and that segment's ports and message.           *)
(***************************************************************************)
EXTENDS Naturals, Sequences

CONSTANTS
    InitialTTL,    \* IPv4Header::DEFAULT_TTL
    AnyAddress     \* Address { "0", 0 }, what an FdAdapterConfig begins with

ASSUME TTLAssumption == InitialTTL \in Nat \ {0}       \* 128

NewAdapter(source, destination, listening) ==
    [source |-> source, destination |-> destination, listening |-> listening]

\* TCPSegment::serialize has one RST flag, which parse gives to both halves.
OnTheWire(msg) ==
    LET rst == msg.sender.RST \/ msg.receiver.RST
    IN  [msg EXCEPT !.sender.RST = rst, !.receiver.RST = rst]

(***************************************************************************)
(* wrap_tcp_in_ip( msg )                                                   *)
(***************************************************************************)
WrapInIP(a, msg) ==
    [src |-> a.source.ip, dst |-> a.destination.ip,
     ttl |-> InitialTTL, sum |-> InitialTTL, tcp |-> TRUE,
     sport |-> a.source.port, dport |-> a.destination.port,
     msg |-> OnTheWire(msg)]

(***************************************************************************)
(* unwrap_tcp_in_ip( ip_dgram ): the adapter, and the message if there is  *)
(* one.  A listener takes the other end of its first SYN as its peer.      *)
(***************************************************************************)
OfThisPair(a, d) == d.dst = a.source.ip /\ d.src = a.destination.ip
Opens(d)         == d.msg.sender.SYN /\ ~d.msg.sender.RST

Targets(a, d) ==
    [source      |-> [ip |-> d.dst, port |-> a.source.port],
     destination |-> [ip |-> d.src, port |-> d.sport],
     listening   |-> FALSE]

UnwrapAnyPort(a, d) ==           \* mutant: never looks at the sender's port
    LET b == IF a.listening THEN Targets(a, d) ELSE a
    IN  IF /\ a.listening \/ OfThisPair(a, d)
           /\ d.tcp /\ d.dport = a.source.port
           /\ a.listening => Opens(d)
          THEN [adapter |-> b, msgs |-> << d.msg >>]
          ELSE [adapter |-> a, msgs |-> << >>]
UnwrapInIP(a, d) ==
    LET b == IF a.listening THEN Targets(a, d) ELSE a
    IN  IF /\ a.listening \/ OfThisPair(a, d)
           /\ d.tcp /\ d.dport = a.source.port
           /\ a.listening => Opens(d)
           /\ d.sport = b.destination.port
          THEN [adapter |-> b, msgs |-> << d.msg >>]
          ELSE [adapter |-> a, msgs |-> << >>]
=============================================================================
