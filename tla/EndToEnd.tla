------------------------------ MODULE EndToEnd ------------------------------
(***************************************************************************)
(* src/apps/endtoend.cc: two programs, one on each side of a UDP relay.    *)
(* Each has a host (a TCPPeer over an adapter over a NetworkInterface), a  *)
(* Router with an interface to the host and one to the Internet, and a     *)
(* network thread whose event loop carries the frames between them:        *)
(*                                                                         *)
(*   host -- fromHost --> router -- outNet --> (net) --> the other router  *)
(*        <-- toHost -- outHost --                                         *)
(*                                                                         *)
(* The relay may lose datagrams.  The client may crash before it is        *)
(* connected and start again: at the same IP addresses, with a port, an    *)
(* ISN and Ethernet addresses of its own.                                  *)
(***************************************************************************)
EXTENDS RouterOps, TCPPeerOps, TCPOverIPOps

CONSTANTS
    Client, Server,  \* the two sides
    HostIP,          \* function: the address of each side's host
    RouterIPs,       \* function: << host_side's, internet_side's >>
    ServerPort,      \* the port the server binds to
    Starts,          \* for each start of the client what it draws at random:
                     \* its port, its ISN and its router's Ethernet address
    ServerISN, ServerEth,    \* the same for the server
    HostEth, GatewayEth,     \* both ends of the link inside a program
    Tables,          \* what add_route may have been called with on each side
    Capacity,        \* cfg_.send_capacity and recv_capacity
    Supply,          \* function: how many bytes the application of each writes
    EventMs,         \* ms that one event counts for: 10 in endtoend.cc:305
    RestMs,          \* ms that pass until a timer of a peer expires
    FaultBudget      \* bound: datagrams lost and clients crashed in all

Sides    == {Client, Server}
Other(s) == IF s = Client THEN Server ELSE Client

HostSide == 1
InternetSide == 2

Routes == [prefix : IPs, length : 0 .. AddressBits, hop : IPs \cup {NoHop},
           iface : {HostSide, InternetSide}]

\* Of the routes added, the i-th is what the network of ip is to be reached by:
\* the longest that matches and, of those added for one prefix, the last.
Matches(added, ip) ==
    {i \in DOMAIN added : IfMatch(ip, added[i].prefix, added[i].length)}
Applies(added, ip, i) ==
    /\ i \in Matches(added, ip)
    /\ \A j \in Matches(added, ip) :
          \/ added[j].length < added[i].length
          \/ added[j].length = added[i].length /\ j <= i

ASSUME EndToEndConstants ==
    /\ Client # Server
    /\ HostIP \in [Sides -> IPs] /\ RouterIPs \in [Sides -> IPs \X IPs]
    /\ ServerPort \in Nat /\ AnyAddress \in [ip : IPs, port : Nat]
    /\ Starts \in Seq([port : Nat, isn : 0 .. Modulus - 1, eth : Eths]) \ {<< >>}
    /\ ServerISN \in 0 .. Modulus - 1
    /\ {ServerEth, HostEth, GatewayEth} \subseteq Eths
    /\ Tables \subseteq [Sides -> Seq(Routes)]
    /\ Capacity \in Nat /\ Supply \in [Sides -> 0 .. Capacity]
    /\ EventMs \in Nat /\ RestMs \in Nat /\ FaultBudget \in Nat

\* A network is written one way, and that is its prefix (router.cc:24-25 would
\* keep two spellings apart); and what is for a host goes out on its side
\* (endtoend.cc:219-229).
ASSUME TablesAssumption ==
    \A table \in Tables : \A s \in Sides :
        LET added == table[s] IN
        /\ \A ip \in IPs : \A i, j \in Matches(added, ip) :
              added[i].length = added[j].length => added[i].prefix = added[j].prefix
        /\ \A t \in Sides : \A i \in DOMAIN added :
              Applies(added, HostIP[t], i) =>
                  added[i].iface = IF s = t THEN HostSide ELSE InternetSide

VARIABLES
    host,     \* host[s]: [adapter, iface, peer, connected]
    router,   \* router[s]: [ifaces, rtable], and added, the calls of add_route
    wires,    \* wires[s]: the frames in fromHost, toHost, outHost and outNet
    net,      \* net[s]: the frames under way to s's internet_socket
    start,    \* which start of the client this is
    exited,   \* the sides whose network thread has ended
    heard,    \* history: heard[s], whom s's TCPPeer had messages from
    losses    \* datagrams lost so far

vars == << host, router, wires, net, start, exited, heard, losses >>

(***************************************************************************)
(* NetworkInterfaceAdapter                                                 *)
(***************************************************************************)
\* write( msg ) for each message: the host, and the frames that leave.
WritesOne(acc, gateway, msg) ==
    LET sends == SendDatagram(acc.host.iface, WrapInIP(acc.host.adapter, msg),
                              gateway)
    IN  [host |-> [acc.host EXCEPT !.iface = sends.n],
         out  |-> acc.out \o sends.datagrams \o sends.arp]

HostWrites(h, gateway, msgs) ==
    LET wrote[i \in 0 .. Len(msgs)] ==
            IF i = 0 THEN [host |-> h, out |-> << >>]
            ELSE WritesOne(wrote[i - 1], gateway, msgs[i])
    IN  wrote[Len(msgs)]

\* Host h takes a step [peer, out] of its TCPPeer.
HostSteps(h, gateway, step) ==
    HostWrites([h EXCEPT !.peer = step.peer], gateway, step.out)

\* read() and, with a message, receive: rule 1 of the socket's event loop.
HostReads(h, gateway, frame) ==
    LET sends == Arrives(h.iface, frame)
        taken == [h EXCEPT !.iface = [sends.n EXCEPT !.received = << >>]]
        got   == UnwrapInIP(h.adapter, Head(sends.n.received))
        after == [taken EXCEPT !.adapter = got.adapter]
        done  == HostSteps(after, gateway, PeerReceive(h.peer, Head(got.msgs)))
        first == sends.datagrams \o sends.arp
    IN  IF sends.n.received = << >>
          THEN [host |-> taken, out |-> first, msgs |-> << >>]
        ELSE IF got.msgs = << >>
          THEN [host |-> after, out |-> first, msgs |-> << >>]
        ELSE [host |-> done.host, out |-> first \o done.out, msgs |-> got.msgs]

(***************************************************************************)
(* program_body: how each program begins                                   *)
(***************************************************************************)
NewHost(s, port, isn, listening) ==
    LET source == [ip |-> HostIP[s], port |-> port]
        target == [ip |-> HostIP[Server], port |-> ServerPort]
    IN  [adapter |-> NewAdapter(source, IF listening THEN AnyAddress ELSE target,
                                listening),
         iface |-> NewInterface(HostEth, HostIP[s]),
         peer |-> NewPeer(Capacity, Capacity, isn),
         connected |-> FALSE]

NewRouter(s, eth, added) ==
    [ifaces |-> << NewInterface(GatewayEth, RouterIPs[s][HostSide]),
                   NewInterface(eth, RouterIPs[s][InternetSide]) >>,
     rtable |-> AddRoutes(added), added |-> added]

NoFrames == [fromHost |-> << >>, toHost |-> << >>,
             outHost |-> << >>, outNet |-> << >>]

\* connect() sends the SYN at once.
NewClient(k) ==
    LET h == NewHost(Client, Starts[k].port, Starts[k].isn, FALSE)
    IN  HostSteps(h, RouterIPs[Client][HostSide], PeerPush(h.peer))

Init ==
    /\ host = [s \in Sides |-> IF s = Client THEN NewClient(1).host
                               ELSE NewHost(s, ServerPort, ServerISN, TRUE)]
    /\ \E added \in Tables :
          router = [s \in Sides |->
              NewRouter(s, IF s = Client THEN Starts[1].eth ELSE ServerEth,
                        added[s])]
    /\ wires = [s \in Sides |-> IF s = Server THEN NoFrames
                   ELSE [NoFrames EXCEPT !.fromHost = NewClient(1).out]]
    /\ net = [s \in Sides |-> << >>]
    /\ start = 1 /\ exited = {} /\ losses = 0
    /\ heard = [s \in Sides |-> {}]

(***************************************************************************)
(* The network thread: the first ready rule of its event loop, then tick   *)
(* of both interfaces.                                                     *)
(***************************************************************************)
Ticked(ifaces, ms) == [i \in DOMAIN ifaces |-> InterfaceTick(ifaces[i], ms)]

\* recv_frame of interface i, then route(): a step of RouterOps.
RouterTakes(r, i, frame) ==
    RouteAll(r.rtable,
             Transmits([ifaces |-> r.ifaces, out |-> << << >>, << >> >>], i,
                       Arrives(r.ifaces[i], frame)))

RouterReceives(s, i, frame, left) ==
    LET step == RouterTakes(router[s], i, frame)
    IN  /\ router' = [router EXCEPT ![s].ifaces = Ticked(step.ifaces, EventMs)]
        /\ wires' = [wires EXCEPT ![s] =
                [left EXCEPT !.outHost = @ \o step.out[HostSide],
                             !.outNet = @ \o step.out[InternetSide]]]

RouterOnlyTicks(s) ==
    router' = [router EXCEPT ![s].ifaces = Ticked(@, EventMs)]

MayHostToRouter(s)     == s \notin exited /\ wires[s].fromHost # << >>
MayRouterToHost(s)     == s \notin exited /\ wires[s].outHost # << >>
MayRouterToInternet(s) == s \notin exited /\ wires[s].outNet # << >>
MayInternetToRouter(s) == s \notin exited /\ net[s] # << >>

HostToRouter(s) ==
    /\ MayHostToRouter(s)
    /\ RouterReceives(s, HostSide, Head(wires[s].fromHost),
                      [wires[s] EXCEPT !.fromHost = Tail(@)])
    /\ UNCHANGED << host, net, start, exited, heard, losses >>

RouterToHost(s) ==
    /\ MayRouterToHost(s) /\ ~MayHostToRouter(s)
    /\ wires' = [wires EXCEPT ![s].outHost = Tail(@),
                    ![s].toHost = Append(@, Head(wires[s].outHost))]
    /\ RouterOnlyTicks(s)
    /\ UNCHANGED << host, net, start, exited, heard, losses >>

RouterToInternet(s) ==
    /\ MayRouterToInternet(s) /\ ~MayHostToRouter(s) /\ ~MayRouterToHost(s)
    /\ wires' = [wires EXCEPT ![s].outNet = Tail(@)]
    /\ net' = [net EXCEPT ![Other(s)] = Append(@, Head(wires[s].outNet))]
    /\ RouterOnlyTicks(s)
    /\ UNCHANGED << host, start, exited, heard, losses >>

InternetToRouter(s) ==
    /\ MayInternetToRouter(s) /\ ~MayHostToRouter(s)
    /\ ~MayRouterToHost(s) /\ ~MayRouterToInternet(s)
    /\ net' = [net EXCEPT ![s] = Tail(@)]
    /\ RouterReceives(s, InternetSide, Head(net[s]), wires[s])
    /\ UNCHANGED << host, start, exited, heard, losses >>

NetworkThread(s) ==
    \/ HostToRouter(s)
    \/ RouterToHost(s)
    \/ RouterToInternet(s)
    \/ InternetToRouter(s)

MayNetworkThread(s) ==
    \/ MayHostToRouter(s) \/ MayRouterToHost(s)
    \/ MayRouterToInternet(s) \/ MayInternetToRouter(s)

(***************************************************************************)
(* The host's thread                                                       *)
(***************************************************************************)
Peer(s)    == host[s].peer
Gateway(s) == RouterIPs[s][HostSide]

MayReceive(s) == Active(Peer(s)) /\ wires[s].toHost # << >>

HostReceives(s) ==
    /\ MayReceive(s)
    /\ LET frame == Head(wires[s].toHost)
           step  == HostReads(host[s], Gateway(s), frame)
       IN  /\ host' = [host EXCEPT ![s] = step.host]
           /\ wires' = [wires EXCEPT ![s].toHost = Tail(@),
                                     ![s].fromHost = @ \o step.out]
           /\ heard' = IF step.msgs = << >> THEN heard
                       ELSE [heard EXCEPT ![s] = @ \cup
                               {[ip |-> frame.dgram.src, port |-> frame.dgram.sport]}]
    /\ UNCHANGED << router, net, start, exited, losses >>

\* The loops of connect and of listen_and_accept end.
MayConnect(s) ==
    /\ ~host[s].connected
    /\ IF s = Client THEN InFlight(Peer(s).sender) # 1
                     ELSE HasAckno(Peer(s)) /\ InFlight(Peer(s).sender) = 0

Connects(s) ==
    /\ MayConnect(s)
    /\ host' = [host EXCEPT ![s].connected = TRUE]
    /\ UNCHANGED << router, wires, net, start, exited, heard, losses >>

\* Rule 2: the application's bytes, each the number of its program's port, and,
\* when they are acknowledged, the end of its stream.
MaySpeak(s) ==
    LET input == Peer(s).sender.input IN
    /\ host[s].connected /\ Active(Peer(s))
    /\ ~input.closed
    /\ input.pushed = Supply[s] => InFlight(Peer(s).sender) = 0

Speaks(s) ==
    LET input == Peer(s).sender.input
        bytes == [i \in 1 .. Supply[s] |-> host[s].adapter.source.port]
        next  == IF input.pushed < Supply[s] THEN Push(input, bytes)
                 ELSE Close(input)
        sent  == HostSteps(host[s], Gateway(s),
                     PeerPush([Peer(s) EXCEPT !.sender.input = next]))
    IN  /\ MaySpeak(s)
        /\ host' = [host EXCEPT ![s] = sent.host]
        /\ wires' = [wires EXCEPT ![s].fromHost = @ \o sent.out]
        /\ UNCHANGED << router, net, start, exited, heard, losses >>

\* Time passes only when nothing is under way, until a timer of a peer expires:
\* _tcp_loop calls tick of the peer and then of the adapter, and the network
\* threads that of their interfaces.
AtRest ==
    \A s \in Sides : ~MayNetworkThread(s) /\ ~MayReceive(s)

MayExpire(s) == AtRest /\ Active(Peer(s)) /\ Peer(s).sender.running

TimerExpires(s) ==
    LET sent == HostSteps(host[s], Gateway(s), PeerTick(Peer(s)))
    IN  /\ MayExpire(s)
        /\ host' = [t \in Sides |->
               LET h == IF t = s THEN sent.host ELSE host[t]
               IN  IF Active(Peer(t))
                     THEN [h EXCEPT !.iface = InterfaceTick(h.iface, RestMs)]
                     ELSE h]
        /\ router' = [t \in Sides |->
               IF t \in exited THEN router[t]
               ELSE [router[t] EXCEPT !.ifaces = Ticked(@, RestMs)]]
        /\ wires' = [wires EXCEPT ![s].fromHost = @ \o sent.out]
        /\ UNCHANGED << net, start, exited, heard, losses >>

\* Ten timeouts without a message: after one fault the partner has had its
\* answers by then.  TCPConnection follows the time, and bears three.
MayLeave(s) ==
    /\ AtRest
    /\ ~SenderActive(Peer(s)) /\ ~ReceiverActive(Peer(s)) /\ Lingering(Peer(s))
    /\ InFlight(Peer(Other(s)).sender) = 0

LingerExpires(s) ==
    /\ MayLeave(s)
    /\ host' = [host EXCEPT ![s].peer.quiet = TRUE]
    /\ UNCHANGED << router, wires, net, start, exited, heard, losses >>

\* wait_until_closed has returned: exit_flag ends the network thread, whatever
\* frames it still has.
MayExit(s) == ~Active(Peer(s)) /\ s \notin exited

Exits(s) ==
    /\ MayExit(s)
    /\ exited' = exited \cup {s}
    /\ UNCHANGED << host, router, wires, net, start, heard, losses >>

(***************************************************************************)
(* Faults                                                                  *)
(***************************************************************************)
Lose(s) ==
    /\ net[s] # << >> /\ losses + start <= FaultBudget
    /\ net' = [net EXCEPT ![s] = Tail(@)]
    /\ losses' = losses + 1
    /\ UNCHANGED << host, router, wires, start, exited, heard >>

\* Before it is connected, the client crashes and is started again.
Restarts ==
    /\ ~host[Client].connected
    /\ start < Len(Starts) /\ losses + start <= FaultBudget
    /\ start' = start + 1
    /\ host' = [host EXCEPT ![Client] = NewClient(start + 1).host]
    /\ router' = [router EXCEPT ![Client] =
                     NewRouter(Client, Starts[start + 1].eth, @.added)]
    /\ wires' = [wires EXCEPT ![Client] =
                    [NoFrames EXCEPT !.fromHost = NewClient(start + 1).out]]
    /\ net' = [net EXCEPT ![Client] = << >>]
    /\ heard' = [heard EXCEPT ![Client] = {}]
    /\ UNCHANGED << exited, losses >>

Done == exited = Sides /\ UNCHANGED vars

Next ==
    \/ \E s \in Sides :
          \/ NetworkThread(s)
          \/ HostReceives(s)
          \/ Connects(s)
          \/ Speaks(s)
          \/ TimerExpires(s)
          \/ LingerExpires(s)
          \/ Exits(s)
          \/ Lose(s)
    \/ Restarts
    \/ Done

\* Threads run, timers expire, and applications write and close: weak fairness
\* of every action but the faults.  That of the actions that run a peer or a
\* router is written out with the guard each is enabled by, for TLC.
Fairness ==
    \A s \in Sides :
        /\ WF_vars(Connects(s)) /\ WF_vars(LingerExpires(s)) /\ WF_vars(Exits(s))
        /\ []<>(~MayNetworkThread(s)) \/ []<><<NetworkThread(s)>>_vars
        /\ []<>(~MayReceive(s))       \/ []<><<HostReceives(s)>>_vars
        /\ []<>(~MaySpeak(s))         \/ []<><<Speaks(s)>>_vars
        /\ []<>(~MayExpire(s))        \/ []<><<TimerExpires(s)>>_vars

Spec == Init /\ [][Next]_vars /\ Fairness

-----------------------------------------------------------------------------
Datagrams(frames) == {frames[i].dgram : i \in {j \in DOMAIN frames :
                                                  frames[j].type = "IPv4"}}

\* Every queue holds frames whose datagrams, if any, have a time to live, and
\* no interface keeps a datagram that route() or read() should have taken.
TypeOK ==
    \A s \in Sides :
        /\ start \in DOMAIN Starts /\ losses \in 0 .. FaultBudget
        /\ \A q \in {wires[s].fromHost, wires[s].outHost, wires[s].outNet,
                     wires[s].toHost, net[s]} :
              \A d \in Datagrams(q) : d.ttl \in 1 .. InitialTTL
        /\ \A n \in {host[s].iface} \cup {router[s].ifaces[i] : i \in 1 .. 2} :
              /\ n.received = << >>
              /\ \A ip \in IPs : \A i \in DOMAIN n.rtable[ip] :
                    n.rtable[ip][i].age < EntryLife

\* The route taken is the longest that matches and, of those added for one
\* prefix, the last (router.hh: "add a route", router.cc:24-34, 66-75).
RouteIsLongestAndLast ==
    \A s \in Sides : \A ip \in IPs :
        LET added == router[s].added
            best  == BestMatch(router[s].rtable, ip)
        IN  IF Matches(added, ip) = {} THEN best = << >>
            ELSE \E i \in DOMAIN added :
                    Applies(added, ip, i) /\ best = << added[i] >>

\* What reaches a host is meant for it and has passed two routers, its
\* partner's and its own: no route leads astray or back.
TwoRoutersOnTheWay ==
    \A s \in Sides : \A d \in Datagrams(wires[s].toHost) :
        /\ d.dst = HostIP[s]
        /\ d.ttl = InitialTTL - 2

\* A TCPPeer hears of one partner only: the start of the client whose SYN the
\* server took first, whatever is still under way from another one
\* (tcp_over_ip.cc:30-70).
OnePartner ==
    \A s \in Sides :
        \/ heard[s] = {}
        \/ heard[s] = {host[s].adapter.destination}

\* Both programs end, with all that each wrote delivered to the other, however
\* many requests, answers and segments are lost and mappings out of date
\* -- unless the server has taken the SYN of a client that is no more: it has
\* no way to learn that, and the new client no way to reach it.
TakenByTheDead ==
    /\ ~host[Server].adapter.listening
    /\ host[Server].adapter.destination # host[Client].adapter.source

Delivered ==
    \A s \in Sides :
        /\ s \in exited
        /\ Inbound(Peer(s)).closed
        /\ Inbound(Peer(s)).buf = [i \in 1 .. Supply[Other(s)] |->
                                      host[s].adapter.destination.port]

ConversationEnds == <>[]Delivered \/ <>[]TakenByTheDead
=============================================================================
