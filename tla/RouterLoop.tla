----------------------------- MODULE RouterLoop -----------------------------
(***************************************************************************)
(* Routers of src/src/router.cc that share their links, as those of        *)
(* src/tests/router.cc share a NetworkSegment: a frame that an interface   *)
(* transmits reaches every other interface on the link.  add_route may be  *)
(* called at any time and with any route: the same network may be written  *)
(* in several ways, a route may be put right later, and routes may lead in *)
(* a loop or to nobody.  Datagrams come in from hosts on the links.        *)
(***************************************************************************)
EXTENDS RouterOps

CONSTANTS
    Routers,
    LinkCount,   \* every router has an interface on each link
    Address,     \* function: the IP address of each router on each link
    EthOf,       \* function: its Ethernet address there
    Programs,    \* what may be called: functions, the calls of add_route on
                 \* each router in their order
    Arriving     \* the datagrams that come in, one after the other

Links == 1 .. LinkCount

ASSUME RouterLoopConstants ==
    /\ LinkCount \in Nat \ {0}
    /\ Address \in [Routers -> [Links -> IPs]]
    /\ EthOf \in [Routers -> [Links -> Eths]]
    /\ Programs \subseteq [Routers -> Seq([prefix : IPs, length : 0 .. AddressBits,
                                           hop : IPs \cup {NoHop}, iface : Links])]
    /\ Arriving \in Seq([dst : IPs, ttl : Nat, sum : Nat])

VARIABLES
    router,   \* router[r]: [ifaces, rtable], and the calls of add_route: those
              \* made, added, and those still to be made, calls
    net,      \* net[r][l]: the frames under way to r's interface on link l
    come      \* how many of Arriving have come in

vars == << router, net, come >>

Init ==
    /\ \E program \in Programs :
          router = [r \in Routers |->
              [ifaces |-> [l \in Links |-> NewInterface(EthOf[r][l], Address[r][l])],
               rtable |-> << >>, added |-> << >>, calls |-> program[r]]]
    /\ net = [r \in Routers |-> [l \in Links |-> << >>]]
    /\ come = 0

CallsAddRoute(r) ==
    /\ router[r].calls # << >>
    /\ LET route == Head(router[r].calls) IN
          router' = [router EXCEPT ![r].rtable = AddRoute(@, route),
                                   ![r].added = Append(@, route),
                                   ![r].calls = Tail(@)]
    /\ UNCHANGED << net, come >>

\* A host on a link gives the next datagram to a router.
Enters(r, l) ==
    /\ come < Len(Arriving)
    /\ come' = come + 1
    /\ net' = [net EXCEPT ![r][l] =
                  Append(@, DatagramFrame(Arriving[come + 1], EthOf[r][l]))]
    /\ UNCHANGED router

Nothing(r) == [ifaces |-> router[r].ifaces, out |-> [l \in Links |-> << >>]]

\* Router r takes a step of RouterOps: what it transmits goes to all others.
Does(r, step, left) ==
    /\ router' = [router EXCEPT ![r].ifaces = step.ifaces]
    /\ net' = [s \in Routers |-> [l \in Links |->
                  IF s = r THEN left[s][l] ELSE left[s][l] \o step.out[l]]]

MayReceive(r, l) == net[r][l] # << >>

Receives(r, l) ==
    /\ MayReceive(r, l)
    /\ Does(r, Transmits(Nothing(r), l,
                         Arrives(router[r].ifaces[l], Head(net[r][l]))),
            [net EXCEPT ![r][l] = Tail(@)])
    /\ UNCHANGED come

HasReceived(r) == \E l \in Links : router[r].ifaces[l].received # << >>

Routes(r) ==
    /\ HasReceived(r)
    /\ Does(r, RouteAll(router[r].rtable, Nothing(r)), net)
    /\ UNCHANGED come

AtRest ==
    \A r \in Routers : ~HasReceived(r) /\ \A l \in Links : ~MayReceive(r, l)

Done == AtRest /\ UNCHANGED vars

Next ==
    \/ \E r \in Routers :
          \/ CallsAddRoute(r)
          \/ Routes(r)
          \/ \E l \in Links : Enters(r, l) \/ Receives(r, l)
    \/ Done

\* Frames arrive, and route() is called again and again: weak fairness, written
\* out with the guard that each action is enabled by, for TLC.
Fairness ==
    \A r \in Routers :
        /\ []<>(~HasReceived(r)) \/ []<><<Routes(r)>>_vars
        /\ \A l \in Links :
              []<>(~MayReceive(r, l)) \/ []<><<Receives(r, l)>>_vars

Spec == Init /\ [][Next]_vars /\ Fairness

-----------------------------------------------------------------------------
\* A route is applicable if the high-order bits of the address match those of
\* the prefix, as many as its length says (router.cc:8-10).
Bit(x, b) == (x \div 2 ^ (AddressBits - b)) % 2

Covers(route, ip) ==
    \A b \in 1 .. route.length : Bit(ip, b) = Bit(route.prefix, b)

SameSpelling(x, y) == x.prefix = y.prefix /\ x.length = y.length

\* Of all routes added the one with the longest prefix that covers an address
\* is taken, never one that a later call has replaced.  Of several spellings of
\* one network, with other bits below the prefix, the first stays in force.
RouteIsLongestAndCurrent ==
    \A r \in Routers : \A ip \in IPs :
        LET added  == router[r].added
            covers == {i \in DOMAIN added : Covers(added[i], ip)}
        IN  IF covers = {} THEN BestMatch(router[r].rtable, ip) = << >>
            ELSE \E i \in covers :
                    /\ BestMatch(router[r].rtable, ip) = << added[i] >>
                    /\ \A j \in covers :
                          \/ added[j].length < added[i].length
                          \/ SameSpelling(added[i], added[j]) /\ j <= i
                          \/ /\ added[j].length = added[i].length
                             /\ ~SameSpelling(added[i], added[j])
                             /\ \E k \in covers :
                                   k < j /\ SameSpelling(added[k], added[i])

\* However the routes lead and change, every datagram's journey ends, and so do
\* the questions it takes: what waits in the end waits for an address that no
\* other router on the link has.
WaitsForNobody(r, l) ==
    \A ip \in IPs : router[r].ifaces[l].queued[ip] # << >> =>
        \A s \in Routers \ {r} : Address[s][l] # ip

JourneysEnd ==
    <>[](AtRest /\ \A r \in Routers : \A l \in Links : WaitsForNobody(r, l))
=============================================================================
