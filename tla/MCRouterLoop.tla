---------------------------- MODULE MCRouterLoop ----------------------------
(***************************************************************************)
(* RouterLoop with two routers, A and B, and two links, for TLC.           *)
(* Addresses have three bits; the network 11x is written 6/2 and 7/2.      *)
(***************************************************************************)
EXTENDS RouterLoop, TLC

CONSTANTS A, B

MCRouters == {A, B}
MCIPs     == 0 .. 7
MCAddress == (A :> << 0, 2 >>) @@ (B :> << 1, 3 >>)
MCEthOf   == (A :> << "a1", "a2" >>) @@ (B :> << "b1", "b2" >>)
MCEths    == {"a1", "a2", "b1", "b2"}

\* By default to each other, then over the other link.
DefaultLoop ==
    (A :> << Route(0, 0, 1, 1), Route(6, 2, 1, 1), Route(6, 2, 3, 2) >>) @@
    (B :> << Route(0, 0, 0, 1) >>)

\* One network in two spellings, and a host in it with a route of its own.
TwoSpellings ==
    (A :> << Route(7, 2, NoHop, 2), Route(6, 2, 1, 1), Route(7, 3, 3, 2) >>) @@
    (B :> << Route(6, 2, 2, 2), Route(7, 2, 0, 1) >>)

\* A route put right between two spellings of the same network.
PutRight ==
    (A :> << Route(6, 2, 1, 1), Route(7, 2, 3, 2), Route(6, 2, NoHop, 2) >>) @@
    (B :> << Route(7, 3, 2, 2), Route(0, 0, 0, 1) >>)

MCPrograms == {DefaultLoop, TwoSpellings, PutRight}

Datagram(dst, ttl) == [dst |-> dst, ttl |-> ttl, sum |-> ttl]

MCArriving == << Datagram(7, 4), Datagram(6, 3), Datagram(6, 1) >>
=============================================================================
