----------------------------- MODULE MCEndToEnd -----------------------------
(***************************************************************************)
(* EndToEnd with addresses of three bits for TLC: 00x is 10.0.0.0/8 (the   *)
(* Internet side), 01x is 192.168.0.0/16 (the client's network) and 1xx is *)
(* 172.16.0.0/12 (the server's).                                           *)
(***************************************************************************)
EXTENDS EndToEnd, TLC

MCIPs  == 0 .. 7
MCEths == {"host", "gateway", "server", "first", "second"}

MCHostIP    == (Client :> 2) @@ (Server :> 4)
MCRouterIPs == (Client :> << 3, 0 >>) @@ (Server :> << 5, 1 >>)

MCStarts == << [port |-> 1, isn |-> 14, eth |-> "first"],
               [port |-> 2, isn |-> 3, eth |-> "second"] >>
MCAnyAddress == [ip |-> 0, port |-> 0]

MCSupply == (Client :> 1) @@ (Server :> 0)

\* The routes of endtoend.cc:219-229.
ProgramTable ==
    (Client :> << Route(2, 2, NoHop, HostSide), Route(0, 2, NoHop, InternetSide),
                  Route(4, 1, 1, InternetSide) >>) @@
    (Server :> << Route(4, 1, NoHop, HostSide), Route(0, 2, NoHop, InternetSide),
                  Route(2, 2, 0, InternetSide) >>)

\* The same network with default routes, routes that overlap, and one that is
\* added wrong and then put right.
OverlapTable ==
    (Client :> << Route(0, 0, 1, InternetSide), Route(2, 2, 1, InternetSide),
                  Route(0, 2, NoHop, InternetSide), Route(2, 2, NoHop, HostSide) >>) @@
    (Server :> << Route(0, 2, NoHop, InternetSide), Route(4, 3, NoHop, HostSide),
                  Route(0, 0, 0, InternetSide) >>)

MCTables == {ProgramTable, OverlapTable}
=============================================================================
