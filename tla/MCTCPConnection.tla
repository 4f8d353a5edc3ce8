-------------------------- MODULE MCTCPConnection --------------------------
(* TCPConnection with a few bytes. *)
EXTENDS TCPConnection, TLC

CONSTANT Server

MCPeers == {Client, Server}
MCISN   == (Client :> 14) @@ (Server :> 3)         \* the client's numbers wrap

BothSend    == (Client :> 3) @@ (Server :> 1)    \* more than the window
ServerSends == (Client :> 0) @@ (Server :> 2)

Budget(loss, delay, early) == [loss |-> loss, delay |-> delay, early |-> early]

OneFaultKind    == {Budget(2, 0, 0), Budget(0, 1, 0), Budget(0, 0, 1)}
OneLoss         == {Budget(1, 0, 0)}
DelayAfterEarly == {Budget(0, 1, 1)}
=============================================================================
