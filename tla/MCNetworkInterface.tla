------------------------- MODULE MCNetworkInterface -------------------------
(* NetworkInterface with two IP and two Ethernet addresses, for TLC. *)
EXTENDS NetworkInterface, TLC

CONSTANTS own, peer, e0, e1, d1, d2

MCIPs       == {own, peer}
MCEths      == {e0, e1}
MCDatagrams == {d1, d2}
MCSymmetry  == Permutations(MCDatagrams)   \* nothing looks into a datagram
=============================================================================
