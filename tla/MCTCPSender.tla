---------------------------- MODULE MCTCPSender ----------------------------
(* TCPSender with a stream of a few bytes and 4-bit sequence numbers. *)
EXTENDS TCPSender

MCISNs    == {14}        \* the numbers wrap within the stream
MCWindows == {0, 1, 3}
=============================================================================
