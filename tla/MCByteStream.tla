---------------------------- MODULE MCByteStream ----------------------------
(* ByteStream with strings of up to three of two bytes, for TLC. *)
EXTENDS ByteStream

CONSTANTS b1, b2   \* the two bytes

MCBytes  == {b1, b2}
MCWrites == UNION {[1 .. n -> MCBytes] : n \in 0 .. 3}
=============================================================================
