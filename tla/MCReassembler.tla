--------------------------- MODULE MCReassembler ---------------------------
(* Reassembler on a stream of a few bytes, for TLC. *)
EXTENDS Reassembler

MCHonestHabits == {"with data", "bare"}
=============================================================================
