--------------------------- MODULE MCCopyProgram ---------------------------
(* CopyProgram with a few bytes, for TLC. *)
EXTENDS CopyProgram

MCLoads == {[up |-> 1, down |-> 3], [up |-> 2, down |-> 1]}
=============================================================================
