------------------------------- MODULE Wrap32 -------------------------------
(***************************************************************************)
(* src/src/wrapping_integers.cc: 32-bit sequence numbers that start at a   *)
(* zero point and wrap, and the 64-bit numbers they stand for.  Half is    *)
(* 2^31 in the code.  A raw value is a number in 0 .. Modulus - 1; a       *)
(* 64-bit number is a natural number (the code's int64_t result is exact   *)
(* below 2^63).                                                            *)
(***************************************************************************)
LOCAL INSTANCE Integers

CONSTANT Half

ASSUME HalfAssumption == Half \in Nat \ {0}

Modulus == 2 * Half

\* Wrap32::wrap
Wrap(n, zero_point) == (zero_point + n) % Modulus

\* Lines 19: the distance from the checkpoint's own raw value, computed in
\* 32-bit unsigned arithmetic and then read as a signed number.
SignedDistance(raw, zero_point, checkpoint) ==
    LET d == (raw - zero_point - checkpoint) % Modulus
    IN  IF d >= Half THEN d - Modulus ELSE d

\* Wrap32::unwrap
UnwrapUnlifted(raw, zero_point, checkpoint) ==        \* mutant: may go below 0
    checkpoint + SignedDistance(raw, zero_point, checkpoint)
Unwrap(raw, zero_point, checkpoint) ==
    LET result == checkpoint + SignedDistance(raw, zero_point, checkpoint)
    IN  IF result >= 0 THEN result ELSE result + Modulus
=============================================================================
