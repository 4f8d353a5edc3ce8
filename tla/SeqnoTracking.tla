---------------------------- MODULE SeqnoTracking ----------------------------
(***************************************************************************)
(* How both ends of a connection use Wrap32: they follow a 64-bit number   *)
(* of which every message carries the wrapped form only, unwrapping each   *)
(* with the number of the message before it as the checkpoint              *)
(* (TCPReceiver::receive with max_abs_seqno, TCPSender::receive with       *)
(* abs_last_ackno_).  Messages may overtake one another.                   *)
(***************************************************************************)
EXTENDS Integers, Wrap32

CONSTANTS
    MaxJump,    \* how far two messages in a row may lie apart
    MaxSeqno    \* bound: the largest 64-bit number sent

ASSUME JumpAssumption  == MaxJump \in Nat /\ MaxJump < Half
ASSUME BoundAssumption == MaxSeqno \in Nat

VARIABLES
    zero_point,   \* the initial sequence number
    sent,         \* the 64-bit number of the last message that arrived
    checkpoint    \* the number it was taken for

numbers == << zero_point, sent, checkpoint >>

StartNumbers ==
    /\ zero_point \in 0 .. Modulus - 1
    /\ sent = 0
    /\ checkpoint = 0

CarriesAbsolute(n) == n         \* mutant: the isn is not added
Carries(n) == Wrap(n, zero_point)

Arrive(n) ==
    /\ n - sent \in -MaxJump .. MaxJump
    /\ sent' = n
    /\ checkpoint' = Unwrap(Carries(n), zero_point, checkpoint)
    /\ UNCHANGED zero_point

MoreNumbers == \E n \in 0 .. MaxSeqno : Arrive(n)

NumbersSpec == StartNumbers /\ [][MoreNumbers]_numbers

-----------------------------------------------------------------------------
\* Every message is taken for the number it was sent with, through any number
\* of wraps and in either direction, as long as neighbours lie less than half
\* the number space apart.
NumberIsRecovered == checkpoint = sent

\* unwrap returns a number that wraps to the raw value, and of those the one
\* closest to the checkpoint (wrapping_integers.hh:19-25), whatever raw value
\* comes in, the lowest numbers included, where the closest below would be
\* negative.
UnwrapIsClosest ==
    \A raw \in 0 .. Modulus - 1 :
        LET u == Unwrap(raw, zero_point, checkpoint)
            Far(n) == IF n >= checkpoint THEN n - checkpoint ELSE checkpoint - n
        IN  /\ u \in Nat /\ Wrap(u, zero_point) = raw
            /\ \A v \in 0 .. checkpoint + Modulus :
                   Wrap(v, zero_point) = raw => Far(u) <= Far(v)
=============================================================================
