---------------------------- MODULE MCIdempotency ----------------------------
(* Instances of Idempotency for TLC. *)
EXTENDS Idempotency

CONSTANTS r1, r2, r3, b1, b2
=============================================================================
