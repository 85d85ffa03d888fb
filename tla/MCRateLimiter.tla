---------------------------- MODULE MCRateLimiter ----------------------------
(* Instances of RateLimiter for TLC. *)
EXTENDS RateLimiter, TLC

CONSTANTS r1, r2, r3, k1, k2

Symmetry == Permutations(Requests)

One == [k \in Keys |-> 1]
Two == [k \in Keys |-> 2]

(* One IP, no identifier: every request competes for the same key. *)
OneIp == [r \in Requests |-> k1]
NoAuth == [r \in Requests |-> NoKey]

(* r1 and r2 share an IP, r3 has none the limiter can see; r1 and r3 share an
   identifier, r2 is anonymous. *)
MixedIp == [r \in Requests |-> IF r = r3 THEN NoKey ELSE k1]
MixedAuth == [r \in Requests |-> IF r = r2 THEN NoKey ELSE k2]
=============================================================================
