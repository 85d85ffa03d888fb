--------------------------- MODULE AdmissionWindow ---------------------------
(***************************************************************************)
(* What a sliding-window rate limiter promises, without saying how: an     *)
(* admission is one step that happens only while the window ending now has *)
(* room, whoever else is asking at the same time.  RateLimiter, where the  *)
(* same admission takes five Redis round trips, implements this module.    *)
(***************************************************************************)
EXTENDS Integers, FiniteSets

CONSTANTS Requests, \* the requests that ask to be admitted
          Tries,    \* the attempts a request may make under a key
          Keys,     \* one per limited (scope, route, identifier)
          LimitOf,  \* admissions allowed per window, per key
          WindowOf  \* length of the window in clock ticks, per key

VARIABLES clock, admitted

avars == <<clock, admitted>>

(* The admissions of k that fall in the window ending now. *)
Current(k) == {a \in admitted[k] : a.score > clock - WindowOf[k]}

AInit ==
    /\ clock \in Nat
    /\ admitted = [k \in Keys |-> {}]

(* An attempt of r is admitted under k, once, dated by the clock it read when it
   asked.  A request that does not hear of its admission may ask again. *)
Admit(r, k) ==
    /\ Cardinality(Current(k)) < LimitOf[k]
    /\ \E n \in Tries, score \in 0 .. clock :
          /\ \A a \in admitted[k] : a.req = r => a.attempt # n
          /\ admitted' = [admitted EXCEPT
                           ![k] = @ \cup {[req |-> r, attempt |-> n, score |-> score]}]
    /\ UNCHANGED clock

Pass ==
    /\ clock' = clock + 1
    /\ UNCHANGED admitted

ANext == Pass \/ \E r \in Requests, k \in Keys : Admit(r, k)

ASpec == AInit /\ [][ANext]_avars
=============================================================================
