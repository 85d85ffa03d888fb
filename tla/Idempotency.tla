----------------------------- MODULE Idempotency -----------------------------
(***************************************************************************)
(* IdempotencyRequestMiddleware of core/middlewares/idempotency_request.py:*)
(* a write request takes a Redis key named after its body, SET NX EX, and  *)
(* deletes it when the rest of the application has produced a response.    *)
(* The value of the key is "1": nothing says whose lock it is.             *)
(*                                                                         *)
(*   idle -> setting -> handling -> deleting -> idle                       *)
(*             |            `-> idle: an exception leaves the key          *)
(*             `-> refused -> idle: 409                                    *)
(*                                                                         *)
(* Durations are relative (what is left of a key, the age of a request's   *)
(* lock), so that time needs no bound.                                     *)
(***************************************************************************)
EXTENDS Integers, FiniteSets

CONSTANTS
    Requests, \* requests being served at the same time
    Bodies,   \* request bodies, up to SHA-256
    NoBody,   \* an empty body, or a method that does not write
    Ttl       \* IDEMPOTENCY_TTL_SECONDS, in ticks

ASSUME BodiesAssumption == NoBody \notin Bodies
ASSUME TtlAssumption == Ttl \in Nat \ {0}

VARIABLES
    left,  \* Redis: what is left to live of each key (0: it does not exist)
    pc,    \* where each request is
    body,  \* and its body
    age,   \* history: time since the request's SET, counted up to Ttl
    burst  \* history: a request of this body has outlived its lock, and there
           \* has been a request of this body, or a key, ever since

vars == <<left, pc, body, age, burst>>

Phases == {"idle", "unlocked", "setting", "refused", "handling", "deleting"}

Lesser(a, b) == IF a <= b THEN a ELSE b

(* The requests between their SET and their DELETE. *)
Holders(b) == {r \in Requests : pc[r] \in {"handling", "deleting"} /\ body[r] = b}

Go(r, phase) ==
    /\ pc' = [pc EXCEPT ![r] = phase]
    /\ UNCHANGED <<body, age>>

(* The request is over. *)
Leave(r) ==
    /\ pc' = [pc EXCEPT ![r] = "idle"]
    /\ body' = [body EXCEPT ![r] = NoBody]
    /\ age' = [age EXCEPT ![r] = 0]

RecordBurst ==
    burst' = [b \in Bodies |->
                /\ burst[b] \/ \E r \in Holders(b)' : age'[r] = Ttl
                /\ Holders(b)' # {} \/ left'[b] # 0]

-----------------------------------------------------------------------------

Init ==
    /\ left = [b \in Bodies |-> 0]
    /\ pc = [r \in Requests |-> "idle"]
    /\ body = [r \in Requests |-> NoBody]
    /\ age = [r \in Requests |-> 0]
    /\ burst = [b \in Bodies |-> FALSE]

Arrive(r) ==
    /\ pc[r] = "idle"
    /\ \E b \in Bodies \cup {NoBody} :
          /\ body' = [body EXCEPT ![r] = b]
          /\ pc' = [pc EXCEPT ![r] = IF b = NoBody THEN "unlocked" ELSE "setting"]
    /\ UNCHANGED <<left, age>>

(* A request that is not locked returns or raises. *)
FinishUnlocked(r) ==
    /\ pc[r] = "unlocked"
    /\ Leave(r)
    /\ UNCHANGED left

(* Mutant: the key lives twice as long. *)
SetLockTwiceTtl(r) ==
    /\ pc[r] = "setting"
    /\ left[body[r]] = 0
    /\ left' = [left EXCEPT ![body[r]] = 2 * Ttl]
    /\ Go(r, "handling")

(* Mutant: without NX. *)
SetLockAlways(r) ==
    /\ pc[r] = "setting"
    /\ left' = [left EXCEPT ![body[r]] = Ttl]
    /\ Go(r, "handling")

SetLock(r) ==
    /\ pc[r] = "setting"
    /\ left[body[r]] = 0
    /\ left' = [left EXCEPT ![body[r]] = Ttl]
    /\ Go(r, "handling")

(* The key is there: 409, with the message that the request is in process. *)
Refuse(r) ==
    /\ pc[r] = "setting"
    /\ left[body[r]] # 0
    /\ Go(r, "refused")
    /\ UNCHANGED left

Respond409(r) ==
    /\ pc[r] = "refused"
    /\ Leave(r)
    /\ UNCHANGED left

(* Redis sets the key, but the request fails before it learns so. *)
SetReplyLost(r) ==
    /\ pc[r] = "setting"
    /\ left[body[r]] = 0
    /\ left' = [left EXCEPT ![body[r]] = Ttl]
    /\ Leave(r)

(* SET or DELETE fails without effect, and the request with it. *)
RedisFails(r) ==
    /\ pc[r] \in {"setting", "deleting"}
    /\ Leave(r)
    /\ UNCHANGED left

(* call_next returns a response. *)
Return(r) ==
    /\ pc[r] = "handling"
    /\ Go(r, "deleting")
    /\ UNCHANGED left

(* call_next raises, or the request is cancelled: there is no finally. *)
Raise(r) ==
    /\ pc[r] = "handling"
    /\ Leave(r)
    /\ UNCHANGED left

(* DELETE, whoever set the key; whether the reply arrives decides only what
   the client is told. *)
Delete(r) ==
    /\ pc[r] = "deleting"
    /\ left' = [left EXCEPT ![body[r]] = 0]
    /\ Leave(r)

(* Mutant: SET NX without EX. *)
RemainingForever(b) == left[b]

Remaining(b) == IF left[b] = 0 THEN 0 ELSE left[b] - 1

Tick ==
    /\ left' = [b \in Bodies |-> Remaining(b)]
    /\ age' = [r \in Requests |-> IF pc[r] \in {"handling", "deleting"}
                                    THEN Lesser(age[r] + 1, Ttl) ELSE age[r]]
    /\ UNCHANGED <<pc, body>>

RequestStep(r) ==
    \/ Arrive(r) \/ FinishUnlocked(r)
    \/ SetLock(r) \/ Refuse(r) \/ Respond409(r) \/ SetReplyLost(r)
    \/ Return(r) \/ Raise(r) \/ Delete(r) \/ RedisFails(r)

Next == (Tick \/ \E r \in Requests : RequestStep(r)) /\ RecordBurst

Spec == Init /\ [][Next]_vars

(* Redis' clock runs; no request need ever finish. *)
FairSpec == Spec /\ WF_vars(Tick /\ RecordBurst)

-----------------------------------------------------------------------------

TypeOK ==
    /\ left \in [Bodies -> 0 .. Ttl]
    /\ pc \in [Requests -> Phases]
    /\ body \in [Requests -> Bodies \cup {NoBody}]
    /\ \A r \in Requests : pc[r] \notin {"idle", "unlocked"} => body[r] \in Bodies
    /\ age \in [Requests -> 0 .. Ttl]
    /\ burst \in [Bodies -> BOOLEAN]

(* As long as no request outlives its lock, a body is handled by one request
   at a time and its key stays for as long as that request may need it,
   whatever requests fail or are retried (lines 40-59). *)
ExclusiveUnlessOverrun ==
    \A b \in Bodies : ~burst[b] =>
        \A r \in Holders(b) :
            /\ Holders(b) = {r}
            /\ left[b] = Ttl - age[r]

(* A lock nobody will delete, left by an exception or a lost reply, does not
   stop its body forever (lines 40-45, 56-58). *)
LockGoesAway == \A b \in Bodies : left[b] # 0 ~> left[b] = 0

(* "Prevent duplicated write requests by request body" (line 15): no two
   requests that are both within the life of the lock they took are handled
   for the same body. *)
NoDuplicateInTime ==
    \A b \in Bodies : \A r, s \in Holders(b) :
        age[r] < Ttl /\ age[s] < Ttl => r = s
=============================================================================
