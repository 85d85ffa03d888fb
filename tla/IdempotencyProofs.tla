-------------------------- MODULE IdempotencyProofs --------------------------
(***************************************************************************)
(* Proof that the lock of the idempotency middleware excludes, for any     *)
(* number of requests and bodies and any TTL, as long as no request        *)
(* outlives its lock.  The TTL of the key and the age of its holder run in *)
(* step, so the key of a holder that is still young cannot have expired;   *)
(* and while there is only one holder, the DELETE that ends it removes no  *)
(* key but its own.  Then the same without the history of bursts, and that *)
(* nobody renews a lock.                                                   *)
(***************************************************************************)
EXTENDS Idempotency, TLAPS

USE BodiesAssumption, TtlAssumption

Held == {"handling", "deleting"}

AgesStart == \A r \in Requests : pc[r] \notin Held => age[r] = 0

Young == \A b \in Bodies : ~burst[b] => \A r \in Holders(b) : age[r] < Ttl

Exclusion == TypeOK /\ AgesStart /\ Young /\ ExclusiveUnlessOverrun

LEMMA ExclusionInit == Init => Exclusion
BY DEF Init, Exclusion, TypeOK, AgesStart, Young, ExclusiveUnlessOverrun,
       Holders, Phases, Held

LEMMA TypeNext == TypeOK /\ AgesStart /\ [Next]_vars => (TypeOK /\ AgesStart)'
<1> SUFFICES ASSUME TypeOK, AgesStart, [Next]_vars PROVE (TypeOK /\ AgesStart)'
  OBVIOUS
<1> USE DEF TypeOK, AgesStart, Phases, Held
<1>1. CASE Tick /\ RecordBurst
  <2>1. left' \in [Bodies -> 0 .. Ttl]
    BY <1>1 DEF Tick, Remaining
  <2>2. age' \in [Requests -> 0 .. Ttl]
    BY <1>1 DEF Tick, Lesser
  <2>3. burst' \in [Bodies -> BOOLEAN]
    BY <1>1 DEF RecordBurst
  <2> QED
    BY <1>1, <2>1, <2>2, <2>3 DEF Tick
<1>2. ASSUME NEW r \in Requests, RequestStep(r), RecordBurst
      PROVE  (TypeOK /\ AgesStart)'
  <2>1. burst' \in [Bodies -> BOOLEAN]
    BY <1>2 DEF RecordBurst
  <2>2. CASE Arrive(r) \/ FinishUnlocked(r) \/ Refuse(r) \/ Respond409(r)
    BY <2>1, <2>2 DEF Arrive, FinishUnlocked, Refuse, Respond409, Go, Leave
  <2>3. CASE SetLock(r) \/ SetReplyLost(r)
    BY <2>1, <2>3 DEF SetLock, SetReplyLost, Go, Leave
  <2>4. CASE Return(r) \/ Raise(r) \/ Delete(r) \/ RedisFails(r)
    BY <2>1, <2>4 DEF Return, Raise, Delete, RedisFails, Go, Leave
  <2> QED
    BY <1>2, <2>2, <2>3, <2>4 DEF RequestStep
<1>3. CASE UNCHANGED vars
  BY <1>3 DEF vars
<1> QED
  BY <1>1, <1>2, <1>3 DEF Next

(* A body that is handled and has no overrun had none before, and its holders
   are young. *)
LEMMA NoBurst ==
    ASSUME TypeOK', RecordBurst, NEW b \in Bodies, ~burst'[b],
           NEW r \in Requests, r \in Holders(b)'
    PROVE  ~burst[b] /\ age'[r] < Ttl
BY DEF TypeOK, RecordBurst

LEMMA ExclusionTick ==
    ASSUME Exclusion, TypeOK', Tick, RecordBurst
    PROVE  ExclusiveUnlessOverrun'
<1> SUFFICES ASSUME NEW b \in Bodies, ~burst'[b], NEW r \in Requests,
                    r \in Holders(b)'
             PROVE  Holders(b)' = {r} /\ left'[b] = Ttl - age'[r]
  BY DEF ExclusiveUnlessOverrun, Holders
<1>1. Holders(b)' = Holders(b)
  BY DEF Tick, Holders
<1>2. ~burst[b]
  BY NoBurst
<1>3. Holders(b) = {r} /\ left[b] = Ttl - age[r] /\ age[r] < Ttl
  BY <1>1, <1>2 DEF Exclusion, ExclusiveUnlessOverrun, Young
<1>4. pc[r] \in {"handling", "deleting"} /\ age[r] \in 0 .. Ttl
  BY <1>1 DEF Exclusion, TypeOK, Holders
<1>5. left'[b] = left[b] - 1 /\ age'[r] = age[r] + 1
  BY <1>3, <1>4 DEF Tick, Remaining, Lesser
<1> QED
  BY <1>1, <1>3, <1>4, <1>5

(* A key that does not exist has no young holder. *)
LEMMA FreeMeansNobody ==
    ASSUME Exclusion, NEW b \in Bodies, ~burst[b], left[b] = 0
    PROVE  Holders(b) = {}
BY DEF Exclusion, TypeOK, Young, ExclusiveUnlessOverrun, Holders

LEMMA ExclusionStep ==
    ASSUME Exclusion, TypeOK', NEW q \in Requests, RequestStep(q), RecordBurst
    PROVE  ExclusiveUnlessOverrun'
<1> SUFFICES ASSUME NEW b \in Bodies, ~burst'[b], NEW r \in Requests,
                    r \in Holders(b)'
             PROVE  Holders(b)' = {r} /\ left'[b] = Ttl - age'[r]
  BY DEF ExclusiveUnlessOverrun, Holders
<1>1. ~burst[b]
  BY NoBurst
<1>2. \A s \in Holders(b) : Holders(b) = {s} /\ left[b] = Ttl - age[s]
  BY <1>1 DEF Exclusion, ExclusiveUnlessOverrun
<1>3. /\ \A s \in Requests \ {q} :
            pc'[s] = pc[s] /\ body'[s] = body[s] /\ age'[s] = age[s]
      /\ TypeOK /\ AgesStart
  BY DEF RequestStep, Arrive, FinishUnlocked, SetLock, Refuse, Respond409,
         SetReplyLost, Return, Raise, Delete, RedisFails, Go, Leave,
         Exclusion, TypeOK
<1>4. \A s \in Requests \ {q} : s \in Holders(b)' <=> s \in Holders(b)
  BY <1>3 DEF Holders
<1>5. CASE SetLock(q)
  <2>1. /\ pc'[q] = "handling" /\ body'[q] = body[q] /\ age'[q] = age[q]
        /\ pc[q] = "setting" /\ left[body[q]] = 0 /\ body[q] \in Bodies
        /\ left' = [left EXCEPT ![body[q]] = Ttl]
    BY <1>3, <1>5 DEF SetLock, Go, TypeOK
  <2>2. CASE b = body[q]
    <3>1. Holders(b) = {}
      BY <1>1, <2>1, <2>2, FreeMeansNobody
    <3>2. Holders(b)' = {q} /\ r = q
      BY <1>4, <2>1, <2>2, <3>1 DEF Holders
    <3>3. age[q] = 0
      BY <1>3, <2>1 DEF AgesStart, Held
    <3>4. left'[b] = Ttl
      BY <1>3, <2>1, <2>2 DEF TypeOK
    <3> QED
      BY <2>1, <3>2, <3>3, <3>4
  <2>3. CASE b # body[q]
    <3>1. q \notin Holders(b) /\ q \notin Holders(b)'
      BY <2>1, <2>3 DEF Holders
    <3>2. r \in Holders(b) /\ r # q /\ Holders(b)' = {r}
      BY <1>2, <1>4, <3>1 DEF Holders
    <3>3. left'[b] = left[b]
      BY <1>3, <2>1, <2>3 DEF TypeOK
    <3> QED
      BY <1>2, <1>3, <3>2, <3>3
  <2> QED
    BY <2>2, <2>3
<1>6. CASE SetReplyLost(q) \/ Delete(q)
  <2>1. /\ q \notin Holders(b)' /\ body[q] \in Bodies
        /\ \E n \in Nat : left' = [left EXCEPT ![body[q]] = n]
        /\ (left[body[q]] = 0 /\ pc[q] = "setting") \/ q \in Holders(body[q])
    BY <1>3, <1>6 DEF SetReplyLost, Delete, Leave, Holders, TypeOK
  <2>2. r # q /\ r \in Holders(b)
    BY <1>4, <2>1
  <2>3. b # body[q]
    BY <1>1, <1>2, <2>1, <2>2, FreeMeansNobody
  <2>4. left'[b] = left[b] /\ q \notin Holders(b)
    BY <1>3, <2>1, <2>3 DEF Holders, TypeOK
  <2>5. Holders(b)' = {r}
    BY <1>2, <1>4, <2>1, <2>2 DEF Holders
  <2> QED
    BY <1>2, <1>3, <2>2, <2>4, <2>5
<1>7. CASE \/ Arrive(q) \/ FinishUnlocked(q) \/ Refuse(q) \/ Respond409(q)
           \/ Raise(q) \/ RedisFails(q)
  <2>1. q \notin Holders(b)' /\ left' = left
    BY <1>3, <1>7 DEF Arrive, FinishUnlocked, Refuse, Respond409, Raise,
                      RedisFails, Go, Leave, Holders, TypeOK
  <2>2. r # q /\ r \in Holders(b)
    BY <1>4, <2>1
  <2>3. Holders(b)' = {r}
    BY <1>2, <1>4, <2>1, <2>2 DEF Holders
  <2> QED
    BY <1>2, <1>3, <2>1, <2>2, <2>3
<1>8. CASE Return(q)
  <2>1. Holders(b)' = Holders(b) /\ left' = left /\ age' = age
    BY <1>3, <1>8 DEF Return, Go, Holders, TypeOK
  <2> QED
    BY <1>2, <2>1
<1> QED
  BY <1>5, <1>6, <1>7, <1>8 DEF RequestStep

LEMMA ExclusionNext == Exclusion /\ [Next]_vars => Exclusion'
<1> SUFFICES ASSUME Exclusion, [Next]_vars PROVE Exclusion'
  OBVIOUS
<1>1. (TypeOK /\ AgesStart)'
  BY TypeNext DEF Exclusion
<1>2. CASE Next
  <2>1. RecordBurst
    BY <1>2 DEF Next
  <2>2. Young'
    BY <1>1, <2>1, NoBurst DEF Young, Holders
  <2>3. ExclusiveUnlessOverrun'
    BY <1>1, <1>2, ExclusionTick, ExclusionStep DEF Next
  <2> QED
    BY <1>1, <2>2, <2>3 DEF Exclusion
<1>3. CASE UNCHANGED vars
  BY <1>1, <1>3 DEF vars, Exclusion, Young, ExclusiveUnlessOverrun, Holders
<1> QED
  BY <1>2, <1>3

(* A body is handled by one request at a time, and its key is there for as
   long as that request may need it, unless a request outlives its lock. *)
THEOREM LockExcludes == Spec => []ExclusiveUnlessOverrun
<1>1. Exclusion => ExclusiveUnlessOverrun
  BY DEF Exclusion
<1> QED
  BY <1>1, ExclusionInit, ExclusionNext, PTL DEF Spec

(* Keys never live longer than the TTL, and every variable keeps its type. *)
THEOREM TypeCorrect == Spec => []TypeOK
<1>1. Exclusion => TypeOK
  BY DEF Exclusion
<1> QED
  BY <1>1, ExclusionInit, ExclusionNext, PTL DEF Spec

-----------------------------------------------------------------------------
(* What the lock promises a caller, without the history of bursts *)

(* No request is still handled when the lock that it took expires. *)
Timely == \A r \in Requests : pc[r] \in Held => age[r] < Ttl

OneAtATime == \A b \in Bodies : \A r, s \in Holders(b) : r = s

LockOfHolder == \A b \in Bodies : Holders(b) # {} => left[b] > 0

NoBursts == \A b \in Bodies : ~burst[b]

(* A key is only set when it is not there, and otherwise only loses time. *)
RunsDown ==
    \A b \in Bodies :
        /\ left'[b] <= left[b] \/ (left[b] = 0 /\ left'[b] = Ttl)
        /\ Tick /\ left[b] # 0 => left'[b] = left[b] - 1

LEMMA InTimeNext ==
    ASSUME Exclusion, NoBursts, Timely', [Next]_vars
    PROVE  Exclusion' /\ NoBursts'
<1>1. Exclusion'
  BY ExclusionNext
<1>2. CASE RecordBurst
  <2>1. \A b \in Bodies : \A r \in Holders(b)' : age'[r] < Ttl
    BY DEF Timely, Holders, Held
  <2>2. ASSUME NEW b \in Bodies PROVE ~burst'[b]
    BY <1>2, <2>1, TtlAssumption DEF RecordBurst, NoBursts, Holders
  <2> QED
    BY <1>1, <2>2 DEF NoBursts
<1>3. CASE UNCHANGED vars
  BY <1>1, <1>3 DEF vars, NoBursts
<1> QED
  BY <1>2, <1>3 DEF Next

(* If no request outlives the lock that it took, a body is handled by one
   request at a time, whatever requests fail, and its key is there as long as
   that request is handled: no DELETE removes the key of another (lines 40-59).
   The hypothesis is what nothing in the code ensures. *)
THEOREM OneAtATimeInTime == Spec /\ []Timely => [](OneAtATime /\ LockOfHolder)
<1>1. Init => Exclusion /\ NoBursts
  BY ExclusionInit DEF Init, NoBursts
<1>2. (Exclusion /\ NoBursts) /\ Timely' /\ [Next]_vars => (Exclusion /\ NoBursts)'
  BY InTimeNext
<1>3. Exclusion /\ NoBursts => OneAtATime /\ LockOfHolder
  <2> SUFFICES ASSUME Exclusion, NoBursts PROVE OneAtATime /\ LockOfHolder
    OBVIOUS
  <2>1. \A b \in Bodies : \A r \in Holders(b) : Holders(b) = {r} /\ left[b] = Ttl - age[r] /\ age[r] < Ttl
    BY DEF Exclusion, ExclusiveUnlessOverrun, Young, NoBursts
  <2>2. \A r \in Requests : age[r] \in 0 .. Ttl
    BY DEF Exclusion, TypeOK
  <2>3. OneAtATime
    BY <2>1 DEF OneAtATime
  <2>4. LockOfHolder
    BY <2>1, <2>2 DEF LockOfHolder, Holders
  <2> QED
    BY <2>3, <2>4
<1> QED
  BY <1>1, <1>2, <1>3, PTL DEF Spec

(* Whatever is set, deleted or lost, a key is only set when it is not there,
   with all of its time, and only loses time after that: nobody renews a lock,
   and each tick of Redis brings one that nobody deletes nearer to its end
   (lines 40-45, 56-58). *)
THEOREM LocksOnlyRunDown == Spec => [][RunsDown]_vars
<1>1. Exclusion /\ [Next]_vars => [RunsDown]_vars
  <2> SUFFICES ASSUME Exclusion, Next PROVE RunsDown
    BY DEF RunsDown
  <2> SUFFICES ASSUME NEW b \in Bodies
               PROVE  /\ left'[b] <= left[b] \/ (left[b] = 0 /\ left'[b] = Ttl)
                      /\ Tick /\ left[b] # 0 => left'[b] = left[b] - 1
    BY DEF RunsDown
  <2>1. left[b] \in 0 .. Ttl /\ left \in [Bodies -> 0 .. Ttl]
    BY DEF Exclusion, TypeOK
  <2>2. Tick => left'[b] = Remaining(b)
    BY DEF Tick
  <2>3. CASE Tick
    BY <2>1, <2>2, <2>3 DEF Remaining
  <2>4. ASSUME NEW r \in Requests, RequestStep(r)
        PROVE  left'[b] <= left[b] \/ (left[b] = 0 /\ left'[b] = Ttl)
    <3>1. pc[r] \in {"setting", "deleting"} => body[r] \in Bodies
      BY DEF Exclusion, TypeOK
    <3>2. CASE SetLock(r) \/ SetReplyLost(r)
      BY <2>1, <3>1, <3>2 DEF SetLock, SetReplyLost
    <3>3. CASE Delete(r)
      BY <2>1, <3>1, <3>3 DEF Delete
    <3>4. CASE UNCHANGED left
      BY <2>1, <3>4
    <3> QED
      BY <2>4, <3>2, <3>3, <3>4
         DEF RequestStep, Arrive, FinishUnlocked, Refuse, Respond409, RedisFails, Return, Raise
  <2>5. Tick /\ left[b] # 0 => left'[b] = left[b] - 1
    BY <2>2 DEF Remaining
  <2> QED
    BY <2>3, <2>4, <2>5 DEF Next
<1> QED
  BY <1>1, ExclusionInit, ExclusionNext, PTL DEF Spec
=============================================================================
