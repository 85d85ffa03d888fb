------------------------ MODULE CircuitBreakerProofs ------------------------
(***************************************************************************)
(* Proofs that the circuit breaker never cuts the provider off without     *)
(* cause, and never for longer than one cooldown, for any number of        *)
(* callers, any thresholds and durations, and with Redis failing at will.  *)
(*                                                                         *)
(* Nothing in the code is atomic beyond one Redis command, so the argument *)
(* must survive lost updates: it counts, instead of the failures the hash  *)
(* remembers, those that were ever written to it (wrote).                  *)
(***************************************************************************)
EXTENDS CircuitBreaker, TLAPS

USE ConfigAssumption, NoneAssumption

-----------------------------------------------------------------------------
(* What each HSET leaves in the hash. *)

LEMMA MergeHalfOpen ==
    ASSUME NEW h \in Hashes
    PROVE  LET g == Merge(h, [mode |-> "half_open", successes |-> 0, requests |-> 0])
           IN  /\ g \in Hashes
               /\ g.mode = "half_open"
               /\ g.failure_count = h.failure_count
               /\ g.open_until = h.open_until
BY DEF Merge, Hashes, Optional

LEMMA MergeCounted ==
    ASSUME NEW h \in Hashes, NEW n \in Nat, NEW t \in Nat
    PROVE  LET g == Merge(h, [mode |-> "closed", failure_count |-> n,
                              last_timeout |-> t])
           IN  /\ g \in Hashes
               /\ g.mode = "closed"
               /\ g.failure_count = n
               /\ g.open_until = h.open_until
BY DEF Merge, Hashes, Optional

LEMMA MergeCleared ==
    ASSUME NEW h \in Hashes
    PROVE  LET g == Merge(h, [mode |-> "closed", failure_count |-> 0,
                              last_timeout |-> 0, successes |-> 0, requests |-> 0])
           IN  /\ g \in Hashes
               /\ g.mode = "closed"
               /\ g.failure_count = 0
               /\ g.open_until = h.open_until
BY DEF Merge, Hashes, Optional

LEMMA MergeOpened ==
    ASSUME NEW h \in Hashes, NEW c \in Callers, fails[c] \in Nat, now[c] \in Nat
    PROVE  LET g == Merge(h, Opened(c))
           IN  /\ g \in Hashes
               /\ g.mode = "open"
               /\ g.failure_count = fails[c]
               /\ g.open_until = now[c] + OpenFor
BY DEF Merge, Hashes, Optional, Opened

(* HINCRBY touches one counter of the hash. *)
LEMMA IncrementedField ==
    ASSUME NEW f \in {"successes", "requests"}, hash \in Hashes
    PROVE  /\ Incremented(f) \in Nat
           /\ [hash EXCEPT ![f] = Incremented(f)] \in Hashes
<1>1. Incremented(f) \in Nat
  BY DEF Incremented, Hashes, Optional
<1> QED
  BY <1>1 DEF Hashes, Optional

LEMMA TtlType == StateTtl \in Nat
BY DEF StateTtl, Max2

-----------------------------------------------------------------------------
(* The inductive invariant. *)

(* record_failure dates an opening with a clock it read in the past. *)
ReadPast == \A c \in Callers : now[c] <= clock

(* A caller that saw the breaker open or half-open, or is about to make it so,
   knows that enough failures were written; the one about to write a failure
   counts at most one more than those. *)
Informed == {"a_until", "a_half", "a_probe", "blocked"}

CauseKnown ==
    \A c \in Callers :
        /\ pc[c] \in Informed => wrote >= Threshold
        /\ pc[c] = "expire" /\ then[c] = "a_probe" => wrote >= Threshold
        /\ pc[c] = "f_set" => fails[c] <= wrote + 1

HashJustified ==
    /\ Mode \in {"open", "half_open"} => wrote >= Threshold
    /\ hash.failure_count # None => hash.failure_count <= wrote
    /\ hash.open_until # None => hash.open_until <= clock + OpenFor

Justified == TypeOK /\ ReadPast /\ CauseKnown /\ HashJustified

LEMMA JustifiedInit == Init => Justified
<1> SUFFICES ASSUME Init PROVE Justified
  OBVIOUS
<1>1. TypeOK
  BY DEF Init, TypeOK, Epoch, Fresh, Hashes, Optional, NoProbes, Phases
<1>2. ReadPast
  BY DEF Init, ReadPast, Epoch
<1>3. CauseKnown
  BY DEF Init, CauseKnown, Informed
<1>4. HashJustified
  BY DEF Init, HashJustified, Mode, Fresh
<1> QED
  BY <1>1, <1>2, <1>3, <1>4 DEF Justified

(* Steps that neither change the hash nor move the clock: the caller only goes
   to another phase, knowing what that phase requires. *)
LEMMA StepAside ==
    ASSUME Justified, NEW c \in Callers, NEW q \in Phases,
           Go(c, q), UNCHANGED <<clock, hash, then, wrote>>,
           /\ expireAt' \in Nat
           /\ now' \in [Callers -> Nat] /\ now'[c] <= clock
           /\ last' \in [Callers -> Nat]
           /\ fails' \in [Callers -> Nat]
           /\ calls' \in Nat /\ streak' \in Nat /\ lastFail' \in Nat
           /\ UNCHANGED probes
           /\ \A d \in Callers \ {c} : now'[d] = now[d] /\ fails'[d] = fails[d],
           q \in Informed => wrote >= Threshold,
           q = "expire" => then[c] = "idle",
           q = "f_set" => fails'[c] <= wrote + 1
    PROVE  Justified'
<1>1. /\ pc'[c] = q
      /\ \A d \in Callers \ {c} : pc'[d] = pc[d]
      /\ pc' \in [Callers -> Phases]
  BY DEF Go, Justified, TypeOK
<1>2. TypeOK'
  BY <1>1 DEF Justified, TypeOK
<1>3. ReadPast'
  BY DEF Justified, ReadPast
<1>4. CauseKnown'
  <2> SUFFICES ASSUME NEW d \in Callers
               PROVE  /\ pc'[d] \in Informed => wrote >= Threshold
                      /\ pc'[d] = "expire" /\ then[d] = "a_probe" => wrote >= Threshold
                      /\ pc'[d] = "f_set" => fails'[d] <= wrote + 1
    BY DEF CauseKnown
  <2>1. CASE d = c
    BY <2>1, <1>1
  <2>2. CASE d # c
    BY <2>2, <1>1 DEF Justified, CauseKnown
  <2> QED
    BY <2>1, <2>2
<1>5. HashJustified'
  BY DEF Justified, HashJustified, Mode
<1> QED
  BY <1>2, <1>3, <1>4, <1>5 DEF Justified

(* An HSET followed by its EXPIRE. *)
LEMMA StepHSet ==
    ASSUME Justified, NEW c \in Callers, NEW m, NEW after \in {"idle", "a_probe"},
           HSet(c, m, after), Merge(hash, m) \in Hashes,
           wrote' \in {wrote, wrote + 1},
           /\ streak' \in Nat /\ lastFail' \in Nat
           /\ probes' \in [through : Nat, held : Nat],
           after = "a_probe" => wrote' >= Threshold,
           Mode' \in {"open", "half_open"} => wrote' >= Threshold,
           hash'.failure_count # None => hash'.failure_count <= wrote',
           hash'.open_until # None => hash'.open_until <= clock + OpenFor
    PROVE  Justified'
<1>1. /\ hash' = Merge(hash, m)
      /\ then' = [then EXCEPT ![c] = after]
      /\ pc' = [pc EXCEPT ![c] = "expire"]
      /\ UNCHANGED <<clock, expireAt, now, last, fails, calls>>
  BY DEF HSet, Go, locals
<1>2. wrote' \in Nat /\ wrote' >= wrote
  BY DEF Justified, TypeOK
<1>3. TypeOK'
  BY <1>1, <1>2 DEF Justified, TypeOK, Phases
<1>4. ReadPast'
  BY <1>1 DEF Justified, ReadPast
<1>5. CauseKnown'
  <2> SUFFICES ASSUME NEW d \in Callers
               PROVE  /\ pc'[d] \in Informed => wrote' >= Threshold
                      /\ pc'[d] = "expire" /\ then'[d] = "a_probe" => wrote' >= Threshold
                      /\ pc'[d] = "f_set" => fails'[d] <= wrote' + 1
    BY DEF CauseKnown
  <2>1. CASE d = c
    BY <2>1, <1>1 DEF Justified, TypeOK, Informed
  <2>2. CASE d # c
    <3>1. /\ pc'[d] = pc[d] /\ then'[d] = then[d] /\ fails'[d] = fails[d]
          /\ fails[d] \in Nat /\ wrote \in Nat
      BY <2>2, <1>1 DEF Justified, TypeOK
    <3> QED
      BY <3>1, <1>2 DEF Justified, CauseKnown
  <2> QED
    BY <2>1, <2>2
<1>6. HashJustified'
  BY <1>1 DEF HashJustified
<1> QED
  BY <1>3, <1>4, <1>5, <1>6 DEF Justified

(* An HINCRBY: mode, count and cooldown stay what they were. *)
LEMMA StepIncrement ==
    ASSUME Justified, NEW c \in Callers, NEW f \in {"successes", "requests"},
           hash' = [hash EXCEPT ![f] = Incremented(f)],
           NEW q \in Phases \ {"expire", "f_set"}, Go(c, q),
           q \in Informed => wrote >= Threshold,
           probes' \in [through : Nat, held : Nat],
           UNCHANGED <<clock, expireAt, locals, then, calls, wrote, streak, lastFail>>
    PROVE  Justified'
<1>1. hash' \in Hashes
  BY IncrementedField DEF Justified, TypeOK
<1>2. /\ pc'[c] = q
      /\ \A d \in Callers \ {c} : pc'[d] = pc[d]
      /\ pc' \in [Callers -> Phases]
  BY DEF Go, Justified, TypeOK
<1>3. TypeOK'
  BY <1>1, <1>2 DEF Justified, TypeOK, locals
<1>4. ReadPast' /\ CauseKnown'
  BY <1>2 DEF Justified, ReadPast, CauseKnown, locals
<1>5. /\ hash'.mode = hash.mode
      /\ hash'.failure_count = hash.failure_count
      /\ hash'.open_until = hash.open_until
  BY DEF Justified, TypeOK, Hashes
<1>6. HashJustified'
  BY <1>5 DEF Justified, HashJustified, Mode
<1> QED
  BY <1>3, <1>4, <1>6 DEF Justified

LEMMA StepTick ==
    ASSUME Justified, Tick
    PROVE  Justified'
<1>1. /\ clock \in Nat /\ clock' = clock + 1
      /\ hash' \in {hash, Fresh}
      /\ UNCHANGED <<pc, now, last, fails, then, calls, wrote, streak, lastFail>>
  BY DEF Tick, locals, Justified, TypeOK
<1>2. Fresh \in Hashes
  BY DEF Fresh, Hashes, Optional
<1>3. TypeOK'
  BY <1>1, <1>2 DEF Justified, TypeOK, Tick, NoProbes
<1>4. ReadPast' /\ CauseKnown'
  BY <1>1 DEF Justified, TypeOK, ReadPast, CauseKnown
<1>5. HashJustified'
  <2>1. CASE hash' = Fresh
    BY <2>1 DEF HashJustified, Mode, Fresh
  <2>2. CASE hash' = hash
    BY <2>2, <1>1 DEF Justified, TypeOK, Hashes, Optional, HashJustified, Mode
  <2> QED
    BY <1>1, <2>1, <2>2
<1> QED
  BY <1>3, <1>4, <1>5 DEF Justified

-----------------------------------------------------------------------------
(* One step per action. *)

LEMMA JustifiedNext == Justified /\ [Next]_vars => Justified'
<1> SUFFICES ASSUME Justified, [Next]_vars PROVE Justified'
  OBVIOUS
<1> USE DEF locals, history
<1>0. /\ now \in [Callers -> Nat] /\ last \in [Callers -> Nat]
      /\ fails \in [Callers -> Nat] /\ clock \in Nat /\ expireAt \in Nat
      /\ calls \in Nat /\ streak \in Nat /\ lastFail \in Nat /\ wrote \in Nat
      /\ hash \in Hashes
      /\ then \in [Callers -> {"idle", "a_probe"}]
      /\ probes \in [through : Nat, held : Nat]
      /\ \A c \in Callers : now[c] <= clock
  BY DEF Justified, TypeOK, ReadPast
<1>1. CASE Tick
  BY <1>1, StepTick
<1>2. ASSUME NEW c \in Callers,
             \/ Call(c) \/ Answer(c) \/ Fail(c) \/ Raise(c) \/ ReturnBlocked(c)
      PROVE  Justified'
  <2>1. PICK q \in {"a_mode", "s_mode", "f_mode", "idle"} :
           Go(c, q) /\ UNCHANGED <<clock, hash, expireAt, locals, then, history>>
                    /\ calls' \in Nat
    BY <1>0, <1>2 DEF Call, Answer, Fail, Raise, ReturnBlocked
  <2>2. q \in Phases /\ q \notin Informed \cup {"expire", "f_set"}
    BY DEF Phases, Allowing, Recording, Informed
  <2> QED
    BY <1>0, <2>1, <2>2, StepAside
<1>3. ASSUME NEW c \in Callers, AllowMode(c) PROVE Justified'
  <2>1. PICK q \in {"inflight", "a_until", "a_probe"} :
           /\ Go(c, q)
           /\ q # "inflight" => Mode \in {"open", "half_open"}
    BY <1>0, <1>3 DEF AllowMode, Mode, Hashes, Optional
  <2>2. q \in Phases /\ q \notin {"expire", "f_set"}
    BY DEF Phases, Allowing
  <2>3. q \in Informed => wrote >= Threshold
    BY <2>1 DEF Informed, Justified, HashJustified
  <2> QED
    BY <1>0, <1>3, <2>1, <2>2, <2>3, StepAside DEF AllowMode
<1>4. ASSUME NEW c \in Callers, AllowUntil(c) PROVE Justified'
  <2>1. PICK q \in {"inflight", "blocked", "a_half"} : Go(c, q)
    BY <1>4 DEF AllowUntil
  <2>2. q \in Phases /\ q \notin {"expire", "f_set"}
    BY DEF Phases, Allowing
  <2>3. wrote >= Threshold
    BY <1>4 DEF AllowUntil, Justified, CauseKnown, Informed
  <2> QED
    BY <1>0, <1>4, <2>1, <2>2, <2>3, StepAside DEF AllowUntil
<1>5. ASSUME NEW c \in Callers, AllowHalf(c) PROVE Justified'
  <2> DEFINE m == [mode |-> "half_open", successes |-> 0, requests |-> 0]
  <2>1. wrote >= Threshold
    BY <1>5 DEF AllowHalf, Justified, CauseKnown, Informed
  <2>2. HSet(c, m, "a_probe") /\ UNCHANGED history /\ hash' = Merge(hash, m)
    BY <1>5 DEF AllowHalf, HSet
  <2>3. /\ Merge(hash, m) \in Hashes
        /\ hash'.failure_count = hash.failure_count
        /\ hash'.open_until = hash.open_until
    BY <1>0, <2>2, MergeHalfOpen
  <2> HIDE DEF m
  <2> QED
    BY <1>0, <2>1, <2>2, <2>3, StepHSet DEF Justified, HashJustified
<1>6. ASSUME NEW c \in Callers, AllowProbe(c) PROVE Justified'
  <2>1. PICK q \in {"inflight", "blocked"} : Go(c, q)
    BY <1>6 DEF AllowProbe
  <2>2. q \in Phases \ {"expire", "f_set"}
    BY DEF Phases
  <2>3. wrote >= Threshold
    BY <1>6 DEF AllowProbe, Justified, CauseKnown, Informed
  <2>4. hash' = [hash EXCEPT !["requests"] = Incremented("requests")]
    BY <1>6 DEF AllowProbe
  <2>5. probes' \in [through : Nat, held : Nat]
    BY <1>0, <1>6 DEF AllowProbe
  <2> QED
    BY <1>6, <2>1, <2>2, <2>3, <2>4, <2>5, StepIncrement DEF AllowProbe
<1>7. ASSUME NEW c \in Callers, FailureMode(c) PROVE Justified'
  <2>1. PICK q \in {"f_set", "f_last"} :
           Go(c, q) /\ (q = "f_set" => Mode = "half_open")
    BY <1>7 DEF FailureMode
  <2>2. q \in Phases /\ q \notin Informed \cup {"expire"}
    BY DEF Phases, Recording, Informed
  <2>3. /\ now' \in [Callers -> Nat] /\ now'[c] = clock
        /\ fails' \in [Callers -> Nat] /\ fails'[c] = Threshold
        /\ \A d \in Callers \ {c} : now'[d] = now[d] /\ fails'[d] = fails[d]
        /\ streak' \in Nat /\ lastFail' \in Nat
    BY <1>0, <1>7 DEF FailureMode
  <2>4. q = "f_set" => fails'[c] <= wrote + 1
    BY <1>0, <2>1, <2>3 DEF Justified, HashJustified
  <2> QED
    BY <1>0, <1>7, <2>1, <2>2, <2>3, <2>4, StepAside DEF FailureMode
<1>8. ASSUME NEW c \in Callers, FailureLast(c) PROVE Justified'
  <2>1. PICK q \in {"idle", "f_count"} : Go(c, q)
    BY <1>8 DEF FailureLast
  <2>2. q \in Phases /\ q \notin Informed \cup {"expire", "f_set"}
    BY DEF Phases, Recording, Informed
  <2>3. last' \in [Callers -> Nat]
    BY <1>0, <1>8 DEF FailureLast, Hashes, Optional
  <2> QED
    BY <1>0, <1>8, <2>1, <2>2, <2>3, StepAside DEF FailureLast
<1>9. ASSUME NEW c \in Callers, FailureCount(c) PROVE Justified'
  <2>1. PICK q \in {"idle", "f_set"} :
           Go(c, q) /\ (q = "f_set" => hash.failure_count # None)
    BY <1>9 DEF FailureCount
  <2>2. q \in Phases /\ q \notin Informed \cup {"expire"}
    BY DEF Phases, Recording, Informed
  <2>3. hash.failure_count # None =>
           hash.failure_count \in Nat /\ hash.failure_count <= wrote
    BY <1>0 DEF Hashes, Optional, Justified, HashJustified
  <2>4. /\ fails' \in [Callers -> Nat]
        /\ \A d \in Callers \ {c} : fails'[d] = fails[d]
    BY <1>0, <1>9, <2>3 DEF FailureCount
  <2>5. q = "f_set" => fails'[c] <= wrote + 1
    BY <1>0, <1>9, <2>1, <2>3 DEF FailureCount
  <2> QED
    BY <1>0, <1>9, <2>1, <2>2, <2>4, <2>5, StepAside DEF FailureCount
<1>10. ASSUME NEW c \in Callers, FailureSet(c) PROVE Justified'
  <2>1. /\ fails[c] <= wrote + 1 /\ wrote' = wrote + 1
        /\ streak' \in Nat /\ lastFail' \in Nat
        /\ probes' \in [through : Nat, held : Nat]
    BY <1>0, <1>10 DEF FailureSet, Justified, CauseKnown, NoProbes
  <2>2. CASE fails[c] >= Threshold
    <3>1. HSet(c, Opened(c), "idle") /\ hash' = Merge(hash, Opened(c))
      BY <1>10, <2>2 DEF FailureSet, HSet
    <3>2. /\ Merge(hash, Opened(c)) \in Hashes
          /\ hash'.failure_count = fails[c]
          /\ hash'.open_until = now[c] + OpenFor
      BY <1>0, <3>1, MergeOpened
    <3>3. wrote' >= Threshold /\ now[c] + OpenFor <= clock + OpenFor
      BY <1>0, <2>1, <2>2
    <3> QED
      BY <2>1, <3>1, <3>2, <3>3, StepHSet
  <2>3. CASE ~(fails[c] >= Threshold)
    <3> DEFINE m == [mode |-> "closed", failure_count |-> fails[c],
                     last_timeout |-> now[c]]
    <3>1. HSet(c, m, "idle") /\ hash' = Merge(hash, m)
      BY <1>10, <2>3 DEF FailureSet, HSet
    <3>2. /\ Merge(hash, m) \in Hashes
          /\ hash'.mode = "closed"
          /\ hash'.failure_count = fails[c]
          /\ hash'.open_until = hash.open_until
      BY <1>0, <3>1, MergeCounted
    <3>3. Mode' = "closed"
      BY <3>2, NoneAssumption DEF Mode
    <3> HIDE DEF m
    <3> QED
      BY <2>1, <3>1, <3>2, <3>3, StepHSet DEF Justified, HashJustified
  <2> QED
    BY <2>2, <2>3
<1>11. ASSUME NEW c \in Callers, SuccessMode(c) PROVE Justified'
  <2>1. PICK q \in {"s_count", "s_set"} : Go(c, q)
    BY <1>11 DEF SuccessMode
  <2>2. q \in Phases /\ q \notin Informed \cup {"expire", "f_set"}
    BY DEF Phases, Recording, Informed
  <2> QED
    BY <1>0, <1>11, <2>1, <2>2, StepAside DEF SuccessMode
<1>12. ASSUME NEW c \in Callers, SuccessCount(c) PROVE Justified'
  <2>1. PICK q \in {"idle", "s_set"} : Go(c, q)
    BY <1>12 DEF SuccessCount
  <2>2. q \in Phases \ {"expire", "f_set"} /\ q \notin Informed
    BY DEF Phases, Recording, Informed
  <2>3. hash' = [hash EXCEPT !["successes"] = Incremented("successes")]
    BY <1>12 DEF SuccessCount
  <2> QED
    BY <1>0, <1>12, <2>1, <2>2, <2>3, StepIncrement DEF SuccessCount
<1>13. ASSUME NEW c \in Callers, SuccessSet(c) PROVE Justified'
  <2> DEFINE m == [mode |-> "closed", failure_count |-> 0, last_timeout |-> 0,
                   successes |-> 0, requests |-> 0]
  <2>1. /\ HSet(c, m, "idle") /\ hash' = Merge(hash, m)
        /\ UNCHANGED <<wrote, streak, lastFail>>
        /\ probes' \in [through : Nat, held : Nat]
    BY <1>13 DEF SuccessSet, HSet, NoProbes
  <2>2. /\ Merge(hash, m) \in Hashes
        /\ hash'.mode = "closed"
        /\ hash'.failure_count = 0
        /\ hash'.open_until = hash.open_until
    BY <1>0, <2>1, MergeCleared
  <2>3. Mode' = "closed"
    BY <2>2, NoneAssumption DEF Mode
  <2> HIDE DEF m
  <2> QED
    BY <1>0, <2>1, <2>2, <2>3, StepHSet DEF Justified, HashJustified
<1>14. ASSUME NEW c \in Callers, Expire(c) PROVE Justified'
  <2>1. /\ pc[c] = "expire" /\ Go(c, then[c])
        /\ then[c] \in {"idle", "a_probe"}
        /\ expireAt' \in Nat
    BY <1>0, <1>14, TtlType DEF Expire
  <2>2. then[c] \in Phases /\ then[c] \notin {"expire", "f_set"}
    BY <2>1 DEF Phases, Allowing
  <2>3. then[c] \in Informed => wrote >= Threshold
    BY <2>1 DEF Justified, CauseKnown, Informed
  <2> QED
    BY <1>0, <1>14, <2>1, <2>2, <2>3, StepAside DEF Expire
<1>15. ASSUME NEW c \in Callers, RedisFails(c) PROVE Justified'
  <2>1. PICK q \in {"inflight", "idle"} : Go(c, q)
    BY <1>15 DEF RedisFails
  <2>2. q \in Phases /\ q \notin Informed \cup {"expire", "f_set"}
    BY DEF Phases, Informed
  <2> QED
    BY <1>0, <1>15, <2>1, <2>2, StepAside DEF RedisFails
<1>16. CASE UNCHANGED vars
  BY <1>16 DEF vars, Justified, TypeOK, ReadPast, CauseKnown, HashJustified, Mode
<1> QED
  BY <1>1, <1>2, <1>3, <1>4, <1>5, <1>6, <1>7, <1>8, <1>9, <1>10, <1>11,
     <1>12, <1>13, <1>14, <1>15, <1>16 DEF Next

LEMMA JustifiedInvariant == Spec => []Justified
<1> QED
  BY JustifiedInit, JustifiedNext, PTL DEF Spec

(* Every variable keeps its type. *)
THEOREM TypeCorrect == Spec => []TypeOK
<1>1. Justified => TypeOK
  BY DEF Justified
<1> QED
  BY <1>1, JustifiedInvariant, PTL

(* The breaker never leaves closed, and never holds a call back, before
   Threshold failures were written to it, whatever updates race, expire or are
   lost. *)
THEOREM NeverSpurious == Spec => []NoSpuriousOpen
<1>1. Justified => NoSpuriousOpen
  <2> SUFFICES ASSUME Justified, wrote < Threshold
               PROVE  Mode = "closed" /\ \A c \in Callers : pc[c] # "blocked"
    BY DEF NoSpuriousOpen
  <2>1. ~(wrote >= Threshold)
    BY DEF Justified, TypeOK
  <2>2. Mode \in {"closed", "open", "half_open"}
    BY DEF Justified, TypeOK, Hashes, Optional, Mode
  <2> QED
    BY <2>1, <2>2 DEF Justified, HashJustified, CauseKnown, Informed
<1> QED
  BY <1>1, JustifiedInvariant, PTL

(* Races can lose failures from the count, never invent them. *)
THEOREM NeverPhantom == Spec => []NoPhantomFailures
<1>1. Justified => NoPhantomFailures
  BY DEF Justified, HashJustified, CauseKnown, NoPhantomFailures
<1> QED
  BY <1>1, JustifiedInvariant, PTL

(* A cooldown ends at most OpenFor from now, whoever wrote it and when. *)
THEOREM CooldownBounded == Spec => []CooldownIsBounded
<1>1. Justified => CooldownIsBounded
  BY DEF Justified, HashJustified, CooldownIsBounded
<1> QED
  BY <1>1, JustifiedInvariant, PTL
=============================================================================
