------------------------- MODULE BreakerTurnsProofs -------------------------
(***************************************************************************)
(* What the circuit breaker documents, for any number of callers and any   *)
(* thresholds and durations, when Redis answers: it opens at the threshold *)
(* and probes with half the calls as long as no two callers are inside its *)
(* methods at once, whatever calls are in flight meanwhile; its cooldown   *)
(* is cut short by nothing but the outcome of a call that is in progress.  *)
(***************************************************************************)
EXTENDS CircuitBreakerProofs

USE ConfigAssumption, NoneAssumption DEF locals, history

-----------------------------------------------------------------------------
(* Hypotheses on how calls overlap *)

(* A caller is inside allow_request, record_success or record_failure. *)
Inside == Allowing \cup Recording \cup {"expire"}

(* No two callers are inside the breaker at once, though any number of calls
   may be in flight. *)
TakeTurns == \A c, d \in Callers : pc[c] \in Inside /\ pc[d] \in Inside => c = d

(* No two calls overlap at all. *)
OneCallAtATime == \A c, d \in Callers : pc[c] # "idle" /\ pc[d] # "idle" => c = d

-----------------------------------------------------------------------------
(* The inductive invariant, beside Justified. c is the caller whose turn it is. *)

Requests == IF hash.requests = None THEN 0 ELSE hash.requests

(* The counter of the probes tells how many went through. *)
ProbesAlternate ==
    /\ probes.through + probes.held = Requests
    /\ probes.through - probes.held = Requests % 2

(* A mode comes with the fields that go with it. *)
FieldsTogether ==
    /\ hash.mode = None => hash.failure_count = None /\ hash.last_timeout = None
    /\ hash.mode \in {"closed", "open"} =>
         hash.failure_count # None /\ hash.last_timeout # None
    /\ hash.mode = "open" => hash.open_until # None /\ Requests = 0

(* What the caller has seen of the mode is still so, unless the key expired. *)
SeenMode(c) ==
    /\ pc[c] \in {"a_until", "a_half"} => hash.mode \in {"open", None} /\ Requests = 0
    /\ pc[c] \in {"a_probe", "s_count"} => hash.mode \in {"half_open", None}
    /\ pc[c] = "expire" /\ then[c] = "a_probe" => hash.mode \in {"half_open", None}
    /\ pc[c] \in {"f_last", "f_count"} => hash.mode # "half_open"

(* The key of an open breaker outlives the cooldown. *)
CooldownKept(c) ==
    hash.mode = "open" =>
        /\ pc[c] # "expire" => expireAt >= hash.open_until
        /\ pc[c] = "a_half" => clock >= hash.open_until

(* The streak, if a failure now follows n others, the last of them at since. *)
Counted(n, since) ==
    IF lastFail - since > Window THEN streak = 1
                                 ELSE streak = n + 1 \/ n >= Threshold

(* A closed breaker counts the streak of failures, an open one has counted
   enough of them. *)
StreakKept(c) ==
    /\ hash.mode = "closed" /\ pc[c] \notin {"s_set", "f_last", "f_count", "f_set"} =>
         \/ streak = 0 /\ hash.failure_count = 0
         \/ streak = hash.failure_count /\ streak < Threshold /\ hash.last_timeout = lastFail
    /\ hash.mode = "open" => hash.failure_count >= Threshold
    /\ hash.mode = "open" /\ pc[c] \notin {"f_last", "f_count", "f_set"} =>
         hash.last_timeout = lastFail
    /\ pc[c] \in {"s_count", "s_set"} => streak = 0
    /\ pc[c] \in {"f_last", "f_count", "f_set"} => lastFail = now[c]
    /\ pc[c] = "f_last" /\ hash.mode # None => Counted(hash.failure_count, hash.last_timeout)
    /\ pc[c] = "f_count" /\ hash.mode # None => Counted(hash.failure_count, last[c])
    /\ pc[c] = "f_set" => fails[c] = streak \/ fails[c] >= Threshold

Turn(c) ==
    /\ Justified
    /\ ProbesAlternate
    /\ FieldsTogether
    /\ SeenMode(c)
    /\ CooldownKept(c)
    /\ StreakKept(c)

LEMMA TurnInit ==
    ASSUME NEW c \in Callers, Init
    PROVE  Turn(c)
  <1>1. Justified
    BY JustifiedInit
  <1>2. Requests = 0
    BY DEF Init, Requests, Fresh
  <1>3. /\ hash.mode = None /\ hash.failure_count = None /\ hash.last_timeout = None
        /\ None \notin {"open", "closed"} /\ pc[c] = "idle"
        /\ probes.through = 0 /\ probes.held = 0
    BY DEF Init, Fresh, NoProbes
  <1>4. ProbesAlternate
    BY <1>2, <1>3 DEF ProbesAlternate
  <1>5. FieldsTogether /\ SeenMode(c)
    BY <1>3 DEF FieldsTogether, SeenMode
  <1>6. CooldownKept(c) /\ StreakKept(c)
    BY <1>3 DEF CooldownKept, StreakKept
  <1> QED
    BY <1>1, <1>4, <1>5, <1>6 DEF Turn

-----------------------------------------------------------------------------
(* The fields of the hash after an HSET *)

LEMMA HalfOpenFields ==
    ASSUME NEW h \in Hashes
    PROVE  LET g == Merge(h, [mode |-> "half_open", successes |-> 0, requests |-> 0])
           IN  g.mode = "half_open" /\ g.requests = 0
  BY DEF Merge, Hashes

LEMMA CountedFields ==
    ASSUME NEW h \in Hashes, NEW n \in Nat, NEW t \in Nat
    PROVE  LET g == Merge(h, [mode |-> "closed", failure_count |-> n, last_timeout |-> t])
           IN  /\ g.mode = "closed" /\ g.failure_count = n /\ g.last_timeout = t
               /\ g.requests = h.requests
  BY DEF Merge, Hashes

LEMMA ClearedFields ==
    ASSUME NEW h \in Hashes
    PROVE  LET g == Merge(h, [mode |-> "closed", failure_count |-> 0, last_timeout |-> 0,
                              successes |-> 0, requests |-> 0])
           IN  g.mode = "closed" /\ g.failure_count = 0 /\ g.last_timeout = 0 /\ g.requests = 0
  BY DEF Merge, Hashes

LEMMA OpenedFields ==
    ASSUME NEW h \in Hashes, NEW c \in Callers
    PROVE  LET g == Merge(h, Opened(c))
           IN  /\ g.mode = "open" /\ g.open_until = now[c] + OpenFor /\ g.requests = 0
               /\ g.failure_count = fails[c] /\ g.last_timeout = now[c]
  BY DEF Merge, Hashes, Opened

-----------------------------------------------------------------------------
(* The steps of the caller *)

(* The request around the breaker, and what allow_request only reads *)
LEMMA CallKeeps ==
    ASSUME NEW c \in Callers, Turn(c), Justified',
           \/ Call(c) \/ Answer(c) \/ Fail(c) \/ Raise(c) \/ ReturnBlocked(c)
           \/ AllowMode(c) \/ AllowUntil(c)
    PROVE  Turn(c)'
  <1>0. UNCHANGED <<clock, hash, expireAt, locals, then, history>>
    BY DEF Call, Answer, Fail, Raise, ReturnBlocked, AllowMode, AllowUntil
  <1>1. \/ pc[c] = "idle" /\ pc'[c] = "a_mode"
        \/ pc[c] = "inflight" /\ pc'[c] \in {"s_mode", "f_mode", "idle"}
        \/ pc[c] = "blocked" /\ pc'[c] = "idle"
        \/ pc[c] = "a_mode" /\ Mode = "closed" /\ pc'[c] = "inflight"
        \/ pc[c] = "a_mode" /\ Mode = "open" /\ pc'[c] = "a_until"
        \/ pc[c] = "a_mode" /\ Mode = "half_open" /\ pc'[c] = "a_probe"
        \/ pc[c] = "a_until" /\ hash.open_until = None /\ pc'[c] = "inflight"
        \/ pc[c] = "a_until" /\ hash.open_until # None /\ clock < hash.open_until /\ pc'[c] = "blocked"
        \/ pc[c] = "a_until" /\ hash.open_until # None /\ ~(clock < hash.open_until) /\ pc'[c] = "a_half"
    <2>1. Mode \in {"closed", "open", "half_open"} /\ pc \in [Callers -> Phases]
      BY DEF Turn, Justified, TypeOK, Hashes, Optional, Mode
    <2>2. CASE Call(c) \/ Answer(c) \/ Fail(c) \/ Raise(c) \/ ReturnBlocked(c)
      BY <2>1, <2>2 DEF Call, Answer, Fail, Raise, ReturnBlocked, Go
    <2>3. CASE AllowMode(c)
      BY <2>1, <2>3 DEF AllowMode, Go
    <2>4. CASE AllowUntil(c)
      BY <2>1, <2>4 DEF AllowUntil, Go
    <2> QED BY <2>2, <2>3, <2>4
  <1>2. Requests' = Requests /\ hash' = hash /\ clock' = clock /\ expireAt' = expireAt /\ then' = then
        /\ probes' = probes /\ streak' = streak /\ lastFail' = lastFail /\ now' = now /\ last' = last /\ fails' = fails
    BY <1>0 DEF Requests
  <1>3. ProbesAlternate' /\ FieldsTogether'
    BY <1>2 DEF Turn, ProbesAlternate, FieldsTogether
  <1>4. SeenMode(c)'
    BY <1>1, <1>2 DEF Turn, FieldsTogether, SeenMode, Mode
  <1>5. CooldownKept(c)'
    <2>1. hash.open_until \in Nat \cup {None} /\ clock \in Nat /\ expireAt \in Nat
      BY DEF Turn, Justified, TypeOK, Hashes, Optional
    <2> QED BY <1>1, <1>2, <2>1 DEF Turn, FieldsTogether, CooldownKept, SeenMode
  <1>6. StreakKept(c)'
    BY <1>1, <1>2 DEF Turn, StreakKept, Counted
  <1> QED BY <1>3, <1>4, <1>5, <1>6 DEF Turn

(* HINCRBY of the probes: every other one goes through. *)
LEMMA AllowKeeps ==
    ASSUME NEW c \in Callers, Turn(c), Justified', AllowHalf(c) \/ AllowProbe(c)
    PROVE  Turn(c)'
  <1>0. hash \in Hashes /\ pc \in [Callers -> Phases] /\ then \in [Callers -> {"idle", "a_probe"}]
        /\ probes \in [through : Nat, held : Nat]
    BY DEF Turn, Justified, TypeOK
  <1>1. CASE AllowHalf(c)
    <2>1. /\ pc[c] = "a_half" /\ pc'[c] = "expire" /\ then'[c] = "a_probe"
          /\ hash'.mode = "half_open" /\ Requests' = 0 /\ Requests = 0
          /\ UNCHANGED <<clock, expireAt, locals, history>>
      BY <1>0, <1>1, HalfOpenFields DEF AllowHalf, HSet, Go, Requests, Turn, SeenMode
    <2> QED BY <2>1 DEF Turn, ProbesAlternate, FieldsTogether, SeenMode, CooldownKept, StreakKept
  <1>2. CASE AllowProbe(c)
    <2>1. Requests \in Nat /\ Incremented("requests") = Requests + 1
      BY <1>0 DEF Requests, Incremented, Hashes, Optional
    <2>2. /\ pc[c] = "a_probe" /\ pc'[c] \in {"inflight", "blocked"}
          /\ hash' = [hash EXCEPT !.requests = Requests + 1]
          /\ probes' = IF (Requests + 1) % 2 = 1 THEN [probes EXCEPT !.through = @ + 1]
                                                 ELSE [probes EXCEPT !.held = @ + 1]
          /\ UNCHANGED <<clock, expireAt, locals, then, streak, lastFail>>
      BY <1>0, <1>2, <2>1 DEF AllowProbe, Go
    <2>3. /\ hash'.requests = Requests + 1 /\ Requests' = Requests + 1
          /\ hash'.mode = hash.mode /\ hash'.failure_count = hash.failure_count
          /\ hash'.last_timeout = hash.last_timeout /\ hash'.open_until = hash.open_until
      BY <1>0, <2>1, <2>2 DEF Hashes, Requests
    <2>4. hash.mode \notin {"open", "closed"}
      BY <2>2 DEF Turn, SeenMode
    <2>5. ProbesAlternate'
      <3>1. CASE (Requests + 1) % 2 = 1
        <4>1. probes'.through = probes.through + 1 /\ probes'.held = probes.held
          BY <1>0, <2>2, <3>1
        <4> QED BY <1>0, <2>1, <2>3, <3>1, <4>1 DEF Turn, ProbesAlternate
      <3>2. CASE (Requests + 1) % 2 # 1
        <4>1. probes'.through = probes.through /\ probes'.held = probes.held + 1
          BY <1>0, <2>2, <3>2
        <4> QED BY <1>0, <2>1, <2>3, <3>2, <4>1 DEF Turn, ProbesAlternate
      <3> QED BY <3>1, <3>2
    <2> QED BY <2>2, <2>3, <2>4, <2>5 DEF Turn, FieldsTogether, SeenMode, CooldownKept, StreakKept
  <1> QED BY <1>1, <1>2

(* record_failure *)
LEMMA FailureKeeps ==
    ASSUME NEW c \in Callers, Turn(c), Justified',
           FailureMode(c) \/ FailureLast(c) \/ FailureCount(c)
    PROVE  Turn(c)'
  <1>0. /\ hash \in Hashes /\ pc \in [Callers -> Phases]
        /\ now \in [Callers -> Nat] /\ last \in [Callers -> Nat] /\ fails \in [Callers -> Nat]
        /\ streak \in Nat /\ lastFail \in Nat /\ clock \in Nat
    BY DEF Turn, Justified, TypeOK
  <1>1. UNCHANGED <<clock, hash, expireAt, then, probes>>
    BY DEF FailureMode, FailureLast, FailureCount
  <1>2. ProbesAlternate' /\ FieldsTogether'
    BY <1>1 DEF Turn, ProbesAlternate, FieldsTogether, Requests
  <1>3. /\ hash.mode \in {"closed", "open", "half_open", None}
        /\ hash.mode = None => hash.last_timeout = None /\ hash.failure_count = None
        /\ hash.mode \in {"closed", "open"} =>
             hash.last_timeout \in Nat /\ hash.failure_count \in Nat
    BY <1>0 DEF Turn, FieldsTogether, Hashes, Optional
  <1>4. CASE FailureMode(c)
    <2>1. /\ pc[c] = "f_mode" /\ now'[c] = clock /\ fails'[c] = Threshold /\ lastFail' = clock
          /\ pc'[c] = IF Mode = "half_open" THEN "f_set" ELSE "f_last"
          /\ streak' = IF clock - lastFail > Window THEN 1 ELSE streak + 1
      BY <1>0, <1>4 DEF FailureMode, Go
    <2>2. SeenMode(c)' /\ CooldownKept(c)'
      BY <1>1, <1>3, <2>1 DEF Turn, SeenMode, CooldownKept, Mode
    <2>3. hash.mode \in {"closed", "open"} => Counted(hash.failure_count, hash.last_timeout)'
      <3>1. hash.mode = "closed" =>
              \/ streak = 0 /\ hash.failure_count = 0
              \/ streak = hash.failure_count /\ hash.last_timeout = lastFail
        BY <2>1 DEF Turn, StreakKept
      <3>2. hash.mode = "open" => hash.failure_count >= Threshold /\ hash.last_timeout = lastFail
        BY <2>1 DEF Turn, StreakKept
      <3> QED BY <1>0, <1>1, <1>3, <2>1, <3>1, <3>2 DEF Counted
    <2>4. pc'[c] = "f_last" => hash.mode # "half_open"
      BY <2>1 DEF Mode
    <2>5. StreakKept(c)'
      BY <1>0, <1>1, <1>3, <2>1, <2>3, <2>4 DEF Turn, StreakKept
    <2> QED BY <1>2, <2>2, <2>5 DEF Turn
  <1>5. CASE FailureLast(c)
    <2>1. /\ pc[c] = "f_last" /\ UNCHANGED <<now, fails, streak, lastFail>>
          /\ hash.last_timeout = None => pc'[c] = "idle"
          /\ hash.last_timeout # None => pc'[c] = "f_count" /\ last'[c] = hash.last_timeout
      BY <1>0, <1>5 DEF FailureLast, Go
    <2>2. /\ hash.mode # "half_open" /\ lastFail = now[c]
          /\ hash.mode # None => Counted(hash.failure_count, hash.last_timeout)
          /\ hash.mode = "open" => hash.failure_count >= Threshold
      BY <2>1 DEF Turn, SeenMode, StreakKept
    <2>3. hash.mode = None <=> pc'[c] = "idle"
      BY <1>3, <2>1, <2>2
    <2>4. SeenMode(c)' /\ CooldownKept(c)'
      BY <1>1, <2>1, <2>2, <2>3 DEF Turn, SeenMode, CooldownKept
    <2>5. StreakKept(c)'
      BY <1>1, <1>3, <2>1, <2>2, <2>3 DEF StreakKept, Counted
    <2> QED BY <1>2, <2>4, <2>5 DEF Turn
  <1>6. CASE FailureCount(c)
    <2>1. /\ pc[c] = "f_count" /\ UNCHANGED <<now, last, streak, lastFail>>
          /\ hash.failure_count = None => pc'[c] = "idle"
          /\ hash.failure_count # None =>
               /\ pc'[c] = "f_set"
               /\ fails'[c] = IF now[c] - last[c] > Window THEN 1 ELSE hash.failure_count + 1
      BY <1>0, <1>6 DEF FailureCount, Go
    <2>2. /\ hash.mode # "half_open" /\ lastFail = now[c]
          /\ hash.mode # None => Counted(hash.failure_count, last[c])
          /\ hash.mode = "open" => hash.failure_count >= Threshold
      BY <2>1 DEF Turn, SeenMode, StreakKept
    <2>3. hash.mode = None <=> pc'[c] = "idle"
      BY <1>3, <2>1, <2>2
    <2>4. SeenMode(c)' /\ CooldownKept(c)'
      BY <1>1, <2>1, <2>2, <2>3 DEF Turn, SeenMode, CooldownKept
    <2>5. pc'[c] = "f_set" => fails'[c] = streak \/ fails'[c] >= Threshold
      <3> SUFFICES ASSUME hash.mode \in {"closed", "open"}, pc'[c] = "f_set"
                   PROVE  fails'[c] = streak \/ fails'[c] >= Threshold
        BY <1>3, <2>2, <2>3
      <3>1. fails'[c] = IF now[c] - last[c] > Window THEN 1 ELSE hash.failure_count + 1
        BY <1>3, <2>1
      <3> QED BY <1>0, <1>3, <2>2, <3>1 DEF Counted
    <2>6. StreakKept(c)'
      BY <1>1, <1>3, <2>1, <2>2, <2>3, <2>5 DEF StreakKept
    <2> QED BY <1>2, <2>4, <2>6 DEF Turn
  <1> QED BY <1>4, <1>5, <1>6

(* The HSET of record_failure: the count is the streak, or the breaker opens. *)
LEMMA FailureSetKeeps ==
    ASSUME NEW c \in Callers, Turn(c), Justified', FailureSet(c)
    PROVE  Turn(c)'
  <1>0. /\ hash \in Hashes /\ pc \in [Callers -> Phases] /\ then \in [Callers -> {"idle", "a_probe"}]
        /\ now[c] \in Nat /\ fails[c] \in Nat /\ streak \in Nat /\ lastFail \in Nat
    BY DEF Turn, Justified, TypeOK
  <1>1. /\ pc[c] = "f_set" /\ pc'[c] = "expire" /\ then'[c] = "idle"
        /\ UNCHANGED <<clock, expireAt, locals, streak, lastFail>>
    BY <1>0 DEF FailureSet, HSet, Go
  <1>2. lastFail = now[c] /\ (fails[c] = streak \/ fails[c] >= Threshold) /\ ProbesAlternate
    BY <1>1 DEF Turn, StreakKept
  <1>3. CASE fails[c] >= Threshold
    <2>1. /\ hash'.mode = "open" /\ hash'.open_until = now[c] + OpenFor /\ hash'.requests = 0
          /\ hash'.failure_count = fails[c] /\ hash'.last_timeout = now[c]
          /\ probes' = NoProbes
      BY <1>0, <1>3, OpenedFields DEF FailureSet, HSet
    <2>2. ProbesAlternate' /\ FieldsTogether'
      BY <1>0, <2>1 DEF ProbesAlternate, FieldsTogether, Requests, NoProbes
    <2>3. SeenMode(c)' /\ CooldownKept(c)'
      BY <1>1, <2>1 DEF SeenMode, CooldownKept
    <2>4. StreakKept(c)'
      BY <1>1, <1>2, <1>3, <2>1 DEF StreakKept
    <2> QED BY <2>2, <2>3, <2>4 DEF Turn
  <1>4. CASE ~(fails[c] >= Threshold)
    <2>1. /\ hash'.mode = "closed" /\ hash'.failure_count = fails[c] /\ hash'.last_timeout = now[c]
          /\ hash'.requests = hash.requests
          /\ probes' = probes
      BY <1>0, <1>4, CountedFields DEF FailureSet, HSet
    <2>2. fails[c] = streak /\ streak < Threshold
      BY <1>0, <1>2, <1>4
    <2>3. ProbesAlternate' /\ FieldsTogether'
      BY <1>0, <1>2, <2>1 DEF ProbesAlternate, FieldsTogether, Requests
    <2> QED BY <1>1, <1>2, <2>1, <2>2, <2>3 DEF Turn, SeenMode, CooldownKept, StreakKept
  <1> QED BY <1>3, <1>4

(* record_success *)
LEMMA SuccessKeeps ==
    ASSUME NEW c \in Callers, Turn(c), Justified',
           SuccessMode(c) \/ SuccessCount(c) \/ SuccessSet(c)
    PROVE  Turn(c)'
  <1>0. /\ hash \in Hashes /\ pc \in [Callers -> Phases] /\ then \in [Callers -> {"idle", "a_probe"}]
    BY DEF Turn, Justified, TypeOK
  <1>1. CASE SuccessMode(c)
    <2>1. /\ pc[c] = "s_mode" /\ pc'[c] = IF Mode = "half_open" THEN "s_count" ELSE "s_set"
          /\ streak' = 0 /\ UNCHANGED <<clock, hash, expireAt, locals, then, lastFail, probes>>
      BY <1>0, <1>1 DEF SuccessMode, Go
    <2>2. pc'[c] = "s_count" => hash.mode = "half_open"
      BY <2>1 DEF Mode
    <2>3. ProbesAlternate' /\ FieldsTogether'
      BY <2>1 DEF Turn, ProbesAlternate, FieldsTogether, Requests
    <2>4. SeenMode(c)' /\ CooldownKept(c)'
      BY <2>1, <2>2 DEF Turn, SeenMode, CooldownKept
    <2>5. StreakKept(c)'
      BY <2>1, <2>2 DEF Turn, StreakKept
    <2> QED BY <2>3, <2>4, <2>5 DEF Turn
  <1>2. CASE SuccessCount(c)
    <2>1. /\ pc[c] = "s_count" /\ pc'[c] \in {"idle", "s_set"}
          /\ hash' = [hash EXCEPT !.successes = Incremented("successes")]
          /\ UNCHANGED <<clock, expireAt, locals, then, streak, lastFail, probes>>
      BY <1>0, <1>2 DEF SuccessCount, Go
    <2>2. /\ hash'.mode = hash.mode /\ hash'.failure_count = hash.failure_count
          /\ hash'.last_timeout = hash.last_timeout /\ hash'.open_until = hash.open_until
          /\ hash'.requests = hash.requests
      BY <1>0, <2>1 DEF Hashes
    <2>3. hash.mode \notin {"open", "closed"}
      BY <2>1 DEF Turn, SeenMode
    <2>4. ProbesAlternate' /\ FieldsTogether'
      BY <2>1, <2>2 DEF Turn, ProbesAlternate, FieldsTogether, Requests
    <2>5. streak = 0
      BY <2>1 DEF Turn, StreakKept
    <2> QED BY <2>1, <2>2, <2>3, <2>4, <2>5 DEF Turn, SeenMode, CooldownKept, StreakKept
  <1>3. CASE SuccessSet(c)
    <2>1. /\ pc[c] = "s_set" /\ pc'[c] = "expire" /\ then'[c] = "idle"
          /\ UNCHANGED <<clock, expireAt, locals, streak, lastFail>>
          /\ hash'.mode = "closed" /\ hash'.failure_count = 0 /\ hash'.last_timeout = 0
          /\ hash'.requests = 0 /\ probes' = NoProbes
      BY <1>0, <1>3, ClearedFields DEF SuccessSet, HSet, Go
    <2>2. streak = 0
      BY <2>1 DEF Turn, StreakKept
    <2>3. ProbesAlternate' /\ FieldsTogether'
      BY <2>1 DEF ProbesAlternate, FieldsTogether, Requests, NoProbes
    <2> QED BY <2>1, <2>2, <2>3 DEF Turn, SeenMode, CooldownKept, StreakKept
  <1> QED BY <1>1, <1>2, <1>3

(* EXPIRE: from here on the key outlives the cooldown. *)
LEMMA ExpireKeeps ==
    ASSUME NEW c \in Callers, Turn(c), Justified', Expire(c)
    PROVE  Turn(c)'
  <1>1. /\ pc[c] = "expire" /\ pc'[c] = then[c] /\ then[c] \in {"idle", "a_probe"}
        /\ hash # Fresh => expireAt' = clock + StateTtl
        /\ UNCHANGED <<clock, hash, then, now, last, fails, streak, lastFail, probes>>
    BY DEF Turn, Justified, TypeOK, Expire, Go
  <1>2. ProbesAlternate' /\ FieldsTogether'
    BY <1>1 DEF Turn, ProbesAlternate, FieldsTogether, Requests
  <1>3. SeenMode(c)'
    BY <1>1 DEF Turn, SeenMode
  <1>4. CooldownKept(c)'
    <2>1. hash.mode = "open" => hash.open_until \in Nat /\ hash.open_until <= clock + OpenFor
      BY DEF Turn, FieldsTogether, Justified, TypeOK, Hashes, Optional, HashJustified
    <2>2. hash.mode = "open" => expireAt' = clock + StateTtl
      BY <1>1 DEF Fresh
    <2>3. StateTtl \in Nat /\ StateTtl >= OpenFor /\ clock \in Nat
      BY DEF StateTtl, Max2, Turn, Justified, TypeOK
    <2> QED BY <1>1, <2>1, <2>2, <2>3 DEF CooldownKept
  <1>5. StreakKept(c)'
    BY <1>1 DEF Turn, StreakKept, Counted
  <1> QED BY <1>2, <1>3, <1>4, <1>5 DEF Turn

(* A key that expires is a provider without a history. *)
LEMMA TickKeeps ==
    ASSUME NEW c \in Callers, Turn(c), Justified', Tick
    PROVE  Turn(c)'
  <1>1. /\ clock \in Nat /\ clock' = clock + 1
        /\ UNCHANGED <<pc, then, now, last, fails, streak, lastFail>>
    BY DEF Turn, Justified, TypeOK, Tick
  <1>2. CASE expireAt # 0 /\ expireAt < clock + 1
    <2>1. /\ hash'.mode = None /\ hash'.failure_count = None /\ hash'.last_timeout = None
          /\ Requests' = 0 /\ probes'.through = 0 /\ probes'.held = 0
      BY <1>2 DEF Tick, Fresh, NoProbes, Requests
    <2>3. ProbesAlternate' /\ FieldsTogether'
      BY <2>1 DEF ProbesAlternate, FieldsTogether
    <2>4. SeenMode(c)' /\ CooldownKept(c)' /\ StreakKept(c)'
      BY <1>1, <2>1 DEF Turn, SeenMode, CooldownKept, StreakKept
    <2> QED BY <2>3, <2>4 DEF Turn
  <1>3. CASE ~(expireAt # 0 /\ expireAt < clock + 1)
    <2>1. UNCHANGED <<hash, expireAt, probes>>
      BY <1>3 DEF Tick
    <2>2. ProbesAlternate' /\ FieldsTogether'
      BY <2>1 DEF Turn, ProbesAlternate, FieldsTogether, Requests
    <2>3. SeenMode(c)' /\ StreakKept(c)'
      BY <1>1, <2>1 DEF Turn, SeenMode, StreakKept, Counted, Requests
    <2>4. CooldownKept(c)'
      <3>1. hash.mode = "open" => hash.open_until \in Nat
        BY DEF Turn, FieldsTogether, Justified, TypeOK, Hashes, Optional
      <3> QED BY <1>1, <2>1, <3>1 DEF Turn, CooldownKept
    <2> QED BY <2>2, <2>3, <2>4 DEF Turn
  <1> QED BY <1>2, <1>3

(* When nobody is inside, it is anybody's turn. *)
LEMMA TurnPasses ==
    ASSUME NEW c \in Callers, NEW d \in Callers, Turn(c),
           pc[c] \notin Inside, pc[d] \notin Inside
    PROVE  Turn(d)
  BY DEF Turn, SeenMode, CooldownKept, StreakKept, Inside, Allowing, Recording

Turns == \E c \in Callers : Turn(c) /\ \A d \in Callers \ {c} : pc[d] \notin Inside

(* The steps of the caller c itself *)
Own(c) ==
    \/ Call(c) \/ Answer(c) \/ Fail(c) \/ Raise(c) \/ ReturnBlocked(c)
    \/ AllowMode(c) \/ AllowUntil(c) \/ AllowHalf(c) \/ AllowProbe(c)
    \/ FailureMode(c) \/ FailureLast(c) \/ FailureCount(c) \/ FailureSet(c)
    \/ SuccessMode(c) \/ SuccessCount(c) \/ SuccessSet(c) \/ Expire(c)

LEMMA OwnKeeps ==
    ASSUME NEW c \in Callers, Turn(c), Justified', Own(c)
    PROVE  Turn(c)'
  BY CallKeeps, AllowKeeps, FailureKeeps, FailureSetKeeps, SuccessKeeps, ExpireKeeps DEF Own

(* A step of one caller leaves the others where they are. *)
LEMMA OthersStay ==
    ASSUME NEW c \in Callers, NEW d \in Callers \ {c}, pc \in [Callers -> Phases], Own(c)
    PROVE  pc'[d] = pc[d]
  BY DEF Own, Call, Answer, Fail, Raise, ReturnBlocked, AllowMode, AllowUntil, AllowHalf,
         AllowProbe, FailureMode, FailureLast, FailureCount, FailureSet, SuccessMode,
         SuccessCount, SuccessSet, Expire, HSet, Go

(* A caller that is outside comes in with its first command, or stays outside
   and touches nothing. *)
LEMMA StartsOutside ==
    ASSUME NEW d \in Callers, pc \in [Callers -> Phases], pc[d] \notin Inside, Own(d)
    PROVE  /\ UNCHANGED <<clock, hash, expireAt, locals, then, history>>
           /\ pc[d] \in {"idle", "inflight", "blocked"}
           /\ pc'[d] \in {"a_mode", "s_mode", "f_mode", "idle"}
  <1>1. Call(d) \/ Answer(d) \/ Fail(d) \/ Raise(d) \/ ReturnBlocked(d)
    BY DEF Own, Inside, Allowing, Recording, AllowMode, AllowUntil, AllowHalf, AllowProbe,
           FailureMode, FailureLast, FailureCount, FailureSet, SuccessMode, SuccessCount,
           SuccessSet, Expire
  <1> QED
    BY <1>1 DEF Call, Answer, Fail, Raise, ReturnBlocked, Go

LEMMA TurnsNext ==
    ASSUME ~RedisMayFail, Turns, TakeTurns', [Next]_vars
    PROVE  Turns'
  <1> PICK c \in Callers : Turn(c) /\ \A d \in Callers \ {c} : pc[d] \notin Inside
    BY DEF Turns
  <1>1. pc \in [Callers -> Phases] /\ Justified'
    BY JustifiedNext DEF Turn, Justified, TypeOK
  <1>2. CASE Tick
    <2>1. pc' = pc
      BY <1>2 DEF Tick
    <2> QED BY <1>1, <1>2, <2>1, TickKeeps DEF Turns
  <1>3. CASE UNCHANGED vars
    BY <1>3 DEF vars, Turns, Turn, ProbesAlternate, FieldsTogether, SeenMode, CooldownKept,
                StreakKept, Counted, Requests, Justified, TypeOK, ReadPast, CauseKnown,
                HashJustified, Mode
  <1>4. ASSUME Own(c)
        PROVE  Turns'
    BY <1>1, <1>4, OwnKeeps, OthersStay DEF Turns
  <1>5. ASSUME NEW d \in Callers \ {c}, Own(d)
        PROVE  Turns'
    <2>1. /\ UNCHANGED <<clock, hash, expireAt, locals, then, history>>
          /\ pc[d] \notin Inside /\ pc'[d] \in {"a_mode", "s_mode", "f_mode", "idle"}
      BY <1>1, <1>5, StartsOutside
    <2>2. \A e \in Callers \ {d} : pc'[e] = pc[e]
      BY <1>1, <1>5, OthersStay
    <2>3. CASE pc'[d] \notin Inside
      <3>1. Turn(c)'
        BY <1>1, <2>1, <2>2 DEF Turn, ProbesAlternate, FieldsTogether, SeenMode, CooldownKept,
             StreakKept, Counted, Requests
      <3> QED BY <2>2, <2>3, <3>1 DEF Turns
    <2>4. CASE pc'[d] \in Inside
      <3>1. pc[c] \notin Inside
        BY <2>2, <2>4 DEF TakeTurns
      <3>2. Turn(d)
        BY <2>1, <3>1, TurnPasses
      <3>3. Turn(d)'
        BY <1>1, <1>5, <3>2, OwnKeeps
      <3> QED BY <2>2, <3>1, <3>3 DEF Turns
    <2> QED BY <2>3, <2>4
  <1>6. \A d \in Callers : ~RedisFails(d)
    BY DEF RedisFails
  <1> QED
    BY <1>2, <1>3, <1>4, <1>5, <1>6 DEF Next, Own

LEMMA TurnsInvariant ==
    ASSUME Callers # {}, ~RedisMayFail
    PROVE  Spec /\ []TakeTurns => []Turns
  <1>1. Init => Turns
    BY TurnInit DEF Turns, Init, Inside, Allowing, Recording
  <1>2. Turns /\ TakeTurns' /\ [Next]_vars => Turns'
    BY TurnsNext
  <1> QED
    BY <1>1, <1>2, PTL DEF Spec

-----------------------------------------------------------------------------
(* Callers that take turns get what the breaker's comments promise, whatever
   calls are in flight in between. *)

(* "odd requests are admitted (50%)" (line 82): whatever the thresholds, the
   probes of a recovery that go through never outnumber those held back by
   more than one. *)
THEOREM ProbesAreHalved ==
    ASSUME Callers # {}, ~RedisMayFail
    PROVE  Spec /\ []TakeTurns => []HalfGoThrough
  <1>1. Turns => HalfGoThrough
    <2> SUFFICES ASSUME Turns PROVE HalfGoThrough
      OBVIOUS
    <2>1. Requests \in Nat /\ probes.through \in Nat /\ probes.held \in Nat
      BY DEF Turns, Turn, Justified, TypeOK, Hashes, Optional, Requests
    <2> QED BY <2>1 DEF Turns, Turn, ProbesAlternate, HalfGoThrough
  <1> QED
    BY <1>1, TurnsInvariant, PTL

(* "Number of consecutive timeouts needed to open it" (line 21): a provider
   whose history the hash holds is cut off after that many. Only two records
   that overlap can lose a failure; calls that overlap cannot. *)
THEOREM OpensInTime ==
    ASSUME Callers # {}, ~RedisMayFail
    PROVE  Spec /\ []TakeTurns => []TrackedOpensAtThreshold
  <1>1. Turns => TrackedOpensAtThreshold
    <2> SUFFICES ASSUME Turns, Quiet, streak >= Threshold, hash.failure_count # None
                 PROVE  Mode \in {"open", "half_open"}
      BY DEF TrackedOpensAtThreshold
    <2> PICK c \in Callers : Turn(c)
      BY DEF Turns
    <2>1. pc[c] \in {"idle", "inflight", "blocked"}
      BY DEF Quiet
    <2>2. streak \in Nat
      BY DEF Turn, Justified, TypeOK
    <2>3. hash.mode # None /\ hash.mode # "closed"
      BY <2>1, <2>2 DEF Turn, FieldsTogether, StreakKept
    <2> QED BY <2>3 DEF Turn, Justified, TypeOK, Hashes, Optional, Mode
  <1> QED
    BY <1>1, TurnsInvariant, PTL

-----------------------------------------------------------------------------
(* What can cut a cooldown short *)

(* The key of an open breaker outlives its cooldown, however updates race: the
   TTL is counted from the EXPIRE, which comes after the clock was read. *)
KeyOutlives ==
    hash.mode = "open" =>
        /\ hash.open_until # None
        /\ Settled => expireAt >= hash.open_until

Cooling == hash.mode = "open" /\ clock < hash.open_until /\ Settled

(* A call that was let through reports its outcome, *)
Reported == \E c \in Callers : SuccessSet(c) \/ FailureSet(c)

(* or goes on with a cooldown that it read, and that was over, before this one
   began. *)
ReadAnother == \E c \in Callers : AllowHalf(c)

LEMMA KeyOutlivesNext ==
    ASSUME ~RedisMayFail, Justified, KeyOutlives, [Next]_vars
    PROVE  KeyOutlives'
  <1>0. /\ hash \in Hashes /\ pc \in [Callers -> Phases] /\ clock \in Nat /\ expireAt \in Nat
        /\ now \in [Callers -> Nat]
        /\ hash.open_until # None => hash.open_until \in Nat /\ hash.open_until <= clock + OpenFor
    BY DEF Justified, TypeOK, Hashes, Optional, HashJustified
  <1> USE DEF KeyOutlives
  <1>1. CASE Tick
    <2>1. /\ pc' = pc
          /\ \/ hash' = hash /\ expireAt' = expireAt
             \/ hash' = Fresh
      BY <1>1 DEF Tick
    <2> QED BY <2>1 DEF Settled, Fresh
  <1>2. CASE UNCHANGED vars
    BY <1>2 DEF vars, Settled
  <1>3. ASSUME NEW c \in Callers, Own(c)
        PROVE  KeyOutlives'
    <2>1. CASE Expire(c)
      <3>1. hash' = hash /\ (hash = Fresh \/ expireAt' = clock + StateTtl)
        BY <2>1 DEF Expire
      <3>2. StateTtl \in Nat /\ StateTtl >= OpenFor
        BY DEF StateTtl, Max2
      <3>3. CASE hash = Fresh
        BY <3>1, <3>3 DEF Fresh
      <3>4. CASE hash # Fresh
        BY <1>0, <3>1, <3>2, <3>4
      <3> QED BY <3>3, <3>4
    <2>2. CASE AllowHalf(c) \/ FailureSet(c) \/ SuccessSet(c)
      <3>1. pc'[c] = "expire"
        BY <1>0, <2>2 DEF AllowHalf, FailureSet, SuccessSet, HSet, Go
      <3>2. hash'.mode = "open" => hash'.open_until = now[c] + OpenFor
        <4>1. CASE AllowHalf(c)
          BY <1>0, <4>1, HalfOpenFields DEF AllowHalf, HSet
        <4>2. CASE SuccessSet(c)
          BY <1>0, <4>2, ClearedFields DEF SuccessSet, HSet
        <4>3. CASE FailureSet(c)
          <5>1. fails[c] \in Nat /\ now[c] \in Nat
            BY DEF Justified, TypeOK
          <5> QED BY <1>0, <4>3, <5>1, OpenedFields, CountedFields DEF FailureSet, HSet
        <4> QED BY <2>2, <4>1, <4>2, <4>3
      <3> QED BY <1>0, <3>1, <3>2 DEF Settled
    <2>3. CASE ~(Expire(c) \/ AllowHalf(c) \/ FailureSet(c) \/ SuccessSet(c))
      <3>1. /\ hash'.mode = hash.mode /\ hash'.open_until = hash.open_until
            /\ expireAt' = expireAt /\ pc[c] # "expire"
        BY <1>0, <1>3, <2>3 DEF Own, Call, Answer, Fail, Raise, ReturnBlocked, AllowMode, AllowUntil,
             AllowProbe, FailureMode, FailureLast, FailureCount, SuccessMode, SuccessCount, Hashes
      <3>2. Settled' => Settled
        BY <1>0, <1>3, <3>1, OthersStay DEF Settled
      <3> QED BY <3>1, <3>2
    <2> QED BY <2>1, <2>2, <2>3
  <1>4. \A c \in Callers : ~RedisFails(c)
    BY DEF RedisFails
  <1> QED
    BY <1>1, <1>2, <1>3, <1>4 DEF Next, Own

LEMMA KeyOutlivesInvariant ==
    ASSUME ~RedisMayFail
    PROVE  Spec => [](Justified /\ KeyOutlives)
  <1>1. Init => KeyOutlives
    BY DEF Init, Fresh, KeyOutlives
  <1> QED
    BY <1>1, JustifiedInvariant, KeyOutlivesNext, PTL DEF Spec

(* Only these commands take a breaker out of its cooldown. *)
LEMMA WhoEnds ==
    ASSUME Justified, KeyOutlives, Cooling, Next, hash'.mode # "open", ~RedisMayFail
    PROVE  Reported \/ ReadAnother
  <1>0. /\ hash \in Hashes /\ clock \in Nat /\ expireAt \in Nat /\ hash.open_until \in Nat
        /\ hash.mode = "open" /\ clock < hash.open_until /\ expireAt >= hash.open_until
    BY DEF Justified, TypeOK, KeyOutlives, Cooling, Hashes, Optional
  <1>1. ~Tick
    BY <1>0 DEF Tick
  <1>2. PICK c \in Callers : Own(c)
    BY <1>1 DEF Next, Own, RedisFails
  <1>3. ~(\/ Call(c) \/ Answer(c) \/ Fail(c) \/ Raise(c) \/ ReturnBlocked(c)
          \/ AllowMode(c) \/ AllowUntil(c) \/ AllowProbe(c)
          \/ FailureMode(c) \/ FailureLast(c) \/ FailureCount(c)
          \/ SuccessMode(c) \/ SuccessCount(c) \/ Expire(c))
    BY <1>0 DEF Call, Answer, Fail, Raise, ReturnBlocked, AllowMode, AllowUntil, AllowProbe,
         FailureMode, FailureLast, FailureCount, SuccessMode, SuccessCount, Expire, Hashes
  <1> QED
    BY <1>2, <1>3 DEF Own, Reported, ReadAnother

(* Whatever callers race, a cooldown ends early neither by time nor by Redis,
   which does not forget the breaker meanwhile, but by a caller that was already
   past its reading of the breaker: it reports what became of a call that it was
   let through with, or begins the recovery from a cooldown before this one. *)
THEOREM OnlyCallersEndCooldowns ==
    ASSUME ~RedisMayFail
    PROVE  Spec => [][Cooling /\ hash'.mode # "open" => Reported \/ ReadAnother]_vars
  <1>1. ASSUME Justified, KeyOutlives, [Next]_vars
        PROVE  [Cooling /\ hash'.mode # "open" => Reported \/ ReadAnother]_vars
    BY <1>1, WhoEnds
  <1> QED
    BY <1>1, KeyOutlivesInvariant, PTL DEF Spec

(* If callers take turns with the breaker, only a call that was let through
   before it opened can: nobody begins the recovery early. *)
THEOREM OnlyReportsEndCooldowns ==
    ASSUME Callers # {}, ~RedisMayFail
    PROVE  Spec /\ []TakeTurns => [][Cooling /\ hash'.mode # "open" => Reported]_vars
  <1>1. ASSUME Justified, KeyOutlives, Turns, [Next]_vars
        PROVE  [Cooling /\ hash'.mode # "open" => Reported]_vars
    <2> SUFFICES ASSUME Cooling, hash'.mode # "open", Next
                 PROVE  Reported
      BY <1>1
    <2>1. Reported \/ ReadAnother
      BY <1>1, WhoEnds
    <2>2. ASSUME NEW d \in Callers, AllowHalf(d)
          PROVE  FALSE
      <3>1. pc[d] = "a_half"
        BY <2>2 DEF AllowHalf
      <3>2. PICK c \in Callers : Turn(c) /\ \A e \in Callers \ {c} : pc[e] \notin Inside
        BY <1>1 DEF Turns
      <3>3. d = c
        BY <3>1, <3>2 DEF Inside, Allowing
      <3>4. clock \in Nat /\ hash.open_until \in Nat /\ clock >= hash.open_until
        BY <1>1, <3>1, <3>2, <3>3 DEF Turn, CooldownKept, Cooling, Justified, TypeOK, Hashes,
             Optional, KeyOutlives
      <3> QED BY <3>4 DEF Cooling
    <2> QED BY <2>1, <2>2 DEF ReadAnother
  <1> QED
    BY <1>1, KeyOutlivesInvariant, TurnsInvariant, PTL DEF Spec

-----------------------------------------------------------------------------
(* One call at a time *)

(* While the breaker is open no call is in flight. *)
OpenSeen ==
    hash.mode = "open" =>
        \A c \in Callers :
            \/ pc[c] \in {"idle", "a_mode", "a_until", "a_half", "blocked"}
            \/ pc[c] = "expire" /\ then[c] = "idle"

LEMMA OneCallTakesTurns == OneCallAtATime => TakeTurns
  BY DEF OneCallAtATime, TakeTurns, Inside, Allowing, Recording

LEMMA OpenSeenNext ==
    ASSUME ~RedisMayFail, Turns, OneCallAtATime, OpenSeen, [Next]_vars
    PROVE  OpenSeen'
  <1>1. PICK c \in Callers : Turn(c) /\ \A d \in Callers \ {c} : pc[d] \notin Inside
    BY DEF Turns
  <1>0. /\ hash \in Hashes /\ pc \in [Callers -> Phases] /\ then \in [Callers -> {"idle", "a_probe"}]
        /\ fails \in [Callers -> Nat] /\ now \in [Callers -> Nat]
    BY <1>1 DEF Turn, Justified, TypeOK
  <1>2. CASE Tick
    BY <1>2 DEF Tick, OpenSeen, Fresh
  <1>3. CASE UNCHANGED vars
    BY <1>3 DEF vars, OpenSeen
  <1>4. ASSUME NEW d \in Callers, Own(d), hash'.mode = "open"
        PROVE  OpenSeen'
    <2>1. \A e \in Callers \ {d} : pc'[e] = pc[e] /\ then'[e] = then[e]
      <3>1. \A e \in Callers \ {d} : then'[e] = then[e]
        BY <1>0, <1>4 DEF Own, Call, Answer, Fail, Raise, ReturnBlocked, AllowMode, AllowUntil,
             AllowHalf, AllowProbe, FailureMode, FailureLast, FailureCount, FailureSet,
             SuccessMode, SuccessCount, SuccessSet, Expire, HSet
      <3> QED BY <1>0, <1>4, <3>1, OthersStay
    <2>2. CASE FailureSet(d)
      <3>1. pc[d] = "f_set" /\ pc'[d] = "expire" /\ then'[d] = "idle"
        BY <1>0, <2>2 DEF FailureSet, HSet, Go
      <3>2. \A e \in Callers \ {d} : pc[e] = "idle"
        BY <3>1 DEF OneCallAtATime
      <3> QED BY <2>1, <3>1, <3>2 DEF OpenSeen
    <2>3. ~(AllowHalf(d) \/ SuccessSet(d))
      BY <1>0, <1>4, HalfOpenFields, ClearedFields DEF AllowHalf, SuccessSet, HSet
    <2>4. CASE ~FailureSet(d)
      <3>1. hash.mode = "open"
        BY <1>0, <1>4, <2>3, <2>4 DEF Own, Call, Answer, Fail, Raise, ReturnBlocked, AllowMode, AllowUntil,
             AllowProbe, FailureMode, FailureLast, FailureCount, SuccessMode, SuccessCount,
             Expire, Hashes
      <3>2. \/ pc[d] \in {"idle", "a_mode", "a_until", "a_half", "blocked"}
            \/ pc[d] = "expire" /\ then[d] = "idle"
        BY <3>1 DEF OpenSeen
      <3>3. hash.open_until # None
        BY <1>1, <3>1 DEF Turn, FieldsTogether
      <3>4. \/ pc'[d] \in {"idle", "a_mode", "a_until", "a_half", "blocked"}
            \/ pc'[d] = "expire" /\ then'[d] = "idle"
        BY <1>0, <1>4, <2>3, <2>4, <3>1, <3>2, <3>3
           DEF Own, Call, Answer, Fail, Raise, ReturnBlocked, AllowMode, AllowUntil, AllowProbe,
               FailureMode, FailureLast, FailureCount, SuccessMode, SuccessCount, Expire, Go, Mode
      <3> QED BY <2>1, <3>1, <3>4 DEF OpenSeen
    <2> QED BY <2>2, <2>4
  <1>5. \A d \in Callers : ~RedisFails(d)
    BY DEF RedisFails
  <1> QED
    BY <1>2, <1>3, <1>4, <1>5 DEF Next, Own, OpenSeen

LEMMA OpenSeenInvariant ==
    ASSUME Callers # {}, ~RedisMayFail
    PROVE  Spec /\ []OneCallAtATime => [](Turns /\ OpenSeen)
  <1>1. Init => OpenSeen
    BY DEF Init, OpenSeen
  <1> QED
    BY <1>1, OneCallTakesTurns, TurnsInvariant, OpenSeenNext, PTL DEF Spec

(* "Time to block all requests before trying recovery" (line 23): with one call
   at a time the breaker stays open for the whole cooldown, and Redis does not
   forget that it is. *)
THEOREM CooldownIsKept ==
    ASSUME Callers # {}, ~RedisMayFail
    PROVE  Spec /\ []OneCallAtATime => CooldownBlocks
  <1>1. ASSUME OpenSeen
        PROVE  [Cooling /\ hash'.mode # "open" => Reported]_vars
                 => [hash.mode = "open" /\ clock < hash.open_until /\ Settled
                       => hash'.mode = "open"]_vars
    BY <1>1 DEF OpenSeen, Cooling, Reported, SuccessSet, FailureSet
  <1> QED
    BY <1>1, OneCallTakesTurns, OpenSeenInvariant, OnlyReportsEndCooldowns, PTL
       DEF CooldownBlocks
=============================================================================
