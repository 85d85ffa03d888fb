--------------------------- MODULE CircuitBreaker ---------------------------
(***************************************************************************)
(* RedisCircuitBreaker of core/infra/circuit_breaker.py and the calls that *)
(* BaseExternalServiceClient.request brackets with it: callers in any      *)
(* number of processes share one Redis hash per provider.                  *)
(*                                                                         *)
(* A call asks allow_request, performs the HTTP request if it may, and     *)
(* reports the outcome with record_success or record_failure:              *)
(*                                                                         *)
(*   a_mode [-> a_until [-> a_half -> expire] -> a_probe] -> inflight      *)
(*   inflight -> s_mode [-> s_count] [-> s_set -> expire] -> idle          *)
(*   inflight -> f_mode [-> f_last -> f_count] -> f_set -> expire -> idle  *)
(*                                                                         *)
(* One action is one Redis command: none of the methods holds a lock or a  *)
(* transaction between what it reads and what it writes.                   *)
(***************************************************************************)
EXTENDS Integers, FiniteSets

CONSTANTS
    Callers,          \* tasks that call the provider, one call at a time each
    None,             \* a field the hash does not have
    Threshold,        \* timeout_threshold
    Window,           \* timeout_window_seconds, in ticks
    OpenFor,          \* open_seconds, in ticks
    SuccessThreshold, \* half_open_success_threshold
    RedisMayFail,     \* whether Redis commands raise in this instance
    MaxClock,         \* bound of the model: last tick of the clock
    MaxCalls          \* bound of the model: calls made altogether

ASSUME NoneAssumption == None \notin Int \cup {"closed", "open", "half_open"}
ASSUME ConfigAssumption ==
    /\ Threshold \in Nat \ {0}
    /\ SuccessThreshold \in Nat \ {0}
    /\ Window \in Nat
    /\ OpenFor \in Nat
ASSUME BoundAssumption ==
    RedisMayFail \in BOOLEAN /\ MaxClock \in Nat /\ MaxCalls \in Nat

Max2(a, b) == IF a >= b THEN a ELSE b

StateTtl == Max2(Max2(Window, OpenFor), 1) * 2

(* The clock starts far from 0, the last_timeout_ms of a cleared history. *)
Epoch == Window + 1

Allowing  == {"a_mode", "a_until", "a_half", "a_probe"}
Recording == {"s_mode", "s_count", "s_set", "f_mode", "f_last", "f_count", "f_set"}
Phases == {"idle", "inflight", "blocked", "expire"} \cup Allowing \cup Recording

VARIABLES
    clock,
    hash,      \* Redis: the hash "circuit-breaker:provider:<service>"
    expireAt,  \* Redis: when it expires (0: it has no TTL)
    pc,        \* where each caller is
    now,       \* locals of record_failure: now_ms,
    last,      \*   last_timeout_ms
    fails,     \*   and failures
    then,      \* where _hset_state returns to
    calls,     \* calls started
    wrote,     \* history: failures written to the hash
    streak,    \* history: consecutive failures reported, none more than
    lastFail,  \*   Window after the one before, and when the last one was
    probes     \* history: probes let through and held back in this recovery

locals == <<now, last, fails>>
history == <<wrote, streak, lastFail, probes>>
vars == <<clock, hash, expireAt, pc, locals, then, calls, history>>

Fresh == [mode |-> None, failure_count |-> None, last_timeout |-> None,
          open_until |-> None, successes |-> None, requests |-> None]

NoProbes == [through |-> 0, held |-> 0]

Mode == IF hash.mode = None THEN "closed" ELSE hash.mode

Merge(h, m) == [f \in DOMAIN h |-> IF f \in DOMAIN m THEN m[f] ELSE h[f]]

(* HINCRBY counts a missing field as 0. *)
Incremented(f) == IF hash[f] = None THEN 1 ELSE hash[f] + 1

Go(c, phase) == pc' = [pc EXCEPT ![c] = phase]

(* HSET, the first command of _hset_state; EXPIRE comes with the next step. *)
HSet(c, mapping, after) ==
    /\ hash' = Merge(hash, mapping)
    /\ then' = [then EXCEPT ![c] = after]
    /\ Go(c, "expire")
    /\ UNCHANGED <<clock, expireAt, locals, calls>>

-----------------------------------------------------------------------------

Init ==
    /\ clock = Epoch
    /\ hash = Fresh
    /\ expireAt = 0
    /\ pc = [c \in Callers |-> "idle"]
    /\ now = [c \in Callers |-> 0]
    /\ last = [c \in Callers |-> 0]
    /\ fails = [c \in Callers |-> 0]
    /\ then = [c \in Callers |-> "idle"]
    /\ calls = 0
    /\ wrote = 0
    /\ streak = 0
    /\ lastFail = 0
    /\ probes = NoProbes

(* The request around it. *)

Call(c) ==
    /\ pc[c] = "idle"
    /\ calls < MaxCalls
    /\ calls' = calls + 1
    /\ Go(c, "a_mode")
    /\ UNCHANGED <<clock, hash, expireAt, locals, then, history>>

(* The provider answers, anything but 429 and 5xx. *)
Answer(c) ==
    /\ pc[c] = "inflight"
    /\ Go(c, "s_mode")
    /\ UNCHANGED <<clock, hash, expireAt, locals, then, calls, history>>

(* A timeout, a 429 or a 5xx. *)
Fail(c) ==
    /\ pc[c] = "inflight"
    /\ Go(c, "f_mode")
    /\ UNCHANGED <<clock, hash, expireAt, locals, then, calls, history>>

(* Any other error is raised, and nothing is recorded. *)
Raise(c) ==
    /\ pc[c] = "inflight"
    /\ Go(c, "idle")
    /\ UNCHANGED <<clock, hash, expireAt, locals, then, calls, history>>

(* A call that may not go out returns at once with is_circuit_open. *)
ReturnBlocked(c) ==
    /\ pc[c] = "blocked"
    /\ Go(c, "idle")
    /\ UNCHANGED <<clock, hash, expireAt, locals, then, calls, history>>

(* allow_request *)

(* Mutant: every probe starts the recovery again. *)
AllowModeRestarts(c) ==
    /\ pc[c] = "a_mode"
    /\ Go(c, CASE Mode = "closed" -> "inflight"
               [] Mode = "open" -> "a_until"
               [] Mode = "half_open" -> "a_half")
    /\ UNCHANGED <<clock, hash, expireAt, locals, then, calls, history>>

AllowMode(c) ==
    /\ pc[c] = "a_mode"
    /\ Go(c, CASE Mode = "closed" -> "inflight"
               [] Mode = "open" -> "a_until"
               [] Mode = "half_open" -> "a_probe")
    /\ UNCHANGED <<clock, hash, expireAt, locals, then, calls, history>>

(* Mutant: the cooldown ends one tick early. *)
AllowUntilEarly(c) ==
    /\ pc[c] = "a_until"
    /\ Go(c, IF hash.open_until = None THEN "inflight"
             ELSE IF clock + 1 < hash.open_until THEN "blocked" ELSE "a_half")
    /\ UNCHANGED <<clock, hash, expireAt, locals, then, calls, history>>

(* int("None") raises when the key has expired since the mode was read, and an
   exception lets the call through. *)
AllowUntil(c) ==
    /\ pc[c] = "a_until"
    /\ Go(c, IF hash.open_until = None THEN "inflight"
             ELSE IF clock < hash.open_until THEN "blocked" ELSE "a_half")
    /\ UNCHANGED <<clock, hash, expireAt, locals, then, calls, history>>

AllowHalf(c) ==
    /\ pc[c] = "a_half"
    /\ HSet(c, [mode |-> "half_open", successes |-> 0, requests |-> 0], "a_probe")
    /\ UNCHANGED history

(* HINCRBY half_open_requests: odd numbers go through. *)
AllowProbe(c) ==
    LET n == Incremented("requests")
        through == n % 2 = 1
    IN  /\ pc[c] = "a_probe"
        /\ hash' = [hash EXCEPT !.requests = n]
        /\ Go(c, IF through THEN "inflight" ELSE "blocked")
        /\ probes' = IF through THEN [probes EXCEPT !.through = @ + 1]
                                ELSE [probes EXCEPT !.held = @ + 1]
        /\ UNCHANGED <<clock, expireAt, locals, then, calls, wrote, streak, lastFail>>

(* record_failure *)

FailureMode(c) ==
    /\ pc[c] = "f_mode"
    /\ now' = [now EXCEPT ![c] = clock]
    /\ fails' = [fails EXCEPT ![c] = Threshold]
    /\ Go(c, IF Mode = "half_open" THEN "f_set" ELSE "f_last")
    /\ streak' = IF clock - lastFail > Window THEN 1 ELSE streak + 1
    /\ lastFail' = clock
    /\ UNCHANGED <<clock, hash, expireAt, last, then, calls, wrote, probes>>

(* Mutant: a missing field passes through the conversion. *)
FailureLastUnchecked(c) ==
    /\ pc[c] = "f_last"
    /\ last' = [last EXCEPT ![c] = hash.last_timeout]
    /\ Go(c, "f_count")
    /\ UNCHANGED <<clock, hash, expireAt, now, fails, then, calls, history>>

(* int("None") raises on a hash without the field; the update is dropped. *)
FailureLast(c) ==
    /\ pc[c] = "f_last"
    /\ last' = [last EXCEPT ![c] = IF hash.last_timeout = None THEN @ ELSE hash.last_timeout]
    /\ Go(c, IF hash.last_timeout = None THEN "idle" ELSE "f_count")
    /\ UNCHANGED <<clock, hash, expireAt, now, fails, then, calls, history>>

(* Mutant: a failure is counted when read and again when written. *)
FailureCountTwice(c) ==
    /\ pc[c] = "f_count"
    /\ fails' = [fails EXCEPT ![c] =
                   IF hash.failure_count = None THEN @
                   ELSE IF now[c] - last[c] > Window THEN 1
                   ELSE hash.failure_count + 2]
    /\ Go(c, IF hash.failure_count = None THEN "idle" ELSE "f_set")
    /\ UNCHANGED <<clock, hash, expireAt, now, last, then, calls, history>>

FailureCount(c) ==
    /\ pc[c] = "f_count"
    /\ fails' = [fails EXCEPT ![c] =
                   IF hash.failure_count = None THEN @
                   ELSE IF now[c] - last[c] > Window THEN 1
                   ELSE hash.failure_count + 1]
    /\ Go(c, IF hash.failure_count = None THEN "idle" ELSE "f_set")
    /\ UNCHANGED <<clock, hash, expireAt, now, last, then, calls, history>>

(* Mutant: the cooldown is as long as the key's TTL. *)
OpenedForTtl(c) ==
    [mode |-> "open", failure_count |-> fails[c], last_timeout |-> now[c],
     open_until |-> now[c] + StateTtl, successes |-> 0, requests |-> 0]

Opened(c) ==
    [mode |-> "open", failure_count |-> fails[c], last_timeout |-> now[c],
     open_until |-> now[c] + OpenFor, successes |-> 0, requests |-> 0]

(* Mutant: one failure too few opens the breaker. *)
FailureSetOneEarly(c) ==
    /\ pc[c] = "f_set"
    /\ IF fails[c] + 1 >= Threshold
         THEN /\ HSet(c, Opened(c), "idle")
              /\ probes' = NoProbes
         ELSE /\ HSet(c, [mode |-> "closed", failure_count |-> fails[c],
                          last_timeout |-> now[c]], "idle")
              /\ UNCHANGED probes
    /\ wrote' = wrote + 1
    /\ UNCHANGED <<streak, lastFail>>

(* Mutant: failures > threshold. *)
FailureSetOneLate(c) ==
    /\ pc[c] = "f_set"
    /\ IF fails[c] > Threshold
         THEN /\ HSet(c, Opened(c), "idle")
              /\ probes' = NoProbes
         ELSE /\ HSet(c, [mode |-> "closed", failure_count |-> fails[c],
                          last_timeout |-> now[c]], "idle")
              /\ UNCHANGED probes
    /\ wrote' = wrote + 1
    /\ UNCHANGED <<streak, lastFail>>

FailureSet(c) ==
    /\ pc[c] = "f_set"
    /\ IF fails[c] >= Threshold
         THEN /\ HSet(c, Opened(c), "idle")
              /\ probes' = NoProbes
         ELSE /\ HSet(c, [mode |-> "closed", failure_count |-> fails[c],
                          last_timeout |-> now[c]], "idle")
              /\ UNCHANGED probes
    /\ wrote' = wrote + 1
    /\ UNCHANGED <<streak, lastFail>>

(* record_success *)

SuccessMode(c) ==
    /\ pc[c] = "s_mode"
    /\ Go(c, IF Mode = "half_open" THEN "s_count" ELSE "s_set")
    /\ streak' = 0
    /\ UNCHANGED <<clock, hash, expireAt, locals, then, calls, wrote, lastFail, probes>>

(* HINCRBY half_open_successes *)
SuccessCount(c) ==
    LET n == Incremented("successes")
    IN  /\ pc[c] = "s_count"
        /\ hash' = [hash EXCEPT !.successes = n]
        /\ Go(c, IF n < SuccessThreshold THEN "idle" ELSE "s_set")
        /\ UNCHANGED <<clock, expireAt, locals, then, calls, history>>

SuccessSet(c) ==
    /\ pc[c] = "s_set"
    /\ HSet(c, [mode |-> "closed", failure_count |-> 0, last_timeout |-> 0,
                successes |-> 0, requests |-> 0], "idle")
    /\ probes' = NoProbes
    /\ UNCHANGED <<wrote, streak, lastFail>>

(* Redis and time *)

(* EXPIRE, the second command of _hset_state; it does nothing to a key that
   is already gone. *)
Expire(c) ==
    /\ pc[c] = "expire"
    /\ expireAt' = IF hash = Fresh THEN 0 ELSE clock + StateTtl
    /\ Go(c, then[c])
    /\ UNCHANGED <<clock, hash, locals, then, calls, history>>

(* A command raises: allow_request lets the call through, the others give up. *)
RedisFails(c) ==
    LET allowing == \/ pc[c] \in Allowing
                    \/ pc[c] = "expire" /\ then[c] = "a_probe"
    IN  /\ RedisMayFail
        /\ pc[c] \in Allowing \cup Recording \cup {"expire"}
        /\ Go(c, IF allowing THEN "inflight" ELSE "idle")
        /\ UNCHANGED <<clock, hash, expireAt, locals, then, calls, history>>

(* Time passes; a key past its expiry is gone. *)
Tick ==
    LET expired == expireAt # 0 /\ expireAt < clock + 1
    IN  /\ clock < MaxClock
        /\ clock' = clock + 1
        /\ hash' = IF expired THEN Fresh ELSE hash
        /\ expireAt' = IF expired THEN 0 ELSE expireAt
        /\ probes' = IF expired THEN NoProbes ELSE probes
        /\ UNCHANGED <<pc, locals, then, calls, wrote, streak, lastFail>>

Next ==
    \/ Tick
    \/ \E c \in Callers :
          \/ Call(c) \/ Answer(c) \/ Fail(c) \/ Raise(c) \/ ReturnBlocked(c)
          \/ AllowMode(c) \/ AllowUntil(c) \/ AllowHalf(c) \/ AllowProbe(c)
          \/ FailureMode(c) \/ FailureLast(c) \/ FailureCount(c) \/ FailureSet(c)
          \/ SuccessMode(c) \/ SuccessCount(c) \/ SuccessSet(c)
          \/ Expire(c) \/ RedisFails(c)

Spec == Init /\ [][Next]_vars

-----------------------------------------------------------------------------

Optional(S) == S \cup {None}

Hashes == [mode : Optional({"closed", "open", "half_open"}),
           failure_count : Optional(Nat),
           last_timeout : Optional(Nat),
           open_until : Optional(Nat),
           successes : Optional(Nat),
           requests : Optional(Nat)]

TypeOK ==
    /\ clock \in Nat
    /\ hash \in Hashes
    /\ expireAt \in Nat
    /\ pc \in [Callers -> Phases]
    /\ now \in [Callers -> Nat]
    /\ last \in [Callers -> Nat]
    /\ fails \in [Callers -> Nat]
    /\ then \in [Callers -> {"idle", "a_probe"}]
    /\ calls \in Nat
    /\ wrote \in Nat
    /\ streak \in Nat
    /\ lastFail \in Nat
    /\ probes \in [through : Nat, held : Nat]

(* The provider is never cut off without cause: whatever updates race and
   whatever Redis loses, a breaker that is not closed, or a call held back,
   means at least Threshold failures were recorded (lines 99-136). *)
NoSpuriousOpen ==
    wrote < Threshold =>
        /\ Mode = "closed"
        /\ \A c \in Callers : pc[c] # "blocked"

(* The count can lose updates but never invents a failure: no count in the
   hash, or about to be written to it, exceeds the failures recorded and the
   caller's own (lines 113-136). *)
NoPhantomFailures ==
    /\ hash.failure_count # None => hash.failure_count <= wrote
    /\ \A c \in Callers : pc[c] = "f_set" => fails[c] <= wrote + 1

(* No outage outlasts its cooldown: however stale the clock a failing call
   used, calls are blocked for at most OpenFor from now (lines 66-70, 189). *)
CooldownIsBounded ==
    hash.open_until # None => hash.open_until <= clock + OpenFor

(* Nobody is between the HSET and the EXPIRE of an update. *)
Settled == \A c \in Callers : pc[c] # "expire"

(* "Time to block all requests before trying recovery" (line 23): an open
   breaker stays open until its cooldown ends. *)
CooldownBlocks ==
    [][hash.mode = "open" /\ clock < hash.open_until /\ Settled
         => hash'.mode = "open"]_vars

(* "odd requests are admitted (50%)" (line 82): in one recovery, the probes let
   through never outnumber those held back by more than one. *)
HalfGoThrough == probes.through <= probes.held + 1

Quiet == \A c \in Callers : pc[c] \in {"idle", "inflight", "blocked"}

(* "Number of consecutive timeouts needed to open it" (line 21): that many
   consecutive failures leave the breaker open, or already recovering. *)
OpensAtThreshold ==
    Quiet /\ streak >= Threshold => Mode \in {"open", "half_open"}

(* The same, for a provider whose history the hash holds. *)
TrackedOpensAtThreshold ==
    Quiet /\ streak >= Threshold /\ hash.failure_count # None
        => Mode \in {"open", "half_open"}
=============================================================================
