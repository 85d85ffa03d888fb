----------------------------- MODULE RateLimiter -----------------------------
(***************************************************************************)
(* The rate_limit dependency and RedisSlidingWindowRateLimiter.hit of      *)
(* core/rate_limiter/rate_limit.py: requests served by any number of       *)
(* processes that share one Redis.                                         *)
(*                                                                         *)
(* A request passes the per-IP check, then the per-identifier check.  Each *)
(* check is one call of hit, an optimistic transaction on a sorted set:    *)
(*                                                                         *)
(*   clock -> trim -> watch -> count -> oldest -> exec                     *)
(*     ^                      |        |           |  WatchError           *)
(*     +------------------- backoff <--------------+                       *)
(*                                                                         *)
(* WatchError is what redis-py raises when the watched key has changed and *)
(* also when the connection breaks while it watches: then nobody knows     *)
(* whether an EXEC on its way was applied, and hit tries again under a new *)
(* member of the sorted set.                                               *)
(*                                                                         *)
(* One action is one await, the point where other requests interleave.     *)
(* Time is counted in ticks, TicksPerSecond of them to the second, so that *)
(* rounding milliseconds up to whole seconds is visible.                   *)
(***************************************************************************)
EXTENDS Integers, FiniteSets

CONSTANTS
    Requests,        \* HTTP requests that reach a limited route
    Keys,            \* Redis keys "rate_limit:<scope>:<route>:<digest>"
    NoKey,           \* the scope does not apply (disabled, or no identifier)
    IpKey, AuthKey,  \* the key each request is counted under in each scope
    LimitOf,         \* limit of the route a key belongs to
    WindowSecondsOf, \* window_seconds of that route
    TicksPerSecond,  \* clock resolution: 1000 in the code
    WatchRetries,    \* rate_limit_watch_retries
    MaxClock         \* bound of the model: last tick of the clock

ASSUME NoKeyAssumption == NoKey \notin Keys
ASSUME KeysAssumption ==
    /\ IpKey \in [Requests -> Keys \cup {NoKey}]
    /\ AuthKey \in [Requests -> Keys \cup {NoKey}]
ASSUME ScopesAssumption ==   \* the scope is part of the key
    \A r, s \in Requests : IpKey[r] = AuthKey[s] => IpKey[r] = NoKey
ASSUME LimitAssumption == LimitOf \in [Keys -> Nat \ {0}]
ASSUME WindowAssumption == WindowSecondsOf \in [Keys -> Nat \ {0}]
ASSUME TickAssumption == TicksPerSecond \in Nat \ {0}
ASSUME RetriesAssumption == WatchRetries \in Nat
ASSUME ClockAssumption == MaxClock \in Nat

Max2(a, b) == IF a >= b THEN a ELSE b

WindowOf == [k \in Keys |-> WindowSecondsOf[k] * TicksPerSecond]

TtlOf(k) == Max2(WindowSecondsOf[k] * 2, 1) * TicksPerSecond

Watching == {"count", "oldest", "exec"}
Calling  == {"trim", "watch"} \cup Watching
Refused  == {"rejected", "conflict", "failed", "unreachable"}
Done     == {"admitted"} \cup Refused
Phases   == {"idle", "clock", "backoff"} \cup Calling \cup Done

VARIABLES
    clock,    \* time.time() of every process and of Redis
    zset,     \* Redis: the entries of each sorted set
    expireAt, \* Redis: when each key expires (0: the key does not exist)
    dirty,    \* Redis: the key the connection watches was changed
    pc,       \* where each request is
    scope,    \* the check it is in
    attempt,  \* local variables of its hit
    nowMs,
    count,
    retry,    \* retry_after_seconds of its RateLimitExceeded
    log,      \* history: every entry ever added under a key
    lost,     \* history: those of them whose EXEC got no reply
    seen      \* history: the entries present when the request was refused

redis == <<zset, expireAt>>
vars == <<clock, zset, expireAt, dirty, pc, scope, attempt, nowMs, count,
          retry, log, lost, seen>>

Attempts == Max2(WatchRetries, 1)

(* A member of the sorted set: each attempt of a request makes a uuid of its
   own for it. *)
Entries == [req : Requests, attempt : Nat, score : 0 .. MaxClock]

EntryOf(r) == [req |-> r, attempt |-> attempt[r], score |-> nowMs[r]]

KeyOf(r) == IF scope[r] = "ip" THEN IpKey[r] ELSE AuthKey[r]

(* Mutant: WATCH is issued only just before MULTI, after the reads. *)
BrokenWatchLate(K) ==
    [r \in Requests |-> dirty[r] \/ (pc[r] = "exec" /\ KeyOf(r) \in K)]

(* Connections whose WATCH a change of the keys K breaks. *)
Broken(K) ==
    [r \in Requests |-> dirty[r] \/ (pc[r] \in Watching /\ KeyOf(r) \in K)]

InWindow(k) == {e \in log[k] : e.score > clock - WindowOf[k]}

-----------------------------------------------------------------------------

(* Mutant: the delay is rounded down. *)
CeilSecondsFloor(ticks) == ticks \div TicksPerSecond

(* math.ceil(ticks / TicksPerSecond) *)
CeilSeconds(ticks) == -((-ticks) \div TicksPerSecond)

OldestScore(S) ==
    CHOOSE s \in {e.score : e \in S} : \A e \in S : s <= e.score

RetryAfterSeconds(S, now, k) ==
    IF S = {} THEN 1
              ELSE Max2(CeilSeconds(OldestScore(S) + WindowOf[k] - now), 1)

-----------------------------------------------------------------------------

Init ==
    /\ clock = 0
    /\ zset = [k \in Keys |-> {}]
    /\ expireAt = [k \in Keys |-> 0]
    /\ dirty = [r \in Requests |-> FALSE]
    /\ pc = [r \in Requests |-> "idle"]
    /\ scope = [r \in Requests |-> "ip"]
    /\ attempt = [r \in Requests |-> 0]
    /\ nowMs = [r \in Requests |-> 0]
    /\ count = [r \in Requests |-> 0]
    /\ retry = [r \in Requests |-> 0]
    /\ log = [k \in Keys |-> {}]
    /\ lost = [k \in Keys |-> {}]
    /\ seen = [r \in Requests |-> {}]

(* The dependency starts with the first scope that applies to the request. *)
Arrive(r) ==
    /\ pc[r] = "idle"
    /\ scope' = [scope EXCEPT ![r] = IF IpKey[r] # NoKey THEN "ip" ELSE "auth"]
    /\ pc' = [pc EXCEPT ![r] = IF IpKey[r] # NoKey \/ AuthKey[r] # NoKey
                                THEN "clock" ELSE "admitted"]
    /\ UNCHANGED <<clock, redis, dirty, attempt, nowMs, count, retry, log, lost, seen>>

(* Mutant: the clock is rounded up instead of truncated. *)
ReadClockRoundedUp(r) ==
    /\ pc[r] = "clock"
    /\ nowMs' = [nowMs EXCEPT ![r] = clock + 1]
    /\ pc' = [pc EXCEPT ![r] = "trim"]
    /\ UNCHANGED <<clock, redis, dirty, scope, attempt, count, retry, log, lost, seen>>

(* now_ms = int(time.time() * 1000) *)
ReadClock(r) ==
    /\ pc[r] = "clock"
    /\ nowMs' = [nowMs EXCEPT ![r] = clock]
    /\ pc' = [pc EXCEPT ![r] = "trim"]
    /\ UNCHANGED <<clock, redis, dirty, scope, attempt, count, retry, log, lost, seen>>

(* Mutant: the cutoff is one tick too late. *)
StaleOffByOne(k, now) == {e \in zset[k] : e.score <= now - WindowOf[k] + 1}

Stale(k, now) == {e \in zset[k] : e.score <= now - WindowOf[k]}

(* ZREMRANGEBYSCORE, before the WATCH.  A set left empty is deleted; only a
   removal counts as a change of the key. *)
Trim(r) ==
    LET k == KeyOf(r)
        old == Stale(k, nowMs[r])
    IN  /\ pc[r] = "trim"
        /\ zset' = [zset EXCEPT ![k] = @ \ old]
        /\ expireAt' = [expireAt EXCEPT ![k] = IF zset[k] = old THEN 0 ELSE @]
        /\ dirty' = IF old = {} THEN dirty ELSE Broken({k})
        /\ pc' = [pc EXCEPT ![r] = "watch"]
        /\ UNCHANGED <<clock, scope, attempt, nowMs, count, retry, log, lost, seen>>

Watch(r) ==
    /\ pc[r] = "watch"
    /\ dirty' = [dirty EXCEPT ![r] = FALSE]
    /\ pc' = [pc EXCEPT ![r] = "count"]
    /\ UNCHANGED <<clock, redis, scope, attempt, nowMs, count, retry, log, lost, seen>>

(* ZCARD *)
ReadCount(r) ==
    /\ pc[r] = "count"
    /\ count' = [count EXCEPT ![r] = Cardinality(zset[KeyOf(r)])]
    /\ pc' = [pc EXCEPT ![r] = "oldest"]
    /\ UNCHANGED <<clock, redis, dirty, scope, attempt, nowMs, retry, log, lost, seen>>

(* Mutant: request_count > limit. *)
ReadOldestOneMore(r) ==
    LET k == KeyOf(r) IN
    /\ pc[r] = "oldest"
    /\ IF count[r] > LimitOf[k]
         THEN /\ pc' = [pc EXCEPT ![r] = "rejected"]
              /\ retry' = [retry EXCEPT ![r] = RetryAfterSeconds(zset[k], nowMs[r], k)]
              /\ seen' = [seen EXCEPT ![r] = log[k]]
         ELSE /\ pc' = [pc EXCEPT ![r] = "exec"]
              /\ UNCHANGED <<retry, seen>>
    /\ UNCHANGED <<clock, redis, dirty, scope, attempt, nowMs, count, log, lost>>

(* ZRANGE 0 0, then the decision: RateLimitExceeded carries the delay after
   which the oldest entry will have left the window. *)
ReadOldest(r) ==
    LET k == KeyOf(r) IN
    /\ pc[r] = "oldest"
    /\ IF count[r] >= LimitOf[k]
         THEN /\ pc' = [pc EXCEPT ![r] = "rejected"]
              /\ retry' = [retry EXCEPT ![r] = RetryAfterSeconds(zset[k], nowMs[r], k)]
              /\ seen' = [seen EXCEPT ![r] = log[k]]
         ELSE /\ pc' = [pc EXCEPT ![r] = "exec"]
              /\ UNCHANGED <<retry, seen>>
    /\ UNCHANGED <<clock, redis, dirty, scope, attempt, nowMs, count, log, lost>>

(* Mutant: attempt + 1 > retries. *)
RetryOneMore(r) ==
    pc' = [pc EXCEPT ![r] = IF attempt[r] + 1 > WatchRetries THEN "conflict" ELSE "backoff"]

(* hit catches WatchError: it sleeps and tries again, or raises it. *)
Retry(r) ==
    pc' = [pc EXCEPT ![r] = IF attempt[r] + 1 >= WatchRetries THEN "conflict" ELSE "backoff"]

(* EXEC found the watched key changed. *)
Conflict(r) ==
    /\ pc[r] = "exec"
    /\ dirty[r]
    /\ Retry(r)
    /\ UNCHANGED <<clock, redis, dirty, scope, attempt, nowMs, count, retry, log, lost, seen>>

(* The connection breaks, or a reply takes too long, while the key is watched:
   redis-py raises WatchError.  If it was the EXEC, Redis has not applied it. *)
ConnectionLost(r) ==
    /\ pc[r] \in Watching
    /\ Retry(r)
    /\ UNCHANGED <<clock, redis, dirty, scope, attempt, nowMs, count, retry, log, lost, seen>>

(* Mutant: the pipeline does not WATCH the key. *)
AddUnwatched(r) ==
    LET k == KeyOf(r)
    IN  /\ pc[r] = "exec"
        /\ zset' = [zset EXCEPT ![k] = @ \cup {EntryOf(r)}]
        /\ expireAt' = [expireAt EXCEPT ![k] = clock + TtlOf(k)]
        /\ dirty' = Broken({k})
        /\ log' = [log EXCEPT ![k] = @ \cup {EntryOf(r)}]

(* EXEC runs ZADD and EXPIRE together. *)
Add(r) ==
    LET k == KeyOf(r)
    IN  /\ pc[r] = "exec"
        /\ ~dirty[r]
        /\ zset' = [zset EXCEPT ![k] = @ \cup {EntryOf(r)}]
        /\ expireAt' = [expireAt EXCEPT ![k] = clock + TtlOf(k)]
        /\ dirty' = Broken({k})
        /\ log' = [log EXCEPT ![k] = @ \cup {EntryOf(r)}]

(* Mutant: the identifier's check is skipped once the IP's has passed. *)
ExecuteFirstScopeOnly(r) ==
    /\ Add(r)
    /\ pc' = [pc EXCEPT ![r] = "admitted"]
    /\ UNCHANGED <<clock, scope, attempt, nowMs, count, retry, lost, seen>>

(* The reply arrives: hit returns and the dependency goes on with the
   identifier's check, if there is one. *)
Execute(r) ==
    /\ Add(r)
    /\ IF scope[r] = "ip" /\ AuthKey[r] # NoKey
         THEN /\ scope' = [scope EXCEPT ![r] = "auth"]
              /\ pc' = [pc EXCEPT ![r] = "clock"]
              /\ attempt' = [attempt EXCEPT ![r] = 0]
         ELSE /\ pc' = [pc EXCEPT ![r] = "admitted"]
              /\ UNCHANGED <<scope, attempt>>
    /\ UNCHANGED <<clock, nowMs, count, retry, lost, seen>>

(* The transaction is applied but the connection breaks before its reply: the
   slot is taken, and hit raises or takes another one. *)
ExecuteReplyLost(r) ==
    /\ Add(r)
    /\ Retry(r)
    /\ lost' = [lost EXCEPT ![KeyOf(r)] = @ \cup {EntryOf(r)}]
    /\ UNCHANGED <<clock, scope, attempt, nowMs, count, retry, seen>>

(* Mutant: the EXEC is repeated until it succeeds, without a new WATCH. *)
BackoffSameTransaction(r) ==
    /\ pc[r] = "backoff"
    /\ pc' = [pc EXCEPT ![r] = "exec"]
    /\ UNCHANGED <<clock, redis, dirty, scope, attempt, nowMs, count, retry, log, lost, seen>>

(* The sleep ends and the loop starts its next attempt, or runs out. *)
Backoff(r) ==
    /\ pc[r] = "backoff"
    /\ attempt' = [attempt EXCEPT ![r] = @ + 1]
    /\ pc' = [pc EXCEPT ![r] = IF attempt[r] + 1 < Attempts
                                THEN "clock" ELSE "unreachable"]
    /\ UNCHANGED <<clock, redis, dirty, scope, nowMs, count, retry, log, lost, seen>>

(* What the limiter does not catch: Redis answers a command with an error, or is
   not reached before the key is watched. *)
RedisFails(r) ==
    /\ pc[r] \in Calling
    /\ pc' = [pc EXCEPT ![r] = "failed"]
    /\ UNCHANGED <<clock, redis, dirty, scope, attempt, nowMs, count, retry, log, lost, seen>>

Expired == {k \in Keys : expireAt[k] # 0 /\ expireAt[k] < clock + 1}

(* Time passes.  Redis never serves a key past its expiry, and the expiry of a
   watched key breaks the WATCH. *)
Tick ==
    /\ clock < MaxClock
    /\ clock' = clock + 1
    /\ zset' = [k \in Keys |-> IF k \in Expired THEN {} ELSE zset[k]]
    /\ expireAt' = [k \in Keys |-> IF k \in Expired THEN 0 ELSE expireAt[k]]
    /\ dirty' = Broken(Expired)
    /\ UNCHANGED <<pc, scope, attempt, nowMs, count, retry, log, lost, seen>>

(* The steps a request takes by itself. *)
Step(r) ==
    \/ ReadClock(r)
    \/ Trim(r)
    \/ Watch(r)
    \/ ReadCount(r)
    \/ ReadOldest(r)
    \/ Conflict(r)
    \/ Execute(r)
    \/ Backoff(r)

Next ==
    \/ Tick
    \/ \E r \in Requests :
          \/ Arrive(r)
          \/ Step(r)
          \/ ConnectionLost(r)
          \/ ExecuteReplyLost(r)
          \/ RedisFails(r)

Spec == Init /\ [][Next]_vars

(* A request that entered hit is scheduled until it leaves; requests need not
   arrive, Redis need not fail, and no two requests need take turns. *)
FairSpec == Spec /\ \A r \in Requests : WF_vars(Step(r))

-----------------------------------------------------------------------------

TypeOK ==
    /\ clock \in 0 .. MaxClock
    /\ zset \in [Keys -> SUBSET Entries]
    /\ expireAt \in [Keys -> Nat]
    /\ dirty \in [Requests -> BOOLEAN]
    /\ pc \in [Requests -> Phases]
    /\ scope \in [Requests -> {"ip", "auth"}]
    /\ attempt \in [Requests -> Nat]
    /\ nowMs \in [Requests -> 0 .. MaxClock]
    /\ count \in [Requests -> Nat]
    /\ retry \in [Requests -> Nat]
    /\ log \in [Keys -> SUBSET Entries]
    /\ lost \in [Keys -> SUBSET Entries]
    /\ seen \in [Requests -> SUBSET Entries]

(* However requests interleave between their ZCARD and their EXEC, the sorted
   set of a key never holds more entries than its limit (lines 83-116). *)
NeverOverLimit == \A k \in Keys : Cardinality(zset[k]) <= LimitOf[k]

(* Neither trimming with a clock read some time ago nor the key's TTL drops an
   entry that still counts (lines 80-81, 115, 152). *)
NoEarlyEviction == \A k \in Keys : InWindow(k) \subseteq zset[k]

(* The promise of the limiter: at every moment the entries ever added whose
   time lies in the window ending now are within the limit (lines 69-141). *)
SlidingWindow == \A k \in Keys : Cardinality(InWindow(k)) <= LimitOf[k]

(* Retry-After is honest: once the delay the client was given has passed, the
   entries that were there when it was refused no longer fill the window
   (lines 93-98, 176-184). *)
RetryAfterIsEnough ==
    \A r \in Requests :
        LET k == KeyOf(r) IN
        pc[r] = "rejected" /\ clock >= nowMs[r] + retry[r] * TicksPerSecond
            => Cardinality(InWindow(k) \cap seen[r]) < LimitOf[k]

(* A request goes through only if it took a slot under every key it is counted
   under, and takes one for its identifier only after the one for its IP
   (lines 265-296). *)
Counted(r, k) == \E e \in log[k] : e.req = r

AdmittedIsCounted ==
    \A r \in Requests :
        /\ pc[r] = "admitted" =>
              \A k \in {IpKey[r], AuthKey[r]} \ {NoKey} : Counted(r, k)
        /\ AuthKey[r] # NoKey /\ IpKey[r] # NoKey /\ Counted(r, AuthKey[r])
              => Counted(r, IpKey[r])

(* The RuntimeError after the retry loop says "Unreachable code" (lines
   139-141): whatever the number of retries configured, it is. *)
LoopNeverFallsThrough == \A r \in Requests : pc[r] # "unreachable"

(* Every request that enters the limiter is answered: conflicts with other
   requests cannot keep it retrying (lines 79, 134-137). *)
HitTerminates == \A r \in Requests : pc[r] = "clock" ~> pc[r] \in Done

(* The admissions are those of a limiter that decides in one step. *)
Tries == 0 .. Attempts - 1
Abstract == INSTANCE AdmissionWindow WITH admitted <- log
Implements == Abstract!ASpec
=============================================================================
