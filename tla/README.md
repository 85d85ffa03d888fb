# BaseWebService: a TLA+ development

BaseWebService is a pair of FastAPI services and a gRPC server built on one
`core` package: rate limiting, a circuit breaker around outgoing HTTP calls,
idempotent writes, routed database sessions, request logs in MongoDB, and the
start and stop of all of them. Little of it computes anything; what is hard is
what happens *between* the `await`s, between processes that share one Redis, and
when a step fails half way. That is what this directory models, checks with TLC
and proves with TLAPS.

## 1. Inventory

| Component (source) | State it keeps | Operations | What is hard | What makes it correct |
|---|---|---|---|---|
| Rate limiter (`core/rate_limiter/rate_limit.py`) | per key a Redis sorted set of timestamps and its TTL | `rate_limit` dependency (IP, then identifier), `hit` | five round trips per decision, shared by all processes; stale clocks; WATCH conflicts; TTL; lost replies | the window never overflows, nothing that counts is evicted, `Retry-After` is honest, the retry loop returns |
| Circuit breaker (`core/infra/circuit_breaker.py`) | one Redis hash per provider and its TTL | `allow_request`, `record_failure`, `record_success` | reads and writes in separate commands, no transaction; hash may not exist or expire; Redis errors swallowed | opens at the threshold, never without cause; blocks exactly the cooldown; recovers through probes |
| Outgoing HTTP (`core/infra/connectors/*`) | shared `httpx` client, loop-local semaphore | `request`, manager `initialize`/`close` | the breaker's decision is taken before the semaphore is waited for; some errors record nothing | every admitted call reports at most one outcome; permits are returned |
| Idempotency (`core/middlewares/idempotency_request.py`) | a Redis lock per body hash, with TTL | `dispatch` | the TTL can pass while the handler runs; DELETE without ownership; a handler that raises | one handler per body at a time |
| Database sessions (`core/db/session*.py`, `callbacks_after_commit.py`, `auto_session.py`) | session, pin flag, after-commit queue, ambient session in a context variable | `managed_session`, `session_scope`, `get_bind`, `auto_session` | commit, rollback and close each may fail or be cancelled; replica reads after writes; callbacks | nothing is committed after an error; callbacks run only after a commit; reads follow own writes |
| Engines (`core/db/engine_routing.py`, `lifespan.py`) | module-level engines | creation, dispose | chosen at import time from the environment | worker processes use the pool meant for them |
| System log (`core/infra/system_log/*`) | client, collection cache, singleton | `get`, writes, `close` | use after close, creation twice | no write on a closed client |
| Request log (`core/middlewares/log_request.py`) | a logged-once flag, background tasks | `dispatch`, log once, background write | streaming bodies, errors, tasks alive at shutdown | exactly one record per request |
| Request size (`core/middlewares/request_size.py`) | bytes received so far | `dispatch`, wrapped `receive` | chunked bodies without a length | no handler sees more than the limit |
| Lifespan (`core/fastapi_server/lifespan.py`, `core/infra/redis/*`, `*/app/api/application.py`) | what is open | start, stop | a start step that fails after others succeeded; requests in flight at stop | what was opened is closed, once, in an order its users survive |
| Celery worker (`*/app/celery/celery.py`) | worker loop, bootstrap flag | import, `init_worker`, `run_async`, `shutdown` | prefork, import order against `CELERY_WORKER`, signals | tasks run on a loop whose resources were opened in that process |
| gRPC server, client (`core/grpc_server`, `core/grpc_client`) | server, channel pools | `serve`, drain, pool get/close | signals, channels in use when closed | in-flight calls get their grace; no channel is handed out closed |
| Helpers, settings, migrations | none | | | |

**Interactions.** A request passes the middlewares (CORS, log, trusted host,
size, idempotency where an application installs it), then the `rate_limit`
dependency, then a session dependency and the handler, which may call providers
through the HTTP client and so through the breaker, or the gRPC server through a
channel of the pool. The limiter, the breaker and the idempotency lock meet only
in Redis, where every process of every instance sees the same keys; everything
else is per process. The lifespan opens and closes what all of them use; a record
of the request log may still be on its way when it does. A Celery worker uses the
same clients and engines on a loop of its own, in processes forked from one
another.

The hazards found in reading, each at its line with the properties that cover it,
are in `PROJECT.json`.

## 2. Modules

| Module | Role |
|---|---|
| `AdmissionWindow` | abstract: a limiter that decides in one step |
| `RateLimiter`, `MCRateLimiter` | `rate_limit` and `hit`, one action per Redis round trip |
| `RateLimiterProofs` | invariants and refinement, for all constants |
| `CircuitBreaker`, `MCCircuitBreaker` | the three methods of the breaker, one action per Redis command, around a call |
| `CircuitBreakerProofs` | what holds for any number of callers and any Redis error |
| `BreakerTurnsProofs` | what holds for callers that take turns, or have one call at a time, and a Redis that answers |
| `Idempotency`, `MCIdempotency` | the middleware's lock by request body, from SET NX EX to DELETE |
| `IdempotencyProofs` | mutual exclusion and the life of a lock, for all constants |
| `UnitOfWork` | abstract: what a session promises to the code that opens it |
| `DbSession`, `MCDbSession` | `managed_session`, routing, pools, callbacks, `AutoSession` |
| `DbSessionProofs` | invariants, pools, refinement of `UnitOfWork` and what it gives, how a session ends |
| `RequestLog`, `MCRequestLog` | a request through log and size middleware, its record, the Mongo singleton, shutdown |
| `RequestLogProofs` | its invariants, and the order of answers and records |
| `Lifespan` | start and stop of a FastAPI process, everything that can raise on the way |
| `GrpcServer` | the gRPC process: signals, grace, telemetry |
| `Gateway`, `MCGateway` | composes `Lifespan` and `GrpcServer` through the calls of `/health/grpc` |
| `GatewayProofs` | invariants of the composition, and the steps of its shutdown |
| `CeleryWorker`, `MCCeleryWorker` | processes, loops, connections and tasks of a worker |
| `CeleryWorkerProofs` | its invariants |

### RateLimiter

`clock` is `time.time()`, common to all processes and to Redis, in ticks
(`TicksPerSecond` to the second; 1000 in the code). `zset[k]` and `expireAt[k]`
are the sorted set and the expiry of a key; `dirty[r]` is what Redis remembers of
the WATCH of `r`'s connection. `pc`, `scope`, `attempt`, `nowMs`, `count` and
`retry` are where a request is and the locals of its `hit`. `log` (every entry
ever added), `lost` (those of them whose EXEC got no reply) and `seen` (the entries
there when a request was refused) are history.

| Action | Code |
|---|---|
| `Arrive` | the dependency picks the scopes that apply |
| `ReadClock`, `Trim`, `Watch`, `ReadCount`, `ReadOldest` | one `await` each, `ReadOldest` with the decision |
| `Execute` / `ExecuteReplyLost` / `Conflict` | EXEC: applied; applied but the reply is lost; refused with `WatchError` |
| `ConnectionLost` | the connection breaks while the key is watched, and nothing was applied: `WatchError` too |
| `Retry` (a part of the last three) | `except WatchError`: back off, or raise after the last attempt |
| `Backoff` | the sleep, and the loop's next round |
| `RedisFails` | Redis answers with an error, or is not reached before the WATCH, which the limiter does not catch |
| `Tick` | time, and Redis' own expiry, which also breaks a WATCH |

redis-py's pipeline turns a connection error or a timeout into `WatchError` while it
watches a key, and `hit` catches that: a request whose EXEC was applied without an
answer tries again with a fresh UUID, and may take a second slot. An entry is therefore
`[req, attempt, score]`. The score is the clock *read before the trim*, as in the code;
the window therefore counts requests by when they asked, not by when they were let
through. `IpKey`/`AuthKey` stand for the result of header parsing, switches and hashing.
Not in the model: the disabled limiter, the text of the response, `reset_at`.

### CircuitBreaker

`hash` is the Redis hash, with `None` for a missing field and `Fresh` for a
missing key; `expireAt` its TTL (0: none). `pc` is the next Redis command of each
caller, `now`, `last`, `fails` the locals of `record_failure`, `then` where
`_hset_state` returns to. `int(str(None))` raises, as in the code, and the
`except` blocks are the actions' other branches: a failing `allow_request` lets
the call through, a failing `record_*` drops the update. `HSET` and `EXPIRE` are
two steps. `wrote`, `streak`, `lastFail` and `probes` are history. The call around
the breaker (`Call`, `Answer`, `Fail`, `Raise`, `ReturnBlocked`) is
`BaseExternalServiceClient.request` reduced to its outcomes.
Not in the model: a disabled breaker. The wait for the semaphore lies between
`allow_request` and the outcome, in `inflight`, which lasts as long as it lasts.

### Idempotency

`left[b]` is what remains of the life of the key of body `b` (0: no key), `pc` and
`body` a request being served. `SetLock`, `Refuse`, `Respond409`, `Return`,
`Raise` and `Delete` are the lines of `dispatch`; `SetReplyLost` and `RedisFails`
the ways its Redis calls fail; a request that is over leaves its slot to another,
so behaviours are endless. Time is relative: `age[r]`, the age of a lock its
holder still believes in, and `burst[b]`, whether a request of this body has
outlived its lock since the body was last free, are history.
`call_next` returns when the response *starts*. What the application does later
(streaming, dependencies that commit after the response) is outside the lock in
the code, and outside this model.

### UnitOfWork and DbSession

`session[t]` is the session of task `t` with its routing (`mode`, `pinned`), the
connections it holds (`conns`), what it has not flushed (`added`), what was sent
in the transaction (`flushed`), its callback queue (`callbacks`) and the
connections already committed (`done`). `context` is the context variable of
`AutoSession`, `orphans` the connections of sessions that only the garbage
collector will close. `status`, `dirty`, `saved`, `registered` and `called`
record what became of each unit.

| Action | Code |
|---|---|
| `Open` | the factory; `session_scope` also sets the context |
| `Add`, `Register` | `session.add`; `CallBackAfterCommit.register` |
| `Statement`, `Execute` | `get_bind` and the pin; the checkout and the statement |
| `BodyEnds`, `BodyRaises`, `BodyCancelled` | how the body is left; `get_db_session` abandons its inner generator |
| `CommitConn`, `Committed` | one connection's commit; the end of the transaction, and the queue popped |
| `Callback`, `CallbackLogged`, `Notified` | the next after-commit callback returns or raises; what it raised is logged; there is none left |
| `CommitRaises`, `CommitCancelled` | `except Exception` and the cancellation, which is not one |
| `Rollback`, `Close`, `Finalize` | the rollback, the `finally`, the garbage collector |

The mapping to `UnitOfWork`: `Open` is `Begin`; `Add` and `Execute` are `Work` when
the unit first has something to save, else a stutter; `BodyEnds` is `End`, a body
that raises or is cancelled `Fail`; the commit of the primary is `Save`;
`Committed`, or the close of a read session, is `Finish`; a commit that breaks is
`Doubt`, which may save or not. `told` is the set of units with a callback called, so
the first `Callback` is `Tell` and the others stutter.

### RequestLog

`pc` is where a request is among the layers, `request` its shape (method, chunks,
declared length, kind) and what the route has read of it, `response` what the layers
below returned, `answer` what was sent. `log` is its record, `via` the client its
insertion uses, and `instance`, `cache`, `open`, `created` are the Mongo singleton,
the collection cache and the clients. `broken` and `excuse` are history.

A request has one of three kinds, for what may raise in the middleware outside any
`try`: `unloggable` ones, on which `serialize_for_log` raises before the application
hears of them (`Enter`); `badId` ones, whose JSON body names a `request_id` that is
no latin-1 string and does not fit the header `x-request-id` (`HeaderRaises`); and
`plain` ones. A JSON response may break off whatever the kind (`BodyBreaks`). The
generic handler answers all of them with a 500, and nothing is logged (`RaisesOut`).

`Arrive`, `BodyCached`, `Preflight`, `Rejected`, `ReadBody`, `Respond`, `Query`,
`Queried`, `Raise`, `AnswerError`, `Answer`, `BodyBreaks` and `HeaderRaises` follow
`dispatch` of the two middlewares and the handlers; `WriteRecord`, `Inserted`, `InsertFails`
follow `_log_api_call`; `Drain`, `Shutdown`, `Stop` are uvicorn's stop and the
first step of the lifespan's `finally`. A response is told apart by its status,
by whether it is JSON and by the shape of its `extra` field, on which the helpers
that build the record depend. Background records are not awaited: they may be
written after `Shutdown` closed the client, which makes a new one.

### Lifespan, GrpcServer and Gateway

`step` is the next step of the lifespan, `open` what is open, `channels` the pool,
`raised` the steps that raised. The startup has no suspension inside, so each
outcome of it is one action (`Startup`, `RedisRaises`, `RateLimiterRaises`,
`SetupGrpc`, `SetupGrpcRaises`); the shutdown suspends at every close, so each is a
step. `ShutdownRaises` is any close that raises: it ends its own `finally`, and
the gateway's inner one hands over to the base lifespan's. An engine that cannot
be disposed of, or takes too long, is passed over (`DisposeFails`). Requests open
Mongo and engine connections while they are served (`Use`); each leaves a record to a
task of its own (`Answered`), which takes the Mongo client or makes one as long as the
loop runs (`Record`): also after `CloseMongo`, and then nobody closes it (`late`).
`settings.config` says whether `init_rate_limiter` is given the config that its
signature asks for.

`proc`, `handlers`, `stopEvent` and `tracer` are `GrpcServer.serve` and `main`.
`Signalled` sets the event; `Interrupted` is a SIGINT without a handler, before
`serve` has installed its own, where the loop takes none, and after they were removed. One
that finds `main` already stopping raises `KeyboardInterrupt`, and `asyncio.run`
cancels `main` and every RPC together; from then on `MainUnwinds` (its `finally`
shuts telemetry) and `Unwound` (an RPC's) come in any order, and the process is left
when all of them have (`Exited`). `rpc` is the server's view of each call: an RPC
that is cancelled, by its client, the end of the grace period or the second signal, is
`unwinding` until its task is over.

`Gateway` instantiates both, and its `call`, `channel` and `cursor` are the requests
between them: `Send` takes the next channel of the pool's cycle, `Reach` and
`Handled` are the server's, `Ends` brings the outcome of an RPC back, `Deadline` is
the timeout of the call, which may beat an answer that is ready. The server hears of
a client that has given up only later (`Abandoned`), and its handler runs on until it
has. Status codes are not told apart: no property depends on them.

### CeleryWorker

`mem[p]` is the memory of a process: the pids that have bootstrapped, the worker
loop, whether Redis was initialised, and the connections in its pools, each with
the process that opened it and the loop it belongs to. `Fork` copies the main
process's memory into the child. `WorkerInit` and `ProcessInit` are the
signal handlers, whose `Bootstrap` may raise before or after it has made the loop:
Celery logs that and goes on. The shutdown of a child suspends at each close, and a
coroutine that was left on the loop runs meanwhile, so it is a step each: `Shutdown`
(Redis), `CloseClients` (the pool dropped, MongoDB), `Dispose` or `DisposeFails` (the
engines), `CloseLoop`. `Kill` is the hard limit, the out-of-memory killer, or a close
that raises. A pid that is down may be forked again.

`run_async` is two steps: `RunAsync` looks whether the loop is running, `RunLoop` is
`run_until_complete`. Threads interleave between them. A thread that passed the check
and finds another in the loop is refused by asyncio, before it has scheduled its
coroutine or after, and then the coroutine stays on the other's loop as a *stray*; if
that coroutine ends there first, it stops the loop under its owner (`StopsAnother`),
whose own coroutine becomes the stray, and the thread that came second is refused, or
runs the loop itself with nothing left that would stop it (`hung`). `Return` is the
regular end, `SoftLimit` a `SoftTimeLimitExceeded` raised in the loop, after which the
coroutine stays on it as a stray too (`StrayEnds`). `left` and `why` are history: what a
child had open when its shutdown was done, and what may explain it. `nullPool` is a free
boolean: the engines read `CELERY_WORKER` before the module sets it, so what the
environment held at the start decides.

## 3. Runs

| Run | Question | Bounds |
|---|---|---|
| `limiter_core` | Does the window hold when requests race? | 2 requests on 1 key with 1 slot, window of 4 ticks (2 s), 2 attempts, 9 ticks |
| `limiter_scopes` | Do both scopes count, does every request get an answer, and is admission atomic to the outside? | a request with an IP and an identifier, one that shares the identifier, 2 keys, 2 attempts, 2 ticks |
| `breaker_alone` | Is the breaker what its docstring says when nothing interferes? | 1 caller, 9 calls, 14 ticks, threshold 2, 2 probes to recover |
| `breaker_races` | What survives interleaving, expiry and Redis errors? | 2 callers, 5 calls, 6 ticks, any command may raise |
| `breaker_fresh` | Does a breaker never used before open? (no) | 1 caller, Redis always answers |
| `breaker_cooldown` | Does the cooldown block while another call is in flight? (no) | 2 callers, Redis always answers |
| `idempotency_locks` | Is a body handled once at a time, whatever fails, and does every lock go away? | 3 requests at a time, 2 bodies, TTL of 2 ticks; no other bound |
| `idempotency_duplicates` | Can two requests handle one body although neither is late? (yes) | 3 requests at a time, 1 body |
| `db_sessions` | Is a session an all-or-nothing unit of work, whatever raises or is cancelled, and do the pools never lock up? | 2 tasks, 2 units, 1 connection per engine, 2 callbacks, 3 mode/way pairs |
| `request_log` | Does every request get the application's answer and its record, also when the process stops under it? | 2 requests of 3 kinds, bodies up to 3 chunks with a limit of 2, 3 Mongo clients |
| `gateway_processes` | What is left open, and what hangs, when anything raises and the server comes and goes? | 7 configurations, 2 calls, 2 channels; no other bound |
| `celery_pools` | Does any process or task use another one's loop or connection? | 2 children, forked again and again, 3 tasks, all 3 pools |

*Why the bounds are enough.* `limiter_core`: two requests are needed for a
conflict, and with two attempts each the retry of one meets the other's second
attempt as it would a newcomer; one slot
makes every admission decisive; the clock runs beyond the window, and beyond the
TTL of twice the window, so entries leave by trimming and by expiry, and a clock
read before a pause is several ticks old when used. The window is two seconds of
two ticks so that rounding to whole seconds is visible. `limiter_scopes` has a
request counted under both keys and one under the second alone, so that each of them
can be the one that finds the shared key full; two ticks let a slot taken by a lost
reply, with a window of one, leave again before a retry. `breaker_*`: threshold 2
distinguishes a count from a flag, the clock passes the cooldown and the TTL
(twice the longer of window and cooldown). The clock, the number of requests
and `MaxCalls` are the only bounds these two models add to the code. `idempotency_*`: an
overrun needs one request to outlive its lock, one whose lock it deletes and one
let in beside that; two bodies show that they do not disturb each other; a TTL of
two distinguishes a lock half-way from one just set and one just gone. The
limiter's and the breaker's runs set `CHECK_DEADLOCK FALSE`: they stop when the
clock and the requests are used up.

`db_sessions`: with one connection per engine every checkout is contended; two
tasks are the smallest circle, and the theorem `PoolsNeverLock` covers the
others; the three pairs have each mode and each way once, and mode and way
matter to different steps; of two callbacks the first may raise before the second.
`request_log`: a chunk within the limit, at it and
beyond it, declared or not, read ahead or not; two requests share the singleton,
of which one client is made before the stop and one by a record that comes after
it, so that the bound of three stops no step. `gateway_processes`: the configurations are a
complete one, the code as committed, Redis missing, Redis misspelt, a pool of no
channels, no target, and a bare one; two calls share two channels through a
cycle. `celery_pools`: two children and the main process are three owners; three
tasks leave one running, one stray and one to resume it, and are as many threads as
it takes to run the loop, to be refused on it and to stop it.

*Fairness.* `idempotency_locks` assumes only that Redis' clock runs: handlers may
hang. `limiter_scopes` has `HitTerminates` and
assumes weak fairness of each request's own steps: asyncio runs a ready task,
and a Redis call returns or raises. Arrivals, failures, lost replies and the
clock are not fair, and no request has to wait for another. Retries are bounded,
so no stronger assumption is needed. `db_sessions`: weak fairness of the steps that
`managed_session` itself takes once the body is left, of a statement that waits
(it runs, or `pool_timeout` raises), and of the garbage collector; bodies may hang.
`request_log`: weak fairness of what the middleware itself does with a request, of a
query's answer and of each background record, because the event loop runs what can
run and MongoDB answers or times out. Clients and routes are not fair: the code has a
timeout for neither a body that never comes nor a route that never returns. So
`EveryRequestAnswered` states them as its hypotheses (`ClientsSend`, `RoutesAnswer`).
Arrivals and the stop are not fair. `gateway_processes`: weak
fairness of a call's own timer, of responses that leave, and of the steps of the
gateway's shutdown. The gRPC server owes nobody anything.

### Properties

* `NeverOverLimit`, `SlidingWindow`: the sorted set, and the entries of the window
  ending now, are within the limit at every moment, although count and add are
  two round trips and a lost reply makes a request take a second slot.
* `NoEarlyEviction`: neither a trim with an old clock nor the TTL drops an entry that counts.
* `RetryAfterIsEnough`: after `Retry-After`, what a request was refused for no
  longer fills the window (others may have filled it again).
* `AdmittedIsCounted`, `LoopNeverFallsThrough`, `HitTerminates`, `Implements`.
* `NoSpuriousOpen`, `NoPhantomFailures`, `CooldownIsBounded`: what the breaker
  keeps under any interleaving and any Redis error.
* `CooldownBlocks`, `HalfGoThrough`, `TrackedOpensAtThreshold`: what it keeps with
  one call at a time only.
* `ExclusiveUnlessOverrun`, `LockGoesAway`: the idempotency lock excludes until a
  request outlives it, and never stays.
* `ImplementsUnitOfWork`, `CallbacksAllOrNone`: work is saved whole and only after
  the body ended; callbacks are called for saved work only, and all of them, whichever
  raise.
* `ReadsOwnWrites`, `NoPoolDeadlock`: a session that wrote reads from the primary,
  on the connection it wrote with; sessions never wait for one another in a circle.
* `AutoSessionIsOpen`, `ConnectionsComeBack`: the ambient session is one whose body
  runs; every connection goes back, through the close or the collector.
* `OneClient`, `NoOversizedBody`, `AnswerIsTheApplications`: one Mongo client at a
  time, no route sees more than the limit; logging changes an answer in two ways only,
  each into a 500: a JSON response that breaks off, and an id that fits no header.
* `EveryRequestAnswered`: given that clients send the bodies they announce and routes
  return, every request gets an answer.
* `EveryRequestRecorded`: the record of a request that the application answered is
  stored, or could not be built or written, or its response is one of the two above, or
  the process is going down.
* `NothingLeaks`, `ServedWithEverything`: what is open at the end was left by a step
  that raised, or is the Mongo client of a late record; what is served finds all that
  was configured.
* `TelemetryOutlivesCalls`, `NothingHangs`: telemetry is shut down under no RPC that
  was not cancelled before; every call and every drain ends.
* `EachProcessItsOwn`: no loop or connection of another process in memory; a shutdown
  leaves open what a stray opens meanwhile and what an engine keeps that could not be
  disposed of, and no more.
* `OneTaskAtATime`: one thread at most runs a loop, whatever passed its check together.

Every property has a mutant, a small plausible bug in a mapped definition
(WATCH issued late, ceiling turned to floor, off-by-one, a dropped transaction)
that makes TLC find it violated in the same run.

### Findings

1. **A breaker without history never opens** (`breaker_fresh`).
   `record_failure` converts `str(None)` when the hash, or its field, does not
   exist; the `ValueError` is caught and the failure dropped. The first
   `record_success` creates the fields. A provider that is down from the start,
   or after the hash expired, is never cut off. `TrackedOpensAtThreshold`, which
   holds, states the promise for a hash that has the field.
2. **The cooldown does not outlive calls in flight** (`breaker_cooldown`).
   `record_success` writes `closed` whatever the mode, so an answer to a call
   sent before the outage closes the breaker at the start of its cooldown.
3. **A late request frees a stranger's lock** (`idempotency_duplicates`). The key's
   value names no owner and the DELETE asks for none.

### Disagreements with the code that have no run

Met while modelling, and visible in the source without a model checker:

* `core/fastapi_server/lifespan.py:53` calls `init_rate_limiter(app)`, whose second
  parameter `config` has no default: as committed, every startup raises. The
  model keeps both cases (`settings.config`) so that what comes after is checked.
  The gateway's health route calls `rate_limit()` without its `config` likewise
  (`base-fastapi-grpc/app/api/health/views.py:24`), and both `get_app` use names that
  their modules do not import (`setup_opentelemetry`, `setup_prometheus`,
  `HTTPException`, `RequestValidationError`). `Gateway` models what they are meant to be.
* `CELERY_WORKER` is set after the import that reads it (`app/celery/celery.py:19`).
  `EachProcessItsOwn` holds for either kind of pool, so nothing follows from it here.
* The soft time limit equals the hard one (`app/celery/config.py:20`), so a soft
  limit may be overtaken by a kill; both are in the model.
* The comment at line 110 of `celery.py` counts threads among the supported pools;
  `run_async` refuses every task that overlaps with another there
  (`OneTaskAtATime` allows `refused` for threads only). Nor do tasks "run sequentially
  on the exact same loop" there (line 151): a coroutine that asyncio refused may stay
  on the loop beside another's, and stop it. Nothing closes the resources of the solo
  and threads pools.
* The soft time limit leaves the interrupted coroutine on the loop, where it goes on
  with the next task or during the shutdown (`SoftLimit`, `StrayEnds`).
* A second signal during the grace period finds no handler: the RPCs are cancelled
  whatever is left of their grace, and their last spans may be lost.
* `log_request.py:261` says "Recreate response with EXACTLY the same status and
  content"; a `request_id` that is no string, or no latin-1 text, turns the response
  into a 500 without a record (`HeaderRaises`).
* A reply to EXEC that is lost makes a request take two slots for one admission
  (`rate_limit.py:114` and 134); how many at most is the theorem `ChargesExact`.
* A record that is written after the shutdown closed MongoDB opens a client that
  nobody closes (`log_request.py:96`, `mongo.py:45`).
* A base startup that raises leaves open what was opened before it: `Leaves` in
  `Lifespan` says what, and `NothingLeaks` that it is no more than that.

## 4. Proofs

TLAPS checks, for every number of requests, callers, tasks, calls and children,
every limit, window, threshold and clock:

| Theorem | States |
|---|---|
| `RateLimiterProofs!TypeCorrect` | `TypeOK` |
| `EvictionIsLate` | `NoEarlyEviction` |
| `LimitHolds`, `WindowHolds` | `NeverOverLimit`, `SlidingWindow` |
| `Refinement` | `Spec => Implements`: `hit` implements `AdmissionWindow` |
| `LoopReturns` | `LoopNeverFallsThrough` |
| `SlotsTaken` | `AdmittedIsCounted` |
| `ChargesExact` | a request has at most one slot per attempt under a key of its own, heard of one at most, has none under another's, and under a key that refused it, or on which it gave up, only slots it did not hear of |
| `RetryHonest` | `RetryAfterIsEnough` |
| `RefusalsHaveReasons` | given `Prompt` (no request is at its EXEC a window or more after it read the clock): a refused request found `LimitOf` entries within its window |
| `NoKeyIsImmortal` | a sorted set that exists has an expiry, at most its TTL ahead |
| `HitAdvances` | the safety half of `HitTerminates`: a distance of at most 16 * `Attempts` + 7 that each step of a request lowers and no other step raises |
| `CircuitBreakerProofs!TypeCorrect` | `TypeOK` |
| `NeverSpurious`, `NeverPhantom`, `CooldownBounded` | `NoSpuriousOpen`, `NoPhantomFailures`, `CooldownIsBounded` |
| `BreakerTurnsProofs!ProbesAreHalved`, `OpensInTime` | `HalfGoThrough`, `TrackedOpensAtThreshold`, given `TakeTurns` and a Redis that answers |
| `CooldownIsKept` | `CooldownBlocks`, given `OneCallAtATime` and a Redis that answers |
| `OnlyCallersEndCooldowns`, `OnlyReportsEndCooldowns` | who can end a cooldown early: given a Redis that answers, and given `TakeTurns` besides |
| `IdempotencyProofs!TypeCorrect`, `LockExcludes` | `TypeOK`, `ExclusiveUnlessOverrun` |
| `OneAtATimeInTime` | given that no request outlives its lock: a body has one holder at most, and its key is there as long as it has one |
| `LocksOnlyRunDown` | a key is set only when it is not there and never renewed; each tick takes one from what is left of it |
| `DbSessionProofs!TypeCorrect`, `AutoSessionOpen`, `CallbacksTogether`, `ReadsFollowWrites` | `TypeOK`, `AutoSessionIsOpen`, `CallbacksAllOrNone`, `ReadsOwnWrites` |
| `PoolsNeverLock` | `NoPoolDeadlock` |
| `PoolsNeverOverdrawn` | connections held and abandoned are within the pool; only a failed unit abandons one |
| `DbSessionProofs!Refinement` | `Spec => ImplementsUnitOfWork` |
| `OutcomesAreFinal`, `DoneMeansSaved` | what is over stays as it is; what was reported or told is saved, and nothing but the work of bodies that ended |
| `EndingsEnd` | the safety half of `ConnectionsComeBack`: from the end of its body a session has at most eleven steps and two for each callback, each lowers that number, nothing raises it |
| `RequestLogProofs!TypeCorrect`, `SingleClient`, `BodiesAreLimited`, `AnswersAreKept` | `TypeOK`, `OneClient`, `NoOversizedBody`, `AnswerIsTheApplications` |
| `RecordsAreAccountedFor` | the safety part of `EveryRequestRecorded`: a request marked as logged has its record under way, stored, or lost for a reason |
| `OnceEach` | a request is answered once, and its record goes `task`, `insert`, `stored` or `lost` once, in this order |
| `QueriesFindClientsOpen` | no query of a route loses its client to the shutdown, nor a record before the process goes down |
| `GatewayProofs!TypeCorrect`, `NothingIsLeaked`, `ServedComplete`, `CallsAreTraced` | `TypeOK`, `NothingLeaks`, `ServedWithEverything`, `TelemetryOutlivesCalls` |
| `EveryCloseIsNearer` | the safety half of the second part of `NothingHangs`: at most 8 + `MaxChannels` steps of a draining process, each lowers that number, nothing raises it |
| `OnlyRecordsReopen` | from the first close on nothing is opened but the Mongo client of a record that was under way, no record is begun, and a process that ended stays so |
| `CeleryWorkerProofs!TypeCorrect`, `NothingShared`, `OneAtATime` | `TypeOK`, `EachProcessItsOwn`, `OneTaskAtATime` |
| `PreparedBeforeTasks` | a process marked as prepared has its loop, and Redis until its shutdown drops it; a coroutine is on the loop of its own process; a dead or new process has nothing |
| `NullPoolKeepsNothing` | with NullPool only a coroutine has a connection to a database |
| `TasksRunOnce` | a task is delivered once and its outcome is final |

**Rate limiter.** The invariant comes in layers, each inductive given the ones below.
*Shape*: types, a request in `hit` has a key, logs are finite and contain the sorted
sets. *Timing*: clocks read and scores are not in the future, and each entry's score
plus the TTL is within the key's expiry. That is why neither trim (cutoff not later than
the window's start) nor expiry (TTL at least the window) can hurt. *Locking*: while a
request's WATCH is unbroken, the count it read is the cardinality of the sorted set, so
an EXEC that goes through adds to a set that has room. `SlidingWindow` follows: the
window is inside the set, the set is within the limit. *Slots* (`Exact`): an attempt has
no slot under its key until its EXEC, and what earlier attempts of the same request have
there is in `lost`, which makes the entries of a key and the attempts one to one, and
all but one of a request's entries ones that it did not hear of (`ChargesExact`).
*Reasons* (`ReasonFor`): after its trim a request finds only entries of its window in
the set, since what others add meanwhile is, given `Prompt`, younger than a window; so
what it counts is in the log within its window (`RefusalsHaveReasons`). Without `Prompt`
TLC finds a request that is refused for an entry that was over before it was added; the
code bounds no round trip, so `Prompt` is a hypothesis about Redis and the event loop.
`Distance` is the steps left of an attempt and eight for each attempt left, in this
scope and the next. The refinement maps `admitted` to `log`: an EXEC, with its reply or
without, is `Admit` of one attempt, a tick is `Pass`, everything else stutters.
`RetryHonest` carries for each refused request the statement for *all* later times,
which the step that refused it establishes from the oldest entry and the lemma that the
delay, rounded up, covers that entry's stay (`RetryAfterCovers`).

Assumed of the constants: limits and windows are positive (`_validate_window_config`
raises otherwise), the clock has a positive resolution, retries are any natural
number, and no key belongs to both scopes (the scope is part of the key).

**Circuit breaker.** Since updates can be lost, the failures the hash remembers
prove nothing; the invariant `Justified` bounds every count, in the hash or on
its way there, by `wrote`, the failures ever written, and every caller that is
beyond reading an open mode by `wrote >= Threshold`. Deadlines are bounded
because `now` is a clock already read.

*Turns.* When callers race, or Redis loses commands, the three documented promises
fail (section 3 has two of the ways). What they need is less than one caller:
`TakeTurns` says that no two callers are *inside* the breaker (reading it before a
call or recording after one) at once, while calls to the provider overlap as they
like; `OneCallAtATime` that no two calls overlap at all. Both are hypotheses of the
theorems (`Spec /\ []TakeTurns => []...`), together with `~RedisMayFail`; nothing in
the code ensures them, and a service with one worker and one call in flight has
both. `Turn(c)` adds to `Justified` what the caller whose turn it is may rely on:
what it read of the mode is still so unless the key has expired (`SeenMode`); the
counter of probes gives how many went through and how many were held
(`ProbesAlternate`); the count in the hash is the true streak of failures, or is
about to be (`StreakKept`). When nobody is inside, the same holds of every caller,
so the turn can pass (`TurnPasses`). `HalfGoThrough` and `TrackedOpensAtThreshold`
follow. `CooldownBlocks` does not: a call that was let through before the breaker
opened may report after it did. `OnlyReportsEndCooldowns` proves that this is the only
way while turns are taken, and `OnlyCallersEndCooldowns` that for any interleaving
there is only one other, a caller that read an older cooldown. Neither time nor
Redis ends one: the key of an open breaker expires no earlier than its cooldown
(`KeyOutlives`), because a deadline is at most one cooldown ahead and the TTL twice
that, whenever the EXPIRE runs. With one call at a time there is no such report
(`OpenSeen`).

**Idempotency.** Without an overrun the remaining life of a key and the age of its
holder add up to the TTL, so a key that has gone has no young holder
(`FreeMeansNobody`), and the only DELETE there can be is the only holder's. Given
`Timely`, that no holder reaches the age of the TTL, there never is a burst, and
the same exclusion holds without that history variable (`OneAtATimeInTime`); nothing
in the code ensures `Timely` (finding 3 of section 3).

**Database sessions.** `UnitOK` ties the history of a unit together, `ToldOK` its
callbacks to a session that is still open until all were called; `TaskOK` says
for each place in `managed_session` what became of the unit (`PhaseOK`), what the
session knows of it (`WorkOK`), where its statements go (`RouteOK`) and what the
context holds (`ContextOK`); `OwnUnits` gives every unit one session, so that a
step of one task cannot disturb another's. The deadlock argument needs no order
on tasks. In a set of tasks that wait for each other, each waits for an engine that
a member holds (`PoolSize` is positive, so a full pool has holders). A session that
holds the primary can only ask for the primary, since it is pinned and the pin is
never taken back, and what it holds it does not wait for; so nobody waits for the
primary. Then all wait for the replica, and the one that holds it waits for what
it holds. `OutcomesAreFinal` is proved on `UnitOfWork`, where it is a glance at each
action, and carried over by the refinement; `DoneMeansSaved` needs the units' order of
events in both. `PoolsNeverOverdrawn` counts holders and abandoned connections
together, since a connection that a session loses moves from the one to the other.

`StepsLeft` gives two steps to each callback that is left, since each may raise.

**Request log.** The invariant is the conjunction of what is claimed, with
`NewIsBlank` (a request that has not arrived has no trace) and `NoRecordForgotten`
(one marked as logged has its record somewhere). `OneClient` is inductive because no
step of the code suspends between looking at the singleton and filling it.
`Orderly` (a record begins with its request's answer; a request in the middleware
keeps the process from closing) gives the order of answers and records, and that
`close` finds no query under way.

**Gateway.** `LifeOK` bounds what is open by what *may* be open at the step
(`MayBeOpen`) and what steps that raised, and a late record, left behind (`LeftBehind`),
and says what *must* be open while serving (`Equipped`). `ServerOK` keeps the tracer
until `main` is in its `finally`, where no RPC is left that was not cancelled: `stop`
has waited for them, or the second signal has cancelled all; `CallsOK` keeps an RPC's
channel inside the pool until it has ended, for which the shutdown of the lifespan must
wait for the requests. `StepsToEnd` counts the channels and the parts left to close;
`CloseChannel` takes the least channel, which exists because the numbers are
well-founded (`LeastChannel`), and every way a close can raise goes to a later part.

**Celery.** A fork shares nothing because there is nothing to share: under prefork
the main process's memory stays `Fresh` and it is delivered no task
(`NothingToShare`). Everything else is local to one process (`MemoryIsOwn`,
`CoroutinesHaveLoops`, `OneCoroutine`, `OneBusy`). `ClosedSoFar` follows a shutdown
through its steps: each kind of connection is gone once its step is done, unless there
was a stray at the beginning or the disposal failed. `OneCoroutine` needs no hypothesis
on who passed the check of `run_async`, since asyncio looks again. `Prepared` says what
the mark of `_bootstrap_worker` is worth, however often it raised before it was set.

Assumed there of the constants: tasks are finitely many and pools have room for one
connection; `get_db_session` opens auto sessions only (it is `get_auto_session`
wrapped); configurations are `Settings`; the main process is no child; pools are the three
classes the code knows; bodies and the number of Mongo clients are bounded by
naturals.

**Only model-checked**: liveness (`HitTerminates`, `LockGoesAway`,
`ConnectionsComeBack`, `EveryRequestAnswered`, `EveryRequestRecorded`, `NothingHangs`),
which TLAPS cannot prove under fairness. What is proved of it is the part without
fairness: a bounded measure that no step raises and each step of the process in
question lowers (`HitAdvances`, `EndingsEnd`, `EveryCloseIsNearer`, `LocksOnlyRunDown`, and
for records `OnceEach`). That these steps are taken is TLC's part.
`EveryRequestAnswered` has no such measure: a route may read and query as long as it
likes, and only its hypothesis ends it.

## 5. Limits of the models

* One clock for all processes and Redis: skew between hosts is not modelled.
* `SlidingWindow` dates an admission by the clock its request read. A request
  delayed between that and its EXEC is let through later than its entry says.
* Redis is a single node that executes commands one at a time and loses nothing.
* What redis-py does of its own when a connection breaks before the WATCH (to connect
  anew and repeat the command) is not modelled: the limiter then sees an answer or an error.
* A request cancelled during one of the limiter's Redis calls is `RedisFails`; one
  cancelled while it sleeps before a retry is not modelled (it holds nothing then).
* The replica is taken to refuse writes, and to lag behind by any amount; a
  deployment that points both URLs at one writable database refuses less.
* A task has one session at a time. The comment at `core/db/dependencies.py:38`
  shows a route with three: such a task may hold the primary through one and ask
  the replica through another, so `NoPoolDeadlock` does not extend to it. Bodies
  that commit or roll back themselves are not modelled either.
* A FastAPI process runs its lifespan once. A gRPC server may be started again,
  and a Celery child forked again.
* A connection stands for all of its kind in a process. Two threads that both find no
  loop, which takes a bootstrap that raised before it made one, may make two; the model
  has one per process.
* `grpc.aio` decides who waits for the tasks of cancelled RPCs. The model lets `stop`
  return without them and `asyncio.run` wait for them.
* A mutex of the code that is never held across an `await` (the lock of the Mongo
  singleton) is part of the step that takes it.

## 6. Not modelled

* The limit of the outgoing client's semaphore: `async with` gives its permit back
  on every path, and which call waits changes no property above.
* The composition of the idempotency lock with the session behind it: no
  application in the repository installs the middleware.
* Multi-document Mongo transactions, the redaction and the layout of records, SQL log
  lines, gRPC metadata: formatting.
* `core/grpc_client` beyond the pool and the call, and the server package's own client
  (`client.py`, `channel.py`), which only a test uses.
* Sentry, Prometheus, gunicorn's configuration, migrations, settings, the S3
  uploader, the PDF tool, date and UUID helpers, generated `pb2` modules: constants,
  pure functions and pure I/O without interaction.
* Text, headers and payloads everywhere: a response is a status and what the
  logging depends on.
