------------------------------ MODULE Lifespan ------------------------------
(***************************************************************************)
(* The life of a FastAPI process of the gateway: get_app, the lifespan of  *)
(* core/fastapi_server (grpc_lifespan around lifespan), the clients and    *)
(* pools that it opens, and the order in which it closes them.             *)
(*                                                                         *)
(*   new -> app -> base -> serving -> draining                             *)
(*       -> channels -> mongo -> redis -> pool -> http -> WRITE -> READ    *)
(*       -> ended                                                          *)
(*                                                                         *)
(* Nothing suspends the startup, so that its steps are not interleaved     *)
(* with anything; the shutdown is suspended at every close.                *)
(***************************************************************************)
EXTENDS Naturals

CONSTANTS
    Configurations, \* the settings with which this instance starts
    MaxChannels     \* bound of the model on grpc_pool_size

VARIABLES
    settings, \* the configuration of the process
    step,     \* how far its lifespan is
    raised,   \* history: the steps that raised
    records,  \* records of requests may be under way, in tasks of their own
    late,     \* history: one of them was written after the clients were closed
    open,     \* the clients and pools that are open
    channels, \* the channels of the gRPC pool that are open
    store     \* app.state.rate_limiter_store

vars == <<settings, step, raised, records, late, open, channels, store>>

Channels == 1..MaxChannels
Engines == {"WRITE", "READ"}
Lazy == Engines \cup {"mongo"}
Resources == Lazy \cup {"tracer", "redis", "http"}

(* redis: redis_url is empty, a URL or no URL; limited: rate_limit_enabled;
   config: init_rate_limiter is handed the config that its signature asks for
   (the call in lifespan.py is init_rate_limiter(app): FALSE, as committed);
   traced: opentelemetry_endpoint is set; target: grpc_target is set; size:
   grpc_pool_size. *)
Settings ==
    [redis : {"none", "url", "bad"}, limited : BOOLEAN, config : BOOLEAN,
     traced : BOOLEAN, target : BOOLEAN, size : 0..MaxChannels]

Init ==
    /\ settings \in Configurations
    /\ step = "new"
    /\ raised = {}
    /\ records = FALSE
    /\ late = FALSE
    /\ open = {}
    /\ channels = {}
    /\ store = "unset"

At(this, next) == step = this /\ step' = next

(* setup_opentelemetry: a tracer provider for the process, if there is anywhere
   to send its spans. *)
Telemetry == IF settings.traced THEN {"tracer"} ELSE {}

(* get_app sets telemetry up before anything else is there. *)
GetApp ==
    /\ At("new", "app")
    /\ open' = Telemetry
    /\ UNCHANGED <<settings, raised, records, late, channels, store>>

-----------------------------------------------------------------------------
(* Startup of the base lifespan *)

(* init_redis: a pool, but for an empty URL. *)
Redis == IF settings.redis = "url" THEN {"redis"} ELSE {}

(* HttpClientManager.initialize: the one client of the process. *)
HttpClient == {"http"}

(* init_rate_limiter *)
Limiter == IF settings.limited /\ settings.redis = "url" THEN "redis" ELSE "none"

(* Mutant: without Redis the limiter is silently left out. *)
LimiterRaisesOnConfig == ~settings.config

(* init_rate_limiter raises without its config, or without a client. *)
LimiterRaises == ~settings.config \/ (settings.limited /\ settings.redis = "none")

(* A startup that raises is before the try: nothing is closed. *)
StartupRaises(at) ==
    /\ At("app", "ended")
    /\ raised' = {at}
    /\ UNCHANGED <<settings, records, late, channels, store>>

(* ConnectionPool.from_url raises. *)
RedisRaises ==
    /\ settings.redis = "bad"
    /\ StartupRaises("init_redis")
    /\ UNCHANGED open

RateLimiterRaises ==
    /\ settings.redis # "bad"
    /\ LimiterRaises
    /\ StartupRaises("init_rate_limiter")
    /\ open' = open \cup Redis

(* setup_database, init_redis, init_rate_limiter, HttpClientManager.initialize *)
Startup ==
    /\ settings.redis # "bad"
    /\ ~LimiterRaises
    /\ At("app", "base")
    /\ open' = open \cup Redis \cup HttpClient
    /\ store' = Limiter
    /\ UNCHANGED <<settings, raised, records, late, channels>>

(* Mutant: the channels are counted from 0 to the size. *)
PoolOneMore == IF settings.target THEN 1..(settings.size + 1) ELSE {}

(* setup_grpc_client: without a target there is no pool. *)
Pool == IF settings.target THEN 1..settings.size ELSE {}

(* A pool without channels is a ValueError. *)
PoolRaises == settings.target /\ settings.size = 0

(* The gateway's lifespan sets its pool up inside the base lifespan, *)
SetupGrpc ==
    /\ ~PoolRaises
    /\ At("base", "serving")
    /\ channels' = Pool
    /\ UNCHANGED <<settings, raised, records, late, open, store>>

(* Mutant: the gateway sets its channels up before the base lifespan's try. *)
SetupGrpcRaisesOutside ==
    /\ PoolRaises
    /\ At("base", "ended")
    /\ raised' = {"setup_grpc_client"}
    /\ UNCHANGED <<settings, records, late, open, channels, store>>

(* which runs its finally if that raises. *)
SetupGrpcRaises ==
    /\ PoolRaises
    /\ At("base", "mongo")
    /\ raised' = {"setup_grpc_client"}
    /\ UNCHANGED <<settings, records, late, open, channels, store>>

-----------------------------------------------------------------------------
(* What requests open: the Mongo client, and connections of an engine. *)
Use(r) ==
    /\ step \in {"serving", "draining"}
    /\ r \in Lazy
    /\ open' = open \cup {r}
    /\ UNCHANGED <<settings, step, raised, records, late, channels, store>>

(* A request is answered; its record is left to a task that nobody waits for. *)
Answered ==
    /\ step \in {"serving", "draining"}
    /\ records' = TRUE
    /\ UNCHANGED <<settings, step, raised, late, open, channels, store>>

(* The task takes the Mongo client, or makes one, as long as the loop runs: also
   one that the shutdown, which has closed the client, will not close. *)
Record ==
    /\ records
    /\ step # "ended"
    /\ open' = open \cup {"mongo"}
    /\ records' \in BOOLEAN
    /\ late' = (late \/ step \notin {"serving", "draining", "channels", "mongo"})
    /\ UNCHANGED <<settings, step, raised, channels, store>>

(* The server stops: no new requests, and those that it has are awaited. *)
Drain ==
    /\ At("serving", "draining")
    /\ UNCHANGED <<settings, raised, records, late, open, channels, store>>

BeginShutdown ==
    /\ At("draining", "channels")
    /\ UNCHANGED <<settings, raised, records, late, open, channels, store>>

-----------------------------------------------------------------------------
(* Shutdown: the inner finally closes the channels one by one, the outer one
   everything else. *)

Closes(this, R, next) ==
    /\ At(this, next)
    /\ open' = open \ R
    /\ UNCHANGED <<settings, raised, records, late, channels, store>>

CloseChannel ==
    /\ channels # {}
    /\ At("channels", "channels")
    /\ channels' = channels \ {CHOOSE c \in channels : \A d \in channels : c <= d}
    /\ UNCHANGED <<settings, raised, records, late, open, store>>

ChannelsClosed == channels = {} /\ Closes("channels", {}, "mongo")

(* MongoClientSingleton.close and stop_opentelemetry, up to the first await. *)
CloseMongo == Closes("mongo", {"mongo", "tracer"}, "redis")

(* RedisCacheClient.close: the client, whose pool is its caller's, ... *)
CloseRedis == Closes("redis", {}, "pool")

(* ... and the pool. *)
ClosePool == Closes("pool", {"redis"}, "http")

CloseHttp == Closes("http", {"http"}, "WRITE")

NextOf(e) == IF e = "WRITE" THEN "READ" ELSE "ended"

Dispose(e) == Closes(e, {e}, NextOf(e))

(* A dispose that raises, or takes more than two seconds, is passed over. *)
DisposeFails(e) ==
    /\ At(e, NextOf(e))
    /\ raised' = raised \cup {e}
    /\ UNCHANGED <<settings, records, late, open, channels, store>>

(* Mutant: an error of the channels keeps the base lifespan from its finally. *)
ShutdownRaisesAll ==
    /\ step \in {"channels", "mongo", "redis", "pool", "http"}
    /\ step = "channels" => channels # {}
    /\ raised' = raised \cup {step}
    /\ step' = "ended"
    /\ UNCHANGED <<settings, records, late, open, channels, store>>

(* Anything else that raises ends its finally; the outer one still runs. *)
ShutdownRaises ==
    /\ step \in {"channels", "mongo", "redis", "pool", "http"}
    /\ step = "channels" => channels # {}
    /\ raised' = raised \cup {step}
    /\ step' = IF step = "channels" THEN "mongo" ELSE "ended"
    /\ UNCHANGED <<settings, records, late, open, channels, store>>

Shutdown ==
    \/ CloseChannel \/ ChannelsClosed \/ CloseMongo
    \/ CloseRedis \/ ClosePool \/ CloseHttp
    \/ \E e \in Engines : Dispose(e) \/ DisposeFails(e)
    \/ ShutdownRaises

-----------------------------------------------------------------------------

Steps ==
    {"new", "app", "base", "serving", "draining", "channels", "mongo", "redis",
     "pool", "http", "ended"} \cup Engines

TypeOK ==
    /\ settings \in Configurations
    /\ step \in Steps
    /\ records \in BOOLEAN
    /\ late \in BOOLEAN
    /\ raised \subseteq Steps \cup {"init_redis", "init_rate_limiter", "setup_grpc_client"}
    /\ open \subseteq Resources
    /\ channels \subseteq Channels
    /\ store \in {"unset", "none", "redis"}

(* What a step that raises leaves behind, with the steps it keeps from running. *)
Leaves(at) ==
    CASE at = "init_rate_limiter" -> {"tracer", "redis"}
      [] at = "init_redis"        -> {"tracer"}
      [] at \in {"setup_grpc_client", "channels"} -> {}
      [] at = "mongo"             -> Lazy \cup {"tracer", "redis", "http"}
      [] at \in {"redis", "pool"} -> Engines \cup {"redis", "http"}
      [] at = "http"              -> Engines \cup {"http"}
      [] at \in Engines           -> {at}

(* A process that ends has closed all that it opened, but for what a step that
   raised kept it from closing: a setup of the gRPC client that fails leaves
   nothing, a shutdown of it that fails only its channels, and a base startup
   that fails leaves what it had opened; and but for the Mongo client of a record
   that came late (lines 50-64 of lifespan.py, 18-23 of grpc_lifespan.py, 39-50 of
   mongo.py). *)
NothingLeaks ==
    step = "ended" =>
        /\ open \subseteq (UNION {Leaves(at) : at \in raised}) \cup {r \in {"mongo"} : late}
        /\ "channels" \in raised \/ channels = {}

(* Whatever is served finds what the lifespan promises: the HTTP client, the
   Redis pool of a configured Redis, and a rate limiter on it whenever rate
   limiting is on (lines 221-245 of rate_limit.py). *)
ServedWithEverything ==
    step \in {"serving", "draining"} =>
        /\ "http" \in open
        /\ settings.redis = "url" => "redis" \in open
        /\ settings.limited => store = "redis" /\ "redis" \in open
        /\ settings.traced => "tracer" \in open

=============================================================================
