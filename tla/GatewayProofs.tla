---------------------------- MODULE GatewayProofs ----------------------------
(***************************************************************************)
(* For any number of calls and channels and any configurations: what a     *)
(* process opens it closes, but for what a step that raises or a late      *)
(* record leaves, what it serves it has, a call in flight has a channel,   *)
(* and telemetry outlives the calls.  Then the shutdown: it has a bounded  *)
(* number of steps, and reopens nothing but the Mongo client of a record.  *)
(***************************************************************************)
EXTENDS Gateway, FiniteSetTheorems, WellFoundedInduction, TLAPS

-----------------------------------------------------------------------------
(* The inductive invariant of the gateway's process *)

(* What steps that raised left open, and the client of a late record. *)
LeftBehind == (UNION {Life!Leaves(at) : at \in raised}) \cup {r \in {"mongo"} : late}

(* What may still be open at a step besides. *)
MayBeOpen(at) ==
    CASE at \in {"new", "ended"} -> {}
      [] at = "app" -> {"tracer"}
      [] at = "base" -> {"tracer", "redis", "http"}
      [] at \in {"serving", "draining", "channels", "mongo"} -> Life!Resources
      [] at \in {"redis", "pool"} -> {"WRITE", "READ", "redis", "http"}
      [] at = "http" -> {"WRITE", "READ", "http"}
      [] at = "WRITE" -> {"WRITE", "READ"}
      [] at = "READ" -> {"READ"}

(* Everything that the configuration asks for. *)
Equipped ==
    /\ "http" \in open
    /\ settings.redis = "url" => "redis" \in open
    /\ settings.limited => store = "redis" /\ "redis" \in open

LifeOK ==
    /\ Life!TypeOK
    /\ open \subseteq MayBeOpen(step) \cup LeftBehind
    /\ step \in {"new", "app", "base"} => raised = {} /\ channels = {} /\ ~records /\ ~late
    /\ step \in {"app", "base", "serving", "draining"} => (settings.traced => "tracer" \in open)
    /\ step \in {"base", "serving", "draining"} => Equipped
    /\ step \in {"serving", "draining"} => channels = Life!Pool /\ ~Life!PoolRaises
    /\ step \in {"mongo", "redis", "pool", "http", "WRITE", "READ", "ended"} =>
         "channels" \in raised \/ channels = {}

(* The server's: telemetry is there from the first await to the finally of main,
   and no RPC that runs outlives the stop or the interruption. *)
ServerOK ==
    /\ Server!TypeOK
    /\ proc \in {"starting", "serving", "stopping", "interrupted"} => tracer = Traced
    /\ \A c \in Calls : rpc[c] = "running" => proc \in {"serving", "stopping"}

(* The calls between them. *)
CallsOK ==
    /\ call \in [Calls -> {"none", "sent", "answered"}]
    /\ channel \in [Calls -> 0..MaxChannels]
    /\ cursor \in 1..(MaxChannels + 1)
    /\ settings.target /\ settings.size > 0 => cursor \in 1..settings.size
    /\ \A c \in Calls :
          call[c] = "sent" => step \in {"serving", "draining"} /\ channel[c] \in channels

Inv == LifeOK /\ ServerOK /\ CallsOK

LEMMA InitInv == Init => Inv
  <1> SUFFICES ASSUME Init PROVE Inv
    OBVIOUS
  <1>1. LifeOK
    BY DEF Init, Life!Init, LifeOK, Life!TypeOK, Life!Steps
  <1>2. ServerOK
    BY DEF Init, Server!Init, ServerOK, Server!TypeOK
  <1>3. CallsOK
    BY ChannelsAssumption, ConfigurationsAssumption
       DEF Init, Life!Init, CallsOK, NoChannel, Life!Settings
  <1> QED BY <1>1, <1>2, <1>3 DEF Inv

-----------------------------------------------------------------------------
(* The process of the gateway *)

LEMMA LeftBy == \A at \in raised : Life!Leaves(at) \subseteq LeftBehind
  BY DEF LeftBehind

(* What was left behind stays so when more steps raise or a record comes late. *)
LEMMA LeftGrows ==
    ASSUME raised \subseteq raised', late => late'
    PROVE  /\ LeftBehind \subseteq LeftBehind'
           /\ \A at \in raised' : Life!Leaves(at) \subseteq LeftBehind'
  BY DEF LeftBehind, Life!Leaves, Life!Lazy, Life!Engines

LEMMA StartingKeeps ==
    ASSUME LifeOK, Starting
    PROVE  LifeOK'
  <1>0. settings \in Life!Settings
    BY ConfigurationsAssumption DEF LifeOK, Life!TypeOK
  <1>1. CASE Life!GetApp
    BY <1>0, <1>1, LeftGrows
       DEF Life!GetApp, Life!At, Life!Telemetry, LifeOK, Life!TypeOK, Life!Steps, Life!Resources,
           MayBeOpen, Equipped, Life!Settings
  <1>2. CASE Life!RedisRaises
    <2>1. /\ step = "app" /\ step' = "ended" /\ raised' = {"init_redis"} /\ raised = {}
          /\ UNCHANGED <<settings, records, late, channels, store, open>>
      BY <1>2 DEF Life!RedisRaises, Life!StartupRaises, Life!At, LifeOK
    <2>2. open \subseteq {"tracer"}
      BY <2>1 DEF LifeOK, MayBeOpen, LeftBehind
    <2>3. Life!Leaves("init_redis") \subseteq LeftBehind'
      BY <2>1, LeftGrows
    <2>4. {"tracer"} \subseteq LeftBehind'
      BY <2>3 DEF Life!Leaves, Life!Engines
    <2> QED BY <2>1, <2>2, <2>4 DEF LifeOK, Life!TypeOK, Life!Steps
  <1>3. CASE Life!RateLimiterRaises
    <2>1. /\ step = "app" /\ step' = "ended" /\ raised' = {"init_rate_limiter"} /\ raised = {}
          /\ open' = open \cup Life!Redis
          /\ UNCHANGED <<settings, records, late, channels, store>>
      BY <1>3 DEF Life!RateLimiterRaises, Life!StartupRaises, Life!At, LifeOK
    <2>2. open \subseteq {"tracer"}
      BY <2>1 DEF LifeOK, MayBeOpen, LeftBehind
    <2>3. Life!Leaves("init_rate_limiter") \subseteq LeftBehind'
      BY <2>1, LeftGrows
    <2>4. {"tracer", "redis"} \subseteq LeftBehind'
      BY <2>3 DEF Life!Leaves, Life!Engines
    <2> QED BY <2>1, <2>2, <2>4 DEF LifeOK, Life!TypeOK, Life!Steps, Life!Redis, Life!Resources
  <1>4. CASE Life!Startup
    <2>1. /\ step = "app" /\ step' = "base" /\ raised = {} /\ raised' = {}
          /\ open' = open \cup Life!Redis \cup {"http"}
          /\ store' = Life!Limiter /\ ~Life!LimiterRaises /\ settings.redis # "bad"
          /\ UNCHANGED <<settings, records, late, channels>>
      BY <1>4 DEF Life!Startup, Life!At, LifeOK, Life!HttpClient
    <2>2. open \subseteq {"tracer"}
      BY <2>1 DEF LifeOK, MayBeOpen, LeftBehind
    <2>3. open' \subseteq MayBeOpen(step')
      BY <2>1, <2>2 DEF MayBeOpen, Life!Redis
    <2>4. Equipped'
      BY <1>0, <2>1 DEF Equipped, Life!Redis, Life!Limiter, Life!LimiterRaises, Life!Settings
    <2>5. Life!TypeOK'
      BY <2>1 DEF LifeOK, Life!TypeOK, Life!Steps, Life!Redis, Life!Limiter, Life!Resources
    <2> QED BY <2>1, <2>3, <2>4, <2>5 DEF LifeOK
  <1>5. CASE Life!SetupGrpc
    <2>1. /\ step = "base" /\ step' = "serving" /\ channels' = Life!Pool /\ ~Life!PoolRaises
          /\ UNCHANGED <<settings, raised, records, late, open, store>>
      BY <1>5 DEF Life!SetupGrpc, Life!At
    <2>2. Life!Pool \subseteq Life!Channels /\ Life!Pool' = Life!Pool /\ Life!PoolRaises' = Life!PoolRaises
      BY <1>0, <2>1, ChannelsAssumption DEF Life!Pool, Life!PoolRaises, Life!Channels, Life!Settings
    <2>3. open' \subseteq MayBeOpen(step')
      BY <2>1 DEF MayBeOpen, LifeOK, Life!TypeOK
    <2> QED BY <2>1, <2>2, <2>3 DEF LifeOK, Life!TypeOK, Life!Steps, Equipped
  <1>6. CASE Life!SetupGrpcRaises
    <2>1. /\ step = "base" /\ step' = "mongo" /\ channels = {} /\ raised' = {"setup_grpc_client"}
          /\ UNCHANGED <<settings, records, late, open, channels, store>>
      BY <1>6 DEF Life!SetupGrpcRaises, Life!At, LifeOK
    <2>2. open' \subseteq MayBeOpen(step')
      BY <2>1 DEF MayBeOpen, LifeOK, Life!TypeOK
    <2> QED BY <2>1, <2>2 DEF LifeOK, Life!TypeOK, Life!Steps
  <1> QED BY <1>1, <1>2, <1>3, <1>4, <1>5, <1>6 DEF Starting

(* Requests use the process, and it drains. *)
LEMMA ServingKeeps ==
    ASSUME LifeOK,
           \/ Life!Drain \/ Life!BeginShutdown \/ Life!Answered \/ Life!Record
           \/ \E r \in Life!Lazy : Life!Use(r)
    PROVE  LifeOK'
  <1>1. CASE Life!Drain \/ Life!BeginShutdown
    <2>1. /\ \/ step = "serving" /\ step' = "draining"
             \/ step = "draining" /\ step' = "channels"
          /\ UNCHANGED <<settings, raised, records, late, open, channels, store>>
      BY <1>1 DEF Life!Drain, Life!BeginShutdown, Life!At
    <2>2. Life!Pool' = Life!Pool /\ Life!PoolRaises' = Life!PoolRaises /\ (Equipped => Equipped')
      BY <2>1 DEF Life!Pool, Life!PoolRaises, Equipped
    <2>3. open' \subseteq MayBeOpen(step')
      BY <2>1 DEF MayBeOpen, LifeOK, Life!TypeOK
    <2> QED BY <2>1, <2>2, <2>3 DEF LifeOK, Life!TypeOK, Life!Steps
  <1>2. ASSUME NEW r \in Life!Lazy, Life!Use(r) PROVE LifeOK'
    <2>1. /\ step \in {"serving", "draining"} /\ open' = open \cup {r}
          /\ UNCHANGED <<settings, step, raised, records, late, channels, store>>
      BY <1>2 DEF Life!Use
    <2>2. Life!Pool' = Life!Pool /\ Life!PoolRaises' = Life!PoolRaises /\ (Equipped => Equipped')
      BY <2>1 DEF Life!Pool, Life!PoolRaises, Equipped
    <2>3. open' \subseteq MayBeOpen(step') /\ open' \subseteq Life!Resources
      BY <2>1 DEF MayBeOpen, LifeOK, Life!TypeOK, Life!Resources
    <2> QED BY <2>1, <2>2, <2>3 DEF LifeOK, Life!TypeOK, Life!Steps
  <1>3. CASE Life!Answered
    <2>1. /\ step \in {"serving", "draining"} /\ records' = TRUE
          /\ UNCHANGED <<settings, step, raised, late, open, channels, store>>
      BY <1>3 DEF Life!Answered
    <2>2. Life!Pool' = Life!Pool /\ Life!PoolRaises' = Life!PoolRaises /\ Equipped' = Equipped
      BY <2>1 DEF Life!Pool, Life!PoolRaises, Equipped
    <2>3. LeftBehind' = LeftBehind
      BY <2>1 DEF LeftBehind
    <2> QED BY <2>1, <2>2, <2>3 DEF LifeOK, Life!TypeOK
  <1>4. CASE Life!Record
    <2>1. /\ records /\ step # "ended" /\ open' = open \cup {"mongo"} /\ records' \in BOOLEAN
          /\ late' = (late \/ step \notin {"serving", "draining", "channels", "mongo"})
          /\ UNCHANGED <<settings, step, raised, channels, store>>
      BY <1>4 DEF Life!Record
    <2>2. Life!Pool' = Life!Pool /\ Life!PoolRaises' = Life!PoolRaises /\ (Equipped => Equipped')
      BY <2>1 DEF Life!Pool, Life!PoolRaises, Equipped
    <2>3. LeftBehind \subseteq LeftBehind' /\ (late' => "mongo" \in LeftBehind')
      <3>1. raised \subseteq raised' /\ (late => late')
        BY <2>1
      <3>2. ASSUME late' PROVE "mongo" \in LeftBehind'
        <4>1. "mongo" \in {r \in {"mongo"} : late'}
          BY <3>2
        <4>2. LeftBehind' = (UNION {Life!Leaves(at) : at \in raised'}) \cup {r \in {"mongo"} : late'}
          BY Zenon DEF LeftBehind
        <4> QED BY <4>1, <4>2, Zenon
      <3> QED BY <3>1, <3>2, LeftGrows
    <2>4. step \notin {"new", "app", "base"}
      BY <2>1 DEF LifeOK
    <2>5. step \in {"serving", "draining", "channels", "mongo"} => "mongo" \in MayBeOpen(step)
      BY DEF MayBeOpen, Life!Resources, Life!Lazy
    <2>6. open' \subseteq MayBeOpen(step') \cup LeftBehind' /\ open' \subseteq Life!Resources
      <3>1. step' = step /\ MayBeOpen(step') = MayBeOpen(step)
        BY <2>1
      <3>2. "mongo" \in MayBeOpen(step) \cup LeftBehind'
        BY <2>1, <2>3, <2>5
      <3>3. open \subseteq MayBeOpen(step) \cup LeftBehind' /\ open \subseteq Life!Resources
        BY <2>3 DEF LifeOK, Life!TypeOK
      <3> QED BY <2>1, <3>1, <3>2, <3>3 DEF Life!Resources, Life!Lazy
    <2>7. Life!TypeOK'
      BY <2>1, <2>6 DEF LifeOK, Life!TypeOK
    <2>8. open \subseteq open'
      BY <2>1
    <2> QED BY <2>1, <2>2, <2>4, <2>6, <2>7, <2>8 DEF LifeOK
  <1> QED BY <1>1, <1>2, <1>3, <1>4

(* Each step of the shutdown closes its part, or raises and leaves it. *)
LEMMA ShutdownKeeps ==
    ASSUME LifeOK, Life!Shutdown
    PROVE  LifeOK' /\ step \notin {"serving", "draining"} /\ step' \notin {"serving", "draining"}
  <1>1. CASE Life!CloseChannel
    <2>1. /\ step = "channels" /\ step' = "channels" /\ channels' \subseteq channels
          /\ UNCHANGED <<settings, raised, records, late, open, store>>
      BY <1>1 DEF Life!CloseChannel, Life!At
    <2>2. LeftBehind \subseteq LeftBehind'
      BY <2>1, LeftGrows
    <2> QED BY <2>1, <2>2 DEF LifeOK, Life!TypeOK
  <1>2. ASSUME NEW this, NEW R, NEW next, Life!Closes(this, R, next),
               this = "channels" => channels = {},
               <<this, R, next>> \in
                 {<<"channels", {}, "mongo">>, <<"mongo", {"mongo", "tracer"}, "redis">>,
                  <<"redis", {}, "pool">>, <<"pool", {"redis"}, "http">>, <<"http", {"http"}, "WRITE">>,
                  <<"WRITE", {"WRITE"}, "READ">>, <<"READ", {"READ"}, "ended">>}
        PROVE  LifeOK' /\ step \notin {"serving", "draining"} /\ step' \notin {"serving", "draining"}
    <2>1. /\ step = this /\ step' = next /\ open' = open \ R
          /\ UNCHANGED <<settings, raised, records, late, channels, store>>
      BY <1>2 DEF Life!Closes, Life!At
    <2>2. MayBeOpen(this) \ R \subseteq MayBeOpen(next)
      BY <1>2 DEF MayBeOpen, Life!Resources, Life!Lazy, Life!Engines
    <2>3. LeftBehind \subseteq LeftBehind'
      BY <2>1, LeftGrows
    <2>4. open' \subseteq MayBeOpen(step') \cup LeftBehind'
      BY <2>1, <2>2, <2>3 DEF LifeOK
    <2>5. next \in {"mongo", "redis", "pool", "http", "WRITE", "READ", "ended"}
          /\ this \in {"channels", "mongo", "redis", "pool", "http", "WRITE", "READ"}
      BY <1>2
    <2> QED BY <1>2, <2>1, <2>4, <2>5 DEF LifeOK, Life!TypeOK, Life!Steps, Life!Engines
  <1>3. ASSUME NEW e \in Life!Engines, Life!DisposeFails(e)
        PROVE  LifeOK' /\ step \notin {"serving", "draining"} /\ step' \notin {"serving", "draining"}
    <2>1. /\ step = e /\ step' = Life!NextOf(e) /\ raised' = raised \cup {e}
          /\ UNCHANGED <<settings, records, late, open, channels, store>>
      BY <1>3 DEF Life!DisposeFails, Life!At
    <2>2. LeftBehind \subseteq LeftBehind' /\ Life!Leaves(e) \subseteq LeftBehind'
      BY <2>1, LeftGrows
    <2>3. e \in Life!Leaves(e) /\ MayBeOpen(e) \subseteq MayBeOpen(Life!NextOf(e)) \cup {e}
      BY <1>3 DEF Life!Leaves, MayBeOpen, Life!NextOf, Life!Engines
    <2>4. open' \subseteq MayBeOpen(step') \cup LeftBehind'
      BY <2>1, <2>2, <2>3 DEF LifeOK
    <2>5. e \in {"WRITE", "READ"} /\ Life!NextOf(e) \in {"READ", "ended"}
      BY <1>3 DEF Life!Engines, Life!NextOf
    <2> QED BY <2>1, <2>4, <2>5 DEF LifeOK, Life!TypeOK, Life!Steps, Life!Engines
  <1>4. CASE Life!ShutdownRaises
    <2>1. /\ step \in {"channels", "mongo", "redis", "pool", "http"}
          /\ raised' = raised \cup {step}
          /\ step' = IF step = "channels" THEN "mongo" ELSE "ended"
          /\ UNCHANGED <<settings, records, late, open, channels, store>>
      BY <1>4 DEF Life!ShutdownRaises
    <2>2. LeftBehind \subseteq LeftBehind' /\ Life!Leaves(step) \subseteq LeftBehind'
      BY <2>1, LeftGrows
    <2>3. step # "channels" => MayBeOpen(step) \subseteq Life!Leaves(step)
      BY <2>1 DEF MayBeOpen, Life!Leaves, Life!Resources, Life!Lazy, Life!Engines
    <2>4. step = "channels" => open \subseteq MayBeOpen("mongo")
      BY DEF LifeOK, Life!TypeOK, MayBeOpen
    <2>5. open' \subseteq MayBeOpen(step') \cup LeftBehind'
      BY <2>1, <2>2, <2>3, <2>4 DEF LifeOK
    <2> QED BY <2>1, <2>5 DEF LifeOK, Life!TypeOK, Life!Steps
  <1>5. ASSUME NEW e \in Life!Engines, Life!Dispose(e)
        PROVE  LifeOK' /\ step \notin {"serving", "draining"} /\ step' \notin {"serving", "draining"}
    BY <1>2, <1>5 DEF Life!Dispose, Life!NextOf, Life!Engines
  <1>6. CASE Life!ChannelsClosed \/ Life!CloseMongo \/ Life!CloseRedis \/ Life!ClosePool \/ Life!CloseHttp
    BY <1>2, <1>6 DEF Life!ChannelsClosed, Life!CloseMongo, Life!CloseRedis, Life!ClosePool, Life!CloseHttp
  <1>7. CASE Life!CloseChannel
    BY <1>1, <1>7 DEF Life!CloseChannel, Life!At
  <1> QED BY <1>3, <1>4, <1>5, <1>6, <1>7, <1>1 DEF Life!Shutdown

(* No step of the gateway's process changes its settings. *)
LEMMA SettingsStay ==
    ASSUME Process
    PROVE  settings' = settings
  BY DEF Process, Starting, Stopping, Life!GetApp, Life!RedisRaises, Life!RateLimiterRaises,
         Life!StartupRaises, Life!Startup, Life!SetupGrpc, Life!SetupGrpcRaises, Life!Drain,
         Life!BeginShutdown, Life!Use, Life!Answered, Life!Record, Life!Shutdown, Life!CloseChannel, Life!ChannelsClosed,
         Life!CloseMongo, Life!CloseRedis, Life!ClosePool, Life!CloseHttp, Life!Closes,
         Life!Dispose, Life!DisposeFails, Life!ShutdownRaises

(* Channels that are handed out stay open while calls are in flight. *)
LEMMA ProcessKeeps ==
    ASSUME Inv, Process
    PROVE  Inv'
  <1>1. LifeOK /\ ServerOK /\ CallsOK /\ UNCHANGED <<server, calls>>
    BY DEF Inv, Process
  <1>2. ServerOK'
    BY <1>1 DEF server, ServerOK, Server!TypeOK
  <1>3. ASSUME step \in {"serving", "draining"} =>
                 \/ step' \in {"serving", "draining"} /\ channels' = channels
                 \/ \A c \in Calls : call[c] = "none"
        PROVE  CallsOK'
    BY <1>1, <1>3, SettingsStay DEF server, calls, CallsOK
  <1>4. CASE Starting
    <2>1. step \notin {"serving", "draining"}
      BY <1>4 DEF Starting, Life!GetApp, Life!RedisRaises, Life!RateLimiterRaises, Life!StartupRaises,
                  Life!Startup, Life!SetupGrpc, Life!SetupGrpcRaises, Life!At
    <2> QED BY <1>1, <1>2, <1>3, <1>4, <2>1, StartingKeeps DEF Inv
  <1>5. CASE Life!Drain \/ Life!Answered \/ Life!Record \/ \E r \in Life!Lazy : Life!Use(r)
    <2>1. /\ step' = step \/ step' \in {"serving", "draining"}
          /\ channels' = channels
      BY <1>5 DEF Life!Drain, Life!Use, Life!Answered, Life!Record, Life!At
    <2> QED BY <1>1, <1>2, <1>3, <1>5, <2>1, ServingKeeps DEF Inv
  <1>6. CASE Stopping
    <2>1. CASE Life!BeginShutdown /\ \A c \in Calls : call[c] = "none"
      BY <1>1, <1>2, <1>3, <2>1, ServingKeeps DEF Inv
    <2>2. CASE Life!Shutdown
      BY <1>1, <1>2, <1>3, <2>2, ShutdownKeeps DEF Inv
    <2> QED BY <1>6, <2>1, <2>2 DEF Stopping
  <1> QED BY <1>4, <1>5, <1>6 DEF Process

-----------------------------------------------------------------------------
(* The process of the server *)

(* Whatever ends main or the process has ended or cancelled the RPCs that ran. *)
LEMMA ServerSteps ==
    ASSUME ServerOK,
           \/ Server!Run \/ Server!StartFails \/ Server!Started
           \/ \E sig \in Server!Signals : Server!Signalled(sig) \/ Server!Killed(sig)
           \/ Server!Interrupted \/ Server!MainUnwinds
           \/ Server!Stop \/ Server!GraceElapses \/ Server!Stopped \/ Server!Exited
    PROVE  ServerOK'
  <1>1. CASE Server!Exit
    BY <1>1 DEF Server!Exit, Server!Running, Server!Unwinding, ServerOK, Server!TypeOK
  <1>2. CASE Server!GraceElapses
    BY <1>2 DEF Server!GraceElapses, Server!Cancel, Server!Running, ServerOK, Server!TypeOK
  <1>3. CASE Server!Run
    BY <1>3, TracedAssumption DEF Server!Run, ServerOK, Server!TypeOK
  <1>4. CASE Server!Started \/ Server!Stop
    BY <1>4 DEF Server!Started, Server!Stop, Server!Signals, ServerOK, Server!TypeOK
  <1>5. ASSUME NEW sig \in Server!Signals, Server!Signalled(sig) PROVE ServerOK'
    BY <1>5 DEF Server!Signalled, ServerOK, Server!TypeOK
  <1>6. CASE Server!Interrupted
    <2>1. CASE proc = "serving" /\ proc' = "stopping" /\ UNCHANGED rpc
      BY <1>6, <2>1 DEF Server!Interrupted, ServerOK, Server!TypeOK
    <2>2. CASE proc \in {"starting", "stopping"} /\ proc' = "interrupted" /\ Server!Cancel(Server!Running)
      BY <1>6, <2>2 DEF Server!Interrupted, Server!Cancel, Server!Running, ServerOK, Server!TypeOK
    <2> QED BY <1>6, <2>1, <2>2 DEF Server!Interrupted
  <1>7. ASSUME Server!MainEnds, proc \in {"starting", "interrupted"} \/ Server!Running = {} PROVE ServerOK'
    BY <1>7 DEF Server!MainEnds, Server!Running, ServerOK, Server!TypeOK
  <1> QED BY <1>1, <1>2, <1>3, <1>4, <1>5, <1>6, <1>7
      DEF Server!StartFails, Server!Stopped, Server!MainUnwinds, Server!Exited, Server!Killed

LEMMA ServerProcessKeeps ==
    ASSUME Inv, ServerProcess
    PROVE  Inv'
  <1>1. LifeOK /\ ServerOK /\ CallsOK /\ UNCHANGED <<life, calls>>
    BY DEF Inv, ServerProcess
  <1>2. ServerOK'
    BY <1>1, ServerSteps DEF ServerProcess
  <1>3. CallsOK'
    BY <1>1 DEF life, calls, CallsOK
  <1>4. LifeOK'
    BY <1>1 DEF life, LifeOK, Life!TypeOK, LeftBehind, Equipped, Life!Pool, Life!PoolRaises
  <1> QED BY <1>2, <1>3, <1>4 DEF Inv

-----------------------------------------------------------------------------
(* The calls *)

LEMMA LifeStays == ASSUME LifeOK, UNCHANGED life PROVE LifeOK'
  BY DEF life, LifeOK, Life!TypeOK, LeftBehind, Equipped, Life!Pool, Life!PoolRaises

(* The pool's cycle goes round. *)
LEMMA Cycle ==
    ASSUME NEW n \in Nat, n > 0, NEW i \in 1..n
    PROVE  (i % n) + 1 \in 1..n
  <1>1. CASE i = n
    BY <1>1
  <1>2. CASE i < n
    BY <1>2
  <1> QED BY <1>1, <1>2

LEMMA RefuseKeeps ==
    ASSUME Inv, NEW c \in Calls, Refuse(c)
    PROVE  Inv'
  <1>1. LifeOK' /\ ServerOK'
    BY LifeStays DEF Inv, Refuse, server, ServerOK, Server!TypeOK
  <1>2. CallsOK'
    BY DEF Inv, Refuse, Answered, life, CallsOK
  <1> QED BY <1>1, <1>2 DEF Inv

LEMMA SendKeeps ==
    ASSUME Inv, NEW c \in Calls, Send(c)
    PROVE  Inv'
  <1>1. LifeOK' /\ ServerOK'
    BY LifeStays DEF Inv, Send, server, ServerOK, Server!TypeOK
  <1>2. settings.size \in 0..MaxChannels
    BY ConfigurationsAssumption DEF Inv, LifeOK, Life!TypeOK, Life!Settings
  <1>3. /\ step = "serving" /\ settings.target
        /\ call' = [call EXCEPT ![c] = "sent"] /\ channel' = [channel EXCEPT ![c] = cursor]
        /\ cursor' = (cursor % settings.size) + 1
        /\ UNCHANGED <<life, server>>
    BY DEF Send
  <1>4. channels = 1..settings.size /\ settings.size > 0
    BY <1>2, <1>3, ChannelsAssumption DEF Inv, LifeOK, Life!Pool, Life!PoolRaises
  <1>5. cursor \in 1..settings.size /\ cursor' \in 1..settings.size
    BY <1>2, <1>3, <1>4, Cycle, ChannelsAssumption DEF Inv, CallsOK
  <1>6. CallsOK'
    BY <1>2, <1>3, <1>4, <1>5, ChannelsAssumption DEF Inv, CallsOK, life, server
  <1> QED BY <1>1, <1>6 DEF Inv

LEMMA OutcomeKeeps ==
    ASSUME Inv, NEW c \in Calls, Outcome(c)
    PROVE  Inv'
  <1>1. LifeOK' /\ ServerOK'
    BY LifeStays DEF Inv, Outcome, life, server, ServerOK, Server!TypeOK
  <1>2. CallsOK'
    BY ChannelsAssumption DEF Inv, Outcome, Answered, CallsOK, life, NoChannel
  <1> QED BY <1>1, <1>2 DEF Inv

LEMMA LeaveKeeps ==
    ASSUME Inv, NEW c \in Calls, Leave(c)
    PROVE  Inv'
  <1>1. LifeOK' /\ ServerOK'
    BY LifeStays DEF Inv, Leave, server, ServerOK, Server!TypeOK
  <1>2. CallsOK'
    BY DEF Inv, Leave, life, server, CallsOK
  <1> QED BY <1>1, <1>2 DEF Inv

(* The server takes an RPC in flight, answers or cancels it, and forgets it. *)
LEMMA RpcKeeps ==
    ASSUME Inv, NEW c \in Calls, Reach(c) \/ Handled(c)
    PROVE  Inv'
  <1>1. LifeOK' /\ CallsOK'
    BY LifeStays DEF Inv, Reach, Handled, life, calls, CallsOK
  <1>2. ASSUME Server!Abandon(c) PROVE ServerOK'
    <2>1. /\ rpc' = [d \in Calls |-> IF d = c THEN "unwinding" ELSE rpc[d]]
          /\ UNCHANGED <<proc, handlers, stopEvent, tracer>>
      BY <1>2 DEF Server!Abandon, Server!Cancel
    <2> QED BY <2>1 DEF Inv, ServerOK, Server!TypeOK
  <1>3. ASSUME Server!Accept(c) \/ Server!Handle(c) \/ Server!Unwound(c) \/ Server!Forget(c)
        PROVE  ServerOK'
    BY <1>3 DEF Inv, Server!Accept, Server!Handle, Server!Unwound, Server!Forget, ServerOK, Server!TypeOK
  <1>4. \/ Server!Abandon(c) \/ Server!Accept(c) \/ Server!Handle(c) \/ Server!Unwound(c)
        \/ Server!Forget(c)
    BY Zenon DEF Reach, Handled, Abandoned, Forgotten
  <1> QED BY <1>1, <1>2, <1>3, <1>4 DEF Inv

LEMMA NextInv == Inv /\ [Next]_vars => Inv'
  <1> SUFFICES ASSUME Inv, [Next]_vars PROVE Inv'
    OBVIOUS
  <1>1. ASSUME NEW c \in Calls, Unauthorised(c) \/ NotConfigured(c) PROVE Inv'
    BY <1>1, RefuseKeeps DEF Unauthorised, NotConfigured
  <1>2. ASSUME NEW c \in Calls, Ends(c) \/ Deadline(c) PROVE Inv'
    BY <1>2, OutcomeKeeps DEF Ends, Deadline
  <1>3. CASE UNCHANGED vars
    <2>1. LifeOK'
      BY <1>3, LifeStays DEF Inv, vars
    <2>2. ServerOK' /\ CallsOK'
      BY <1>3 DEF Inv, vars, life, server, calls, ServerOK, Server!TypeOK, CallsOK
    <2> QED BY <2>1, <2>2 DEF Inv
  <1> QED BY <1>1, <1>2, <1>3, ProcessKeeps, ServerProcessKeeps, SendKeeps, RpcKeeps, LeaveKeeps DEF Next

-----------------------------------------------------------------------------
(* The theorems *)

(* The process, the server and the calls keep what they owe one another. *)
THEOREM Invariant == Spec => []Inv
  BY InitInv, NextInv, PTL DEF Spec

(* The variables have their types, in any order of the three (gateway, server, calls). *)
THEOREM TypeCorrect == Spec => []TypeOK
  <1>1. Inv => TypeOK
    BY DEF Inv, LifeOK, ServerOK, CallsOK, TypeOK
  <1> QED BY <1>1, Invariant, PTL

(* Whatever fails in the startup and the shutdown, only what the step that raised
   keeps from being closed is left open, and the Mongo client of a record that is
   written after the close (lifespan.py 46-64, grpc_lifespan.py 14-23, mongo.py
   39-50). *)
THEOREM NothingIsLeaked == Spec => []NothingLeaks
  <1>1. Inv => NothingLeaks
    BY DEF Inv, LifeOK, NothingLeaks, Life!NothingLeaks, MayBeOpen, LeftBehind
  <1> QED BY <1>1, Invariant, PTL

(* A request that is served finds the clients open, and an RPC in flight its
   channel, until the last request is over (channel_pool.py, grpc_lifespan.py). *)
THEOREM ServedComplete == Spec => []ServedWithEverything
  <1>1. Inv => ServedWithEverything
    BY DEF Inv, LifeOK, CallsOK, Equipped, ServedWithEverything, Life!ServedWithEverything
  <1> QED BY <1>1, Invariant, PTL

(* However the server is stopped, also by a second signal while RPCs and main unwind
   in any order, telemetry is shut down under none that still runs uncancelled
   (server.py 53-79, main.py 14-22). *)
THEOREM CallsAreTraced == Spec => []TelemetryOutlivesCalls
  <1>1. Inv => TelemetryOutlivesCalls
    BY TracedAssumption DEF Inv, ServerOK, TelemetryOutlivesCalls
  <1> QED BY <1>1, Invariant, PTL

-----------------------------------------------------------------------------
(* The shutdown *)

ShuttingDown == {"channels", "mongo", "redis", "pool", "http", "WRITE", "READ", "ended"}

(* The steps that a process that drains has before it: one for each channel that
   is open, and one for each part of the two finally blocks. *)
StepsToEnd ==
    CASE step = "draining" -> 8 + Cardinality(channels)
      [] step = "channels" -> 7 + Cardinality(channels)
      [] step = "mongo"    -> 6
      [] step = "redis"    -> 5
      [] step = "pool"     -> 4
      [] step = "http"     -> 3
      [] step = "WRITE"    -> 2
      [] step = "READ"     -> 1
      [] step = "ended"    -> 0

Draining == step = "draining" \/ step \in ShuttingDown

EndIsNear ==
    /\ channels \subseteq Life!Channels
    /\ IsFiniteSet(channels)
    /\ Draining => StepsToEnd \in 0 .. 8 + MaxChannels

(* Every step of the shutdown brings the end nearer, and no step of a request or
   of the server puts it off. *)
NearsTheEnd ==
    /\ Draining => Draining' /\ StepsToEnd' <= StepsToEnd
    /\ Stopping => StepsToEnd' < StepsToEnd

(* What the shutdown has closed is opened again only by a record under way. *)
ClosedForGood ==
    step \in ShuttingDown =>
        /\ step' \in ShuttingDown
        /\ open' \subseteq open \cup {r \in {"mongo"} : records}
        /\ records' => records
        /\ channels' \subseteq channels
        /\ raised \subseteq raised'
        /\ step = "ended" => UNCHANGED life

USE DEF ShuttingDown

LEMMA EndIsNearInv == Inv => EndIsNear
  <1> SUFFICES ASSUME Inv PROVE EndIsNear
    OBVIOUS
  <1>1. channels \subseteq 1..MaxChannels
    BY DEF Inv, LifeOK, Life!TypeOK, Life!Channels
  <1>2. IsFiniteSet(1..MaxChannels) /\ Cardinality(1..MaxChannels) = MaxChannels
    BY ChannelsAssumption, FS_Interval
  <1>3. IsFiniteSet(channels) /\ Cardinality(channels) \in 0..MaxChannels
    <2>1. IsFiniteSet(channels) /\ Cardinality(channels) <= MaxChannels
      BY <1>1, <1>2, FS_Subset
    <2>2. Cardinality(channels) \in Nat
      BY <2>1, FS_CardinalityType
    <2> QED BY <2>1, <2>2, ChannelsAssumption
  <1>4. ASSUME Draining PROVE StepsToEnd \in 0 .. 8 + MaxChannels
    <2>1. CASE step \in {"draining", "channels"}
      <3>1. StepsToEnd \in {7 + Cardinality(channels), 8 + Cardinality(channels)}
        BY <2>1 DEF StepsToEnd
      <3> QED BY <1>3, <3>1, ChannelsAssumption
    <2>2. CASE step \in ShuttingDown \ {"channels"}
      <3>1. StepsToEnd \in 0..6
        BY <2>2 DEF StepsToEnd
      <3> QED BY <3>1, ChannelsAssumption
    <2> QED BY <1>4, <2>1, <2>2 DEF Draining
  <1> QED BY <1>1, <1>3, <1>4 DEF EndIsNear, Life!Channels

LEMMA LeastChannel ==
    ASSUME NEW S \in SUBSET Nat, S # {}
    PROVE  \E c \in S : \A d \in S : c <= d
  <1> DEFINE Less == OpToRel(<, Nat)
  <1>1. IsWellFoundedOn(Less, Nat)
    BY NatLessThanWellFounded
  <1>2. \A u, v \in Nat : u < v => <<u, v>> \in Less
    BY DEF OpToRel
  <1> HIDE DEF Less
  <1>3. PICK c \in S : \A d \in S : ~ (<<d, c>> \in Less)
    BY <1>1, WFMin
  <1>4. \A d \in S : ~ (d < c)
    BY <1>2, <1>3
  <1> QED BY <1>4

(* The channel that CloseChannel closes is one of them. *)
LEMMA OneChannelLess ==
    ASSUME EndIsNear, Life!CloseChannel
    PROVE  /\ channels' \subseteq channels
           /\ IsFiniteSet(channels)
           /\ Cardinality(channels) \in Nat
           /\ Cardinality(channels') = Cardinality(channels) - 1
  <1> DEFINE First == CHOOSE c \in channels : \A d \in channels : c <= d
  <1>1. channels # {} /\ channels \in SUBSET Nat
    BY ChannelsAssumption DEF Life!CloseChannel, EndIsNear, Life!Channels
  <1>2. First \in channels
    BY <1>1, LeastChannel
  <1>3. channels' = channels \ {First}
    BY DEF Life!CloseChannel
  <1>4. IsFiniteSet(channels) /\ Cardinality(channels) \in Nat
    BY FS_CardinalityType DEF EndIsNear
  <1> QED BY <1>2, <1>3, <1>4, FS_RemoveElement

LEMMA ShutdownNears ==
    ASSUME EndIsNear, Life!Shutdown
    PROVE  /\ step \in ShuttingDown /\ step' \in ShuttingDown
           /\ StepsToEnd' < StepsToEnd
           /\ open' \subseteq open /\ channels' \subseteq channels /\ raised \subseteq raised'
           /\ step # "ended" /\ records' = records
  <1> DEFINE Goal == /\ step \in ShuttingDown /\ step' \in ShuttingDown
                     /\ StepsToEnd' < StepsToEnd
                     /\ open' \subseteq open /\ channels' \subseteq channels /\ raised \subseteq raised'
                     /\ step # "ended" /\ records' = records
  <1>0. Cardinality(channels) \in Nat
    BY FS_CardinalityType DEF EndIsNear
  <1>1. ASSUME Life!CloseChannel PROVE Goal
    <2>1. step = "channels" /\ step' = "channels" /\ UNCHANGED <<open, raised, records>>
      BY <1>1 DEF Life!CloseChannel, Life!At
    <2> QED BY <1>1, <2>1, OneChannelLess DEF StepsToEnd
  <1>2. ASSUME NEW this, NEW R, NEW next, Life!Closes(this, R, next),
               <<this, next>> \in
                 {<<"channels", "mongo">>, <<"mongo", "redis">>, <<"redis", "pool">>, <<"pool", "http">>,
                  <<"http", "WRITE">>, <<"WRITE", "READ">>, <<"READ", "ended">>}
        PROVE  Goal
    <2>1. step = this /\ step' = next /\ open' = open \ R /\ UNCHANGED <<raised, records, channels>>
      BY <1>2 DEF Life!Closes, Life!At
    <2>2. StepsToEnd' < StepsToEnd
      BY <1>0, <1>2, <2>1 DEF StepsToEnd
    <2> QED BY <1>2, <2>1, <2>2
  <1>3. ASSUME NEW e \in Life!Engines, Life!DisposeFails(e) PROVE Goal
    <2>1. /\ step = e /\ step' = Life!NextOf(e) /\ raised' = raised \cup {e}
          /\ UNCHANGED <<records, open, channels>>
      BY <1>3 DEF Life!DisposeFails, Life!At
    <2>2. CASE e = "WRITE"
      BY <2>1, <2>2 DEF Life!NextOf, StepsToEnd
    <2>3. CASE e = "READ"
      BY <2>1, <2>3 DEF Life!NextOf, StepsToEnd
    <2> QED BY <2>2, <2>3 DEF Life!Engines
  <1>4. ASSUME Life!ShutdownRaises PROVE Goal
    <2>1. /\ step \in {"channels", "mongo", "redis", "pool", "http"}
          /\ raised' = raised \cup {step}
          /\ step' = IF step = "channels" THEN "mongo" ELSE "ended"
          /\ UNCHANGED <<records, open, channels>>
      BY <1>4 DEF Life!ShutdownRaises
    <2>2. StepsToEnd' < StepsToEnd
      BY <1>0, <2>1 DEF StepsToEnd
    <2> QED BY <2>1, <2>2
  <1>5. ASSUME NEW e \in Life!Engines, Life!Dispose(e) PROVE Goal
    <2>1. CASE e = "WRITE"
      BY <1>2, <1>5, <2>1 DEF Life!Dispose, Life!NextOf
    <2>2. CASE e = "READ"
      BY <1>2, <1>5, <2>2 DEF Life!Dispose, Life!NextOf
    <2> QED BY <2>1, <2>2 DEF Life!Engines
  <1>6. ASSUME Life!ChannelsClosed PROVE Goal
    BY <1>2, <1>6 DEF Life!ChannelsClosed
  <1>7. ASSUME Life!CloseMongo \/ Life!CloseRedis \/ Life!ClosePool \/ Life!CloseHttp PROVE Goal
    BY <1>2, <1>7 DEF Life!CloseMongo, Life!CloseRedis, Life!ClosePool, Life!CloseHttp
  <1> QED BY <1>1, <1>3, <1>4, <1>5, <1>6, <1>7 DEF Life!Shutdown

(* What the requests, their records, the server and the startup do to the lifespan:
   nothing that moves the shutdown. *)
Others ==
    \/ UNCHANGED life \/ Starting \/ Life!Drain \/ Life!Answered \/ Life!Record
    \/ \E r \in Life!Lazy : Life!Use(r)

LEMMA OthersLeaveTheShutdown ==
    ASSUME EndIsNear, Others
    PROVE  /\ step \in ShuttingDown => UNCHANGED life \/ Life!Record
           /\ step \in ShuttingDown \cup {"draining"} => step' = step /\ channels' = channels
  <1>1. CASE UNCHANGED life
    BY <1>1 DEF life
  <1>2. CASE Starting
    BY <1>2 DEF Starting, Life!GetApp, Life!RedisRaises, Life!RateLimiterRaises, Life!StartupRaises,
                Life!Startup, Life!SetupGrpc, Life!SetupGrpcRaises, Life!At
  <1>3. CASE Life!Drain \/ Life!Answered \/ Life!Record
    BY <1>3 DEF Life!Drain, Life!Answered, Life!Record, Life!At
  <1>4. ASSUME NEW r \in Life!Lazy, Life!Use(r)
        PROVE  step \notin ShuttingDown /\ step' = step /\ channels' = channels
    BY <1>4 DEF Life!Use
  <1> QED BY <1>1, <1>2, <1>3, <1>4 DEF Others

(* A step is one of the shutdown, its begin, or leaves it alone. *)
LEMMA KindsOfSteps ==
    ASSUME [Next]_vars
    PROVE  Others \/ Life!Shutdown \/ Life!BeginShutdown
  <1>1. CASE Process
    BY <1>1 DEF Process, Stopping, Others
  <1>2. CASE ServerProcess
    BY <1>2 DEF ServerProcess, Others
  <1>3. ASSUME NEW c \in Calls,
               \/ Unauthorised(c) \/ NotConfigured(c) \/ Send(c)
               \/ Reach(c) \/ Handled(c) \/ Ends(c) \/ Deadline(c) \/ Leave(c)
        PROVE  UNCHANGED life
    BY <1>3 DEF Unauthorised, NotConfigured, Refuse, Send, Reach, Handled, Ends, Deadline, Outcome, Leave
  <1>4. CASE UNCHANGED vars
    BY <1>4 DEF vars, Others
  <1> QED BY <1>1, <1>2, <1>3, <1>4 DEF Next, Others

LEMMA BeginningNears ==
    ASSUME EndIsNear, Life!BeginShutdown
    PROVE  Draining /\ Draining' /\ StepsToEnd' < StepsToEnd
  <1>1. step = "draining" /\ step' = "channels" /\ channels' = channels
    BY DEF Life!BeginShutdown, Life!At
  <1>2. Cardinality(channels) \in Nat
    BY FS_CardinalityType DEF EndIsNear
  <1> QED BY <1>1, <1>2 DEF Draining, StepsToEnd

(* Once the gateway drains, it has at most as many steps before its end as it has
   channels and parts to close; every step of the shutdown, also one that raises
   or times out, is one of them, and nothing that the requests or the server do
   adds one: what keeps a process from ending is only a step that is not taken
   (lifespan.py 50-64, grpc_lifespan.py 18-23, channel_pool.py 49-52). *)
THEOREM EveryCloseIsNearer == Spec => []EndIsNear /\ [][NearsTheEnd]_vars
  <1>1. Inv /\ [Next]_vars => [NearsTheEnd]_vars
    <2> SUFFICES ASSUME Inv, [Next]_vars, ~UNCHANGED vars PROVE NearsTheEnd
      OBVIOUS
    <2>1. EndIsNear
      BY EndIsNearInv
    <2>2. (Draining => StepsToEnd \in Nat) /\ (Draining => StepsToEnd \in Nat)'
      <3>1. Inv'
        BY NextInv
      <3>2. EndIsNear'
        BY <3>1, EndIsNearInv, PTL
      <3> QED BY <2>1, <3>2, ChannelsAssumption DEF EndIsNear
    <2>3. ASSUME Life!Shutdown PROVE NearsTheEnd
      <3>1. Draining /\ Draining' /\ StepsToEnd' < StepsToEnd
        BY <2>1, <2>3, ShutdownNears DEF Draining
      <3> QED BY <2>2, <3>1 DEF NearsTheEnd
    <2>4. ASSUME Life!BeginShutdown PROVE NearsTheEnd
      <3>1. Draining /\ Draining' /\ StepsToEnd' < StepsToEnd
        BY <2>1, <2>4, BeginningNears
      <3> QED BY <2>2, <3>1 DEF NearsTheEnd
    <2>5. ASSUME Others, ~Life!Shutdown, ~Life!BeginShutdown
          PROVE  NearsTheEnd
      <3>1. Draining => Draining' /\ StepsToEnd' = StepsToEnd
        BY <2>1, <2>5, OthersLeaveTheShutdown DEF Draining, StepsToEnd
      <3> QED BY <2>2, <2>5, <3>1 DEF NearsTheEnd, Stopping
    <2> QED BY <2>3, <2>4, <2>5, KindsOfSteps
  <1> QED BY <1>1, Invariant, EndIsNearInv, PTL DEF Spec

(* The lifespan is not left: from its first close a process opens nothing again,
   neither a channel nor a client, but the Mongo client for a record that was under
   way; no record is begun, and a process that has ended stays so, whatever the
   requests and the server still do (lifespan.py 50-64, grpc_lifespan.py 18-23,
   log_request.py 91-99). *)
THEOREM OnlyRecordsReopen == Spec => [][ClosedForGood]_vars
  <1>1. Inv /\ [Next]_vars => [ClosedForGood]_vars
    <2> SUFFICES ASSUME Inv, [Next]_vars PROVE ClosedForGood
      OBVIOUS
    <2>1. EndIsNear
      BY EndIsNearInv
    <2>2. ASSUME Life!Shutdown PROVE ClosedForGood
      BY <2>1, <2>2, ShutdownNears DEF ClosedForGood
    <2>3. ASSUME Life!BeginShutdown PROVE ClosedForGood
      BY <2>3 DEF Life!BeginShutdown, Life!At, ClosedForGood
    <2>4. ASSUME Others PROVE ClosedForGood
      <3>1. step \in ShuttingDown => UNCHANGED life \/ Life!Record
        BY <2>1, <2>4, OthersLeaveTheShutdown
      <3> QED BY <3>1 DEF ClosedForGood, life, Life!Record
    <2> QED BY <2>2, <2>3, <2>4, KindsOfSteps
  <1> QED BY <1>1, Invariant, PTL DEF Spec
=============================================================================
