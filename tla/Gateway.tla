------------------------------ MODULE Gateway ------------------------------
(***************************************************************************)
(* base-fastapi-grpc: a FastAPI process (Lifespan) whose route             *)
(* /health/grpc calls the gRPC server (GrpcServer) over the channels of    *)
(* its pool, while both processes start, stop and are interrupted.         *)
(***************************************************************************)
EXTENDS Naturals

CONSTANTS
    Calls,          \* requests to /health/grpc, each with one RPC
    Configurations, \* the settings of the gateway
    MaxChannels,    \* bound of the model on grpc_pool_size
    Traced          \* the server's settings.opentelemetry_endpoint is set

ASSUME ChannelsAssumption == MaxChannels \in Nat
ASSUME TracedAssumption == Traced \in BOOLEAN

VARIABLES
    settings, step, raised, records, late, open, channels, store, \* Lifespan
    proc, handlers, stopEvent, tracer, rpc, \* GrpcServer
    call,    \* where each request is
    channel, \* the channel of its RPC
    cursor   \* the channel that the pool's cycle gives next

life == <<settings, step, raised, records, late, open, channels, store>>
server == <<proc, handlers, stopEvent, tracer, rpc>>
calls == <<call, channel, cursor>>
vars == <<life, server, calls>>

Life == INSTANCE Lifespan
Server == INSTANCE GrpcServer

ASSUME ConfigurationsAssumption == Configurations \subseteq Life!Settings

NoChannel == 0

Init ==
    /\ Life!Init
    /\ Server!Init
    /\ call = [c \in Calls |-> "none"]
    /\ channel = [c \in Calls |-> NoChannel]
    /\ cursor = 1

-----------------------------------------------------------------------------
Answered(c) == call' = [call EXCEPT ![c] = "answered"]

Refuse(c) ==
    /\ step = "serving"
    /\ call[c] = "none"
    /\ Answered(c)
    /\ UNCHANGED <<life, server, channel, cursor>>

(* check_required_auth_header *)
Unauthorised(c) == Refuse(c)

(* get_health_service_stub without a pool *)
NotConfigured(c) == ~settings.target /\ Refuse(c)

(* ... or with the next channel of the pool's cycle, and the RPC is sent. (The
   server has forgotten the one that had its name before: bound of the model.) *)
Send(c) ==
    /\ step = "serving"
    /\ settings.target
    /\ call[c] = "none"
    /\ rpc[c] = "none"
    /\ call' = [call EXCEPT ![c] = "sent"]
    /\ channel' = [channel EXCEPT ![c] = cursor]
    /\ cursor' = (cursor % settings.size) + 1
    /\ UNCHANGED <<life, server>>

(* The RPC reaches the server. *)
Reach(c) ==
    /\ call[c] = "sent"
    /\ Server!Accept(c)
    /\ UNCHANGED <<life, calls>>

(* The server hears that the gateway no longer waits for an RPC. *)
Abandoned(c) == call[c] # "sent" /\ Server!Abandon(c)
Forgotten(c) == call[c] # "sent" /\ Server!Forget(c)

Handled(c) ==
    /\ Server!Handle(c) \/ Abandoned(c) \/ Server!Unwound(c) \/ Forgotten(c)
    /\ UNCHANGED <<life, calls>>

(* The gateway has the outcome of an RPC; the server knows nothing of it yet. *)
Outcome(c) ==
    /\ call[c] = "sent"
    /\ Answered(c)
    /\ channel' = [channel EXCEPT ![c] = NoChannel]
    /\ UNCHANGED <<life, server, cursor>>

(* The servicer has answered or aborted it; it was cancelled; or it was sent,
   without wait_for_ready, to no server. Each has its HTTP status. *)
Ends(c) ==
    /\ \/ rpc[c] \in {"over", "unwinding"}
       \/ rpc[c] = "none" /\ proc # "serving"
    /\ Outcome(c)

(* Mutant: the call is made without its timeout. *)
DeadlineNever(c) == FALSE /\ Outcome(c)

(* grpc_timeout_seconds, whatever the server does. *)
Deadline(c) == Outcome(c)

(* The response leaves, and the client may call again. *)
Leave(c) ==
    /\ call[c] = "answered"
    /\ call' = [call EXCEPT ![c] = "none"]
    /\ UNCHANGED <<life, server, channel, cursor>>

-----------------------------------------------------------------------------

Starting ==
    \/ Life!GetApp \/ Life!RedisRaises \/ Life!RateLimiterRaises
    \/ Life!Startup \/ Life!SetupGrpc \/ Life!SetupGrpcRaises

(* uvicorn begins the shutdown of the lifespan when the requests are over. *)
Stopping ==
    \/ Life!BeginShutdown /\ \A c \in Calls : call[c] = "none"
    \/ Life!Shutdown

Process ==
    /\ \/ Starting \/ Life!Drain \/ Stopping
       \/ Life!Answered \/ Life!Record \/ \E r \in Life!Lazy : Life!Use(r)
    /\ UNCHANGED <<server, calls>>

ServerProcess ==
    /\ \/ Server!Run \/ Server!StartFails \/ Server!Started
       \/ \E sig \in Server!Signals : Server!Signalled(sig) \/ Server!Killed(sig)
       \/ Server!Interrupted \/ Server!MainUnwinds
       \/ Server!Stop \/ Server!GraceElapses \/ Server!Stopped \/ Server!Exited
    /\ UNCHANGED <<life, calls>>

Next ==
    \/ Process
    \/ ServerProcess
    \/ \E c \in Calls :
          \/ Unauthorised(c) \/ NotConfigured(c) \/ Send(c)
          \/ Reach(c) \/ Handled(c) \/ Ends(c) \/ Deadline(c) \/ Leave(c)

(* The deadline of an RPC is the gateway's own timer, responses leave, and every
   close returns or raises. The server owes nobody anything. *)
Fairness ==
    /\ \A c \in Calls : WF_vars(Deadline(c)) /\ WF_vars(Leave(c))
    /\ WF_vars(Stopping /\ UNCHANGED <<server, calls>>)

Spec == Init /\ [][Next]_vars /\ Fairness

-----------------------------------------------------------------------------

TypeOK ==
    /\ Life!TypeOK
    /\ Server!TypeOK
    /\ call \in [Calls -> {"none", "sent", "answered"}]
    /\ channel \in [Calls -> 0..MaxChannels]
    /\ cursor \in 1..(MaxChannels + 1)

(* See Lifespan. *)
NothingLeaks == Life!NothingLeaks

(* What is served finds everything open, and an RPC in flight the channel that
   the pool handed out for it. *)
ServedWithEverything ==
    /\ Life!ServedWithEverything
    /\ \A c \in Calls : call[c] = "sent" => channel[c] \in channels

(* Telemetry is shut down under no RPC that runs: whoever stops the server, with
   one signal or with a second one in the grace period, an RPC whose span is lost
   has been cancelled before (lines 53-79 of server.py, 14-22 of main.py). *)
TelemetryOutlivesCalls ==
    \A c \in Calls : Traced /\ rpc[c] = "running" => tracer

(* Every RPC gets its request an answer, and a process that drains ends, whenever
   the server stops, is killed, comes back or never answers: each RPC has a
   deadline of its own (line 21 of services.py). *)
NothingHangs ==
    /\ \A c \in Calls : call[c] = "sent" ~> call[c] = "answered"
    /\ step = "draining" ~> step = "ended"
=============================================================================
