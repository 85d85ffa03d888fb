----------------------------- MODULE GrpcServer -----------------------------
(***************************************************************************)
(* core/grpc_server: the process that main (or run_server) runs: telemetry *)
(* around GrpcServer.serve, which starts the server, waits for a signal,   *)
(* and stops it with a grace period; and the RPCs that it handles.         *)
(*                                                                         *)
(*   down -> starting -> serving -> stopping -> exiting -> down           *)
(*   starting | stopping -> interrupted -> exiting                         *)
(*                                                                         *)
(* The task of an RPC that is cancelled goes on until it has unwound; so   *)
(* does main, when a signal interrupts it.                                 *)
(***************************************************************************)
CONSTANTS
    Calls,    \* the RPCs that clients may have in flight
    Traced    \* settings.opentelemetry_endpoint is set

VARIABLES
    proc,      \* where the process is
    handlers,  \* the signals with a handler of serve
    stopEvent, \* the event that serve waits for
    tracer,    \* _tracer_provider is there
    rpc        \* what the server knows of each RPC

vars == <<proc, handlers, stopEvent, tracer, rpc>>

Signals == {"SIGINT", "SIGTERM"}

Running == {c \in Calls : rpc[c] = "running"}
Unwinding == {c \in Calls : rpc[c] = "unwinding"}

Cancel(C) == rpc' = [c \in Calls |-> IF c \in C THEN "unwinding" ELSE rpc[c]]

Init ==
    /\ proc = "down"
    /\ handlers = {}
    /\ stopEvent = FALSE
    /\ tracer = FALSE
    /\ rpc = [c \in Calls |-> "none"]

(* The process is gone, with all that it still had. *)
Exit ==
    /\ proc' = "down"
    /\ handlers' = {}
    /\ stopEvent' = FALSE
    /\ tracer' = FALSE
    /\ rpc' = [c \in Calls |-> IF c \in Running \cup Unwinding THEN "over" ELSE rpc[c]]

(* main up to the await in start. *)
Run ==
    /\ proc = "down"
    /\ proc' = "starting"
    /\ tracer' = Traced
    /\ UNCHANGED <<handlers, stopEvent, rpc>>

(* main's finally shuts telemetry down, whatever RPCs there are. *)
MainEnds ==
    /\ proc' = "exiting"
    /\ tracer' = FALSE
    /\ UNCHANGED <<handlers, stopEvent, rpc>>

(* The port is taken, or start raises. *)
StartFails == proc = "starting" /\ MainEnds

(* A loop without signal handlers gets none. *)
Started ==
    /\ proc = "starting"
    /\ proc' = "serving"
    /\ handlers' \in {Signals, {}}
    /\ UNCHANGED <<stopEvent, tracer, rpc>>

(* A signal that serve handles. *)
Signalled(sig) ==
    /\ proc # "down"
    /\ sig \in handlers
    /\ stopEvent' = TRUE
    /\ UNCHANGED <<proc, handlers, tracer, rpc>>

(* A SIGINT without a handler. A first one cancels main, whose finally stops the
   server it has started; one that finds main stopping it raises KeyboardInterrupt,
   and asyncio.run cancels main and all RPCs together. *)
Interrupted ==
    /\ "SIGINT" \notin handlers
    /\ \/ proc = "serving" /\ proc' = "stopping" /\ UNCHANGED rpc
       \/ proc \in {"starting", "stopping"} /\ proc' = "interrupted" /\ Cancel(Running)
    /\ UNCHANGED <<handlers, stopEvent, tracer>>

(* A SIGTERM without a handler kills; a SIGINT ends the cancelling, too. *)
Killed(sig) ==
    /\ proc # "down"
    /\ sig \notin handlers
    /\ sig = "SIGTERM" \/ proc \in {"interrupted", "exiting"}
    /\ Exit

(* Mutant: telemetry is shut down while the server still stops. *)
StopShutsTelemetryFirst ==
    /\ proc = "serving"
    /\ stopEvent
    /\ proc' = "stopping"
    /\ handlers' = {}
    /\ tracer' = FALSE
    /\ UNCHANGED <<stopEvent, rpc>>

(* The wait is over; the handlers are removed before the server is stopped. *)
Stop ==
    /\ proc = "serving"
    /\ stopEvent
    /\ proc' = "stopping"
    /\ handlers' = {}
    /\ UNCHANGED <<stopEvent, tracer, rpc>>

(* grpc_shutdown_grace_seconds are over. *)
GraceElapses ==
    /\ proc = "stopping"
    /\ Running # {}
    /\ Cancel(Running)
    /\ UNCHANGED <<proc, handlers, stopEvent, tracer>>

(* stop returns once no RPC runs; it waits for none that was cancelled. *)
Stopped ==
    /\ proc = "stopping"
    /\ Running = {}
    /\ MainEnds

(* main, cancelled, reaches its finally before or after the RPCs have unwound. *)
MainUnwinds == proc = "interrupted" /\ MainEnds

(* asyncio.run is left when every task has unwound. *)
Exited ==
    /\ proc = "exiting"
    /\ Unwinding = {}
    /\ Exit

(* The servicer takes an RPC, *)
Accept(c) ==
    /\ proc = "serving"
    /\ rpc[c] = "none"
    /\ rpc' = [rpc EXCEPT ![c] = "running"]
    /\ UNCHANGED <<proc, handlers, stopEvent, tracer>>

(* answers or aborts it, *)
Handle(c) ==
    /\ rpc[c] = "running"
    /\ rpc' = [rpc EXCEPT ![c] = "over"]
    /\ UNCHANGED <<proc, handlers, stopEvent, tracer>>

(* or is told that its client has given up. *)
Abandon(c) ==
    /\ rpc[c] = "running"
    /\ Cancel({c})
    /\ UNCHANGED <<proc, handlers, stopEvent, tracer>>

Unwound(c) ==
    /\ rpc[c] = "unwinding"
    /\ rpc' = [rpc EXCEPT ![c] = "over"]
    /\ UNCHANGED <<proc, handlers, stopEvent, tracer>>

(* What is over is forgotten. *)
Forget(c) ==
    /\ rpc[c] = "over"
    /\ rpc' = [rpc EXCEPT ![c] = "none"]
    /\ UNCHANGED <<proc, handlers, stopEvent, tracer>>

TypeOK ==
    /\ proc \in {"down", "starting", "serving", "stopping", "interrupted", "exiting"}
    /\ handlers \subseteq Signals
    /\ stopEvent \in BOOLEAN
    /\ tracer \in BOOLEAN
    /\ rpc \in [Calls -> {"none", "running", "unwinding", "over"}]

=============================================================================
