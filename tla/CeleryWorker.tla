---------------------------- MODULE CeleryWorker ----------------------------
(***************************************************************************)
(* A Celery worker of app/celery/celery.py (the same file in both FastAPI  *)
(* applications): the main process, the children that the prefork pool     *)
(* forks from it, the event loop, clients and connections in the memory of *)
(* each, and the tasks, whose coroutines run_async runs on that loop.      *)
(*                                                                         *)
(*   process: down -> forked -> ready                                      *)
(*            ready -> closing -> disposing -> disposed -> down   shutdown *)
(*   task:    queued -> body -> checked -> loop -> body -> over            *)
(*            body | checked -> refused    the loop runs already           *)
(*            loop | checked -> stray -> over                              *)
(*                                its coroutine stays on the loop          *)
(*            checked -> hung     its thread runs the loop, and for ever   *)
(*            stray -> dropped    its process is shut down                 *)
(*            any of these -> cut its process is killed                    *)
(***************************************************************************)
EXTENDS Integers, FiniteSets

CONSTANTS
    Main,      \* the pid of the main process
    Children,  \* bound of the model: the pids of the children
    None,
    Tasks,
    Pools      \* the pool classes with which this instance is started

Pids == {Main} \cup Children

ASSUME PidsAssumption == Main \notin Children /\ None \notin Pids
ASSUME PoolsAssumption == Pools \subseteq {"prefork", "solo", "threads"}

VARIABLES
    pool,      \* the worker's pool class
    nullPool,  \* the engines use NullPool: their environment said so at import
    process,   \* where each process is
    mem,       \* its module variables, and the connections in its pools
    task,      \* where each task is,
    at,        \* and in which process
    left,      \* history: what each child had open when it shut down,
    why        \* and what may have kept it open

tasks == <<task, at>>
history == <<left, why>>
vars == <<pool, nullPool, process, mem, tasks, history>>

Kinds == {"redis", "mongo", "db"}

(* A loop is named by the pid that made it; a connection by its client, by the
   process that opened it, and by its loop. *)
Connections == [kind : Kinds, by : Pids, on : Pids]

Fresh == [booted |-> {}, loop |-> None, redis |-> FALSE, conns |-> {}]

In(p, phases) == {t \in Tasks : at[t] = p /\ task[t] \in phases}

Busy(p) == In(p, {"body", "checked", "loop", "hung"})

Shutting(p) == process[p] \in {"closing", "disposing", "disposed"}

(* loop.is_running() *)
Running(p) == In(p, {"loop", "hung"}) # {} \/ Shutting(p)

(* CELERY_WORKER is read when the engines are made, which the import of
   core.db.lifespan does before line 19 sets it: what counts is the environment
   that the worker was started in, or use_pgbouncer. *)
Init ==
    /\ pool \in Pools
    /\ nullPool \in BOOLEAN
    /\ process = [p \in Pids |-> "down"]
    /\ mem = [p \in Pids |-> Fresh]
    /\ task = [t \in Tasks |-> "queued"]
    /\ at = [t \in Tasks |-> None]
    /\ left = [p \in Pids |-> {}]
    /\ why = [p \in Pids |-> {}]

-----------------------------------------------------------------------------
(* Processes *)

(* get_worker_loop: the loop of the module, or a new one. A loop is closed only
   as its process goes. *)
WorkerLoop(p) == IF mem[p].loop = None THEN p ELSE mem[p].loop

(* _bootstrap_worker: once in every process. What raises in it (logging,
   telemetry, an engine, the Redis pool) is logged by Celery's signal and no
   more: the worker goes on with what it has. *)
Bootstrap(p) ==
    LET looped == [mem EXCEPT ![p].loop = WorkerLoop(p)]
    IN  mem' \in IF p \in mem[p].booted THEN {mem}
                 ELSE {mem, looped, [looped EXCEPT ![p].booted = @ \cup {p}, ![p].redis = TRUE]}

(* Mutant: the main process prepares everything, whatever the pool. *)
WorkerInitAlways ==
    /\ process[Main] = "down"
    /\ process' = [process EXCEPT ![Main] = "ready"]
    /\ Bootstrap(Main)
    /\ UNCHANGED <<pool, nullPool, tasks, history>>

(* init_worker: prefork is to prepare nothing before it forks. *)
WorkerInit ==
    /\ process[Main] = "down"
    /\ process' = [process EXCEPT ![Main] = "ready"]
    /\ IF pool = "prefork" THEN UNCHANGED mem ELSE Bootstrap(Main)
    /\ UNCHANGED <<pool, nullPool, tasks, history>>

(* A child starts with the memory of the main process. *)
Fork(p) ==
    /\ pool = "prefork"
    /\ process[Main] = "ready"
    /\ p \in Children /\ process[p] = "down"
    /\ process' = [process EXCEPT ![p] = "forked"]
    /\ mem' = [mem EXCEPT ![p] = mem[Main]]
    /\ UNCHANGED <<pool, nullPool, tasks, history>>

(* init_worker_process, which the solo pool calls too. *)
ProcessInit(p) ==
    /\ \/ process[p] = "forked"
       \/ p = Main /\ pool = "solo" /\ process[p] = "ready"
    /\ process' = [process EXCEPT ![p] = "ready"]
    /\ Bootstrap(p)
    /\ UNCHANGED <<pool, nullPool, tasks, history>>

(* Mutant: the tasks of a process that goes stay as they are. *)
EndsNothing(p, how) == UNCHANGED task

(* What a process leaves unfinished when it goes. *)
Ends(p, how) ==
    task' = [t \in Tasks |->
                IF t \in In(p, {"body", "checked", "loop", "hung", "stray"}) THEN how ELSE task[t]]

(* A process is gone, and its memory with it. *)
Gone(p) ==
    /\ process' = [process EXCEPT ![p] = "down"]
    /\ mem' = [mem EXCEPT ![p] = Fresh]

(* The connections of these kinds are closed. *)
Without(p, kinds) == {c \in mem[p].conns : c.kind \notin kinds}

(* shutdown_worker_process, of a child without a task: Redis is closed on the
   loop, if there is one, and a coroutine that was left on the loop runs on
   while the loop runs. *)
Shutdown(p) ==
    /\ p \in Children /\ process[p] = "ready"
    /\ Busy(p) = {}
    /\ left' = [left EXCEPT ![p] = {}]
    /\ why' = [why EXCEPT ![p] = IF In(p, {"stray"}) = {} THEN {} ELSE {"stray"}]
    /\ IF mem[p].loop = None THEN Gone(p)
       ELSE /\ process' = [process EXCEPT ![p] = "closing"]
            /\ mem' = [mem EXCEPT ![p].conns = Without(p, {"redis"})]
    /\ UNCHANGED <<pool, nullPool, tasks>>

(* Mutant: MongoDB is forgotten. *)
CloseRedisOnly(p) ==
    /\ process[p] = "closing"
    /\ process' = [process EXCEPT ![p] = "disposing"]
    /\ mem' = [mem EXCEPT ![p].redis = FALSE]
    /\ UNCHANGED <<pool, nullPool, tasks, history>>

(* The Redis pool is dropped, then MongoDB is closed; dispose_engines begins. *)
CloseClients(p) ==
    /\ process[p] = "closing"
    /\ process' = [process EXCEPT ![p] = "disposing"]
    /\ mem' = [mem EXCEPT ![p].redis = FALSE, ![p].conns = Without(p, {"mongo"})]
    /\ UNCHANGED <<pool, nullPool, tasks, history>>

Dispose(p) ==
    /\ process[p] = "disposing"
    /\ process' = [process EXCEPT ![p] = "disposed"]
    /\ mem' = [mem EXCEPT ![p].conns = Without(p, {"db"})]
    /\ UNCHANGED <<pool, nullPool, tasks, history>>

(* An engine that raises, or is not done in two seconds, is logged and left. *)
DisposeFails(p) ==
    /\ process[p] = "disposing"
    /\ process' = [process EXCEPT ![p] = "disposed"]
    /\ why' = [why EXCEPT ![p] = @ \cup {"dispose"}]
    /\ UNCHANGED <<pool, nullPool, mem, tasks, left>>

(* The loop is closed after its generators, and the process goes. *)
CloseLoop(p) ==
    /\ process[p] = "disposed"
    /\ left' = [left EXCEPT ![p] = mem[p].conns]
    /\ Ends(p, "dropped")
    /\ Gone(p)
    /\ UNCHANGED <<pool, nullPool, at, why>>

(* A child is killed (hard time limit, out of memory), or one of the closes
   raises and the rest is skipped: the process goes all the same. *)
Kill(p) ==
    /\ p \in Children /\ process[p] # "down"
    /\ Ends(p, "cut")
    /\ Gone(p)
    /\ UNCHANGED <<pool, nullPool, at, history>>

-----------------------------------------------------------------------------
(* Tasks *)

(* Acknowledged before it runs, so never redelivered. Only threads run several
   in one process. *)
Deliver(t, p) ==
    /\ task[t] = "queued"
    /\ process[p] = "ready"
    /\ pool = "prefork" => p \in Children
    /\ pool # "threads" => Busy(p) = {}
    /\ task' = [task EXCEPT ![t] = "body"]
    /\ at' = [at EXCEPT ![t] = p]
    /\ UNCHANGED <<pool, nullPool, process, mem, history>>

(* run_async: a loop that is running raises, and the task fails. Pool threads
   may interleave from here on. *)
RunAsync(t) ==
    LET p == at[t]
    IN  /\ task[t] = "body"
        /\ mem' = [mem EXCEPT ![p].loop = WorkerLoop(p)]
        /\ task' = [task EXCEPT ![t] = IF Running(p) THEN "refused" ELSE "checked"]
        /\ UNCHANGED <<pool, nullPool, process, at, history>>

(* Mutant: a coroutine joins the others of the loop that runs. *)
RunLoopAnyway(t) ==
    /\ task[t] = "checked"
    /\ task' = [task EXCEPT ![t] = "loop"]
    /\ UNCHANGED <<pool, nullPool, process, mem, at, history>>

(* run_until_complete. asyncio refuses a loop that another thread runs by now:
   before it schedules the coroutine, or after, and then the coroutine stays. *)
RunLoop(t) ==
    /\ task[t] = "checked"
    /\ \E next \in IF Running(at[t]) THEN {"refused", "stray"} ELSE {"loop"} :
          task' = [task EXCEPT ![t] = next]
    /\ UNCHANGED <<pool, nullPool, process, mem, at, history>>

(* The coroutine uses a client: a connection of its pool, or a new one. *)
UseClient(t, kind) ==
    LET p == at[t]
    IN  /\ task[t] = "loop" \/ (task[t] = "stray" /\ Running(p))
        /\ kind = "redis" => mem[p].redis
        /\ \A c \in mem[p].conns : c.kind # kind
        /\ mem' = [mem EXCEPT ![p].conns = @ \cup {[kind |-> kind, by |-> p, on |-> mem[p].loop]}]
        /\ UNCHANGED <<pool, nullPool, process, tasks, history>>

(* What a coroutine leaves behind: NullPool keeps no connection. *)
Released(p) ==
    mem' = [mem EXCEPT ![p].conns = {c \in @ : nullPool => c.kind # "db"}]

(* The coroutine is over, by an answer or an error. *)
Return(t) ==
    /\ task[t] = "loop"
    /\ Released(at[t])
    /\ task' = [task EXCEPT ![t] = "body"]
    /\ UNCHANGED <<pool, nullPool, process, at, history>>

(* The loop that u's thread runs ends the coroutine that t has scheduled there,
   and stops, as run_until_complete asks it to: u's thread raises, unless its own
   coroutine is over too, and t's thread finds the loop still running, or runs it
   itself with nothing that would stop it. *)
StopsAnother(t, u) ==
    /\ t # u /\ at[t] = at[u]
    /\ task[t] = "checked" /\ task[u] \in {"loop", "hung"}
    /\ Released(at[t])
    /\ \E mine \in {"refused", "hung"} :
       \E other \in IF task[u] = "hung" THEN {"body"} ELSE {"body", "stray"} :
          task' = [task EXCEPT ![t] = mine, ![u] = other]
    /\ UNCHANGED <<pool, nullPool, process, at, history>>

(* The task is over, and so is its last run_async. *)
TaskEnds(t) ==
    /\ task[t] = "body"
    /\ task' = [task EXCEPT ![t] = "over"]
    /\ UNCHANGED <<pool, nullPool, process, mem, at, history>>

(* The soft time limit interrupts the main thread of a child in the loop itself,
   and not in a coroutine: the coroutine stays on the loop. *)
SoftLimit(t) ==
    /\ pool = "prefork"
    /\ task[t] = "loop"
    /\ task' = [task EXCEPT ![t] = "stray"]
    /\ UNCHANGED <<pool, nullPool, process, mem, at, history>>

(* It is resumed by whatever runs on the loop next. *)
StrayEnds(t) ==
    /\ task[t] = "stray"
    /\ Running(at[t])
    /\ Released(at[t])
    /\ task' = [task EXCEPT ![t] = "over"]
    /\ UNCHANGED <<pool, nullPool, process, at, history>>

Next ==
    \/ WorkerInit
    \/ \E p \in Pids :
          \/ Fork(p) \/ ProcessInit(p) \/ Kill(p)
          \/ Shutdown(p) \/ CloseClients(p) \/ Dispose(p) \/ DisposeFails(p) \/ CloseLoop(p)
          \/ \E t \in Tasks : Deliver(t, p)
    \/ \E t \in Tasks :
          \/ RunAsync(t) \/ RunLoop(t) \/ Return(t) \/ TaskEnds(t)
          \/ SoftLimit(t) \/ StrayEnds(t)
          \/ \E u \in Tasks : StopsAnother(t, u)
          \/ \E kind \in Kinds : UseClient(t, kind)

Spec == Init /\ [][Next]_vars

-----------------------------------------------------------------------------

TypeOK ==
    /\ pool \in Pools
    /\ nullPool \in BOOLEAN
    /\ process \in [Pids -> {"down", "forked", "ready", "closing", "disposing", "disposed"}]
    /\ mem \in [Pids -> [booted : SUBSET Pids, loop : Pids \cup {None},
                         redis : BOOLEAN, conns : SUBSET Connections]]
    /\ task \in [Tasks -> {"queued", "body", "checked", "loop", "hung", "stray",
                           "over", "refused", "dropped", "cut"}]
    /\ at \in [Tasks -> Pids \cup {None}]
    /\ left \in [Pids -> SUBSET Connections]
    /\ why \in [Pids -> SUBSET {"stray", "dispose"}]
    /\ \A t \in Tasks :
          /\ task[t] = "queued" <=> at[t] = None
          /\ task[t] \in {"body", "checked", "loop", "hung"} => process[at[t]] = "ready"
          /\ task[t] = "stray" => process[at[t]] \in {"ready", "closing", "disposing", "disposed"}

(* "All Child Processes will inherit and share the EXACT SAME TCP socket [...]
   We MUST NOT" (lines 102-107): the loop and every connection in the memory of a
   process are its own, on the loop that it still runs, whichever pool the
   engines have (lines 47-52). And the shutdown of a child (lines 134-142) leaves
   nothing open but what a coroutine that was left on its loop opens meanwhile,
   and what an engine could not dispose of. *)
EachProcessItsOwn ==
    \A p \in Pids :
        /\ mem[p].loop \in {None, p}
        /\ \A c \in mem[p].conns : c.by = p /\ c.on = mem[p].loop
        /\ \A c \in left[p] : "stray" \in why[p] \/ ("dispose" \in why[p] /\ c.kind = "db")

(* "Task 1, Task 2... Task 1000 will run sequentially on the exact same loop"
   (lines 149-161): one thread at most runs the loop of a process, whatever passed
   the check of line 158 together; only threads find it running, or are left
   running it; and a coroutine stays on it without its caller only there, and
   where the soft time limit of a prefork child interrupts. *)
OneTaskAtATime ==
    /\ \A p \in Pids : Cardinality(In(p, {"loop", "hung"})) <= 1
    /\ \A t \in Tasks :
          /\ task[t] \in {"refused", "hung"} => pool = "threads"
          /\ task[t] \in {"stray", "dropped"} => pool # "solo"
=============================================================================
