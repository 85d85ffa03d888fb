------------------------- MODULE CeleryWorkerProofs -------------------------
(***************************************************************************)
(* For any number of children and tasks, and any choice of pools: no loop  *)
(* and no connection is in the memory of a process that did not make it, a *)
(* shutdown leaves open only what its reasons explain, and no two threads  *)
(* run the loop of their process.                                          *)
(***************************************************************************)
EXTENDS CeleryWorker, FiniteSetTheorems, TLAPS

-----------------------------------------------------------------------------
(* The inductive invariant *)

BusyPhases == {"body", "checked", "loop", "hung"}
TaskPhases == BusyPhases \cup {"queued", "stray", "over", "refused", "dropped", "cut"}

(* What a process has in its memory is its own. *)
MemoryIsOwn ==
    \A p \in Pids :
        /\ mem[p].loop \in {None, p}
        /\ \A c \in mem[p].conns : c.by = p /\ c.on = mem[p].loop

(* A coroutine is on a loop that its process still has. *)
CoroutinesHaveLoops ==
    \A t \in Tasks : task[t] \in {"checked", "loop", "hung", "stray"} => mem[at[t]].loop # None

(* Why a fork shares nothing: there is nothing in the main process. *)
NothingToShare ==
    /\ process[Main] \in {"down", "ready"}
    /\ pool = "prefork" => mem[Main] = Fresh /\ \A t \in Tasks : at[t] # Main

(* What a shutdown still has open at each of its steps. *)
ClosedSoFar ==
    \A p \in Pids : Shutting(p) =>
        /\ \A t \in Tasks : at[t] = p /\ task[t] = "stray" => "stray" \in why[p]
        /\ "stray" \notin why[p] =>
             \A c \in mem[p].conns :
                /\ c.kind # "redis"
                /\ process[p] # "closing" => c.kind = "db"
                /\ process[p] = "disposed" => "dispose" \in why[p]

LeftForAReason ==
    \A p \in Pids : \A c \in left[p] :
        "stray" \in why[p] \/ ("dispose" \in why[p] /\ c.kind = "db")

OneCoroutine ==
    \A t, u \in Tasks :
        task[t] \in {"loop", "hung"} /\ task[u] \in {"loop", "hung"} /\ at[t] = at[u] => t = u

(* Every pool but threads delivers to an idle process. *)
OneBusy ==
    pool # "threads" =>
        \A t, u \in Tasks :
            task[t] \in BusyPhases /\ task[u] \in BusyPhases /\ at[t] = at[u] => t = u

OnlyThreads == \A t \in Tasks : task[t] \in {"refused", "hung"} => pool = "threads"

NotInSolo == \A t \in Tasks : task[t] \in {"stray", "dropped"} => pool # "solo"

Inv ==
    /\ TypeOK
    /\ MemoryIsOwn /\ CoroutinesHaveLoops /\ NothingToShare
    /\ ClosedSoFar /\ LeftForAReason
    /\ OneCoroutine /\ OneBusy /\ OnlyThreads /\ NotInSolo

(* The initial states satisfy the invariant. *)
LEMMA InitInv == Init => Inv
  BY PidsAssumption, PoolsAssumption
  DEF Init, Inv, TypeOK, MemoryIsOwn, CoroutinesHaveLoops, NothingToShare, ClosedSoFar,
      LeftForAReason, OneCoroutine, OneBusy, OnlyThreads, NotInSolo, BusyPhases, Shutting,
      Pids, Fresh, Connections

-----------------------------------------------------------------------------
(* What the actions do to the memory *)

Memories == [booted : SUBSET Pids, loop : Pids \cup {None}, redis : BOOLEAN, conns : SUBSET Connections]

(* Only the memory of p changes. *)
OnlyOf(p) == mem' \in [Pids -> Memories] /\ \A q \in Pids \ {p} : mem'[q] = mem[q]

(* Only connections of p are gone, and with them perhaps its Redis client. *)
Shrinks(p) ==
    /\ OnlyOf(p)
    /\ mem'[p].loop = mem[p].loop /\ mem'[p].booted = mem[p].booted
    /\ mem'[p].conns \subseteq mem[p].conns

(* Preparing a process, if it is not prepared, gives it a loop of its own or
   raises, and it is marked as prepared with its Redis pool or not at all. *)
LEMMA BootstrapMemory ==
    ASSUME TypeOK, MemoryIsOwn, NEW p \in Pids, Bootstrap(p)
    PROVE  /\ OnlyOf(p)
           /\ mem'[p].conns = mem[p].conns
           /\ mem[p].loop # None => mem'[p].loop = mem[p].loop
           /\ mem'[p].loop \in {None, p}
           /\ \/ mem'[p].booted = mem[p].booted /\ mem'[p].redis = mem[p].redis
              \/ /\ mem'[p].booted = mem[p].booted \cup {p} /\ mem'[p].redis
                 /\ mem'[p].loop = p
  <1>1. mem \in [Pids -> Memories]
    BY DEF TypeOK, Memories
  <1>2. WorkerLoop(p) = p /\ mem[p].loop \in {None, p}
    BY <1>1 DEF WorkerLoop, MemoryIsOwn
  <1> DEFINE Looped == [mem EXCEPT ![p].loop = p]
             Booted == [Looped EXCEPT ![p].booted = @ \cup {p}, ![p].redis = TRUE]
  <1>3. mem' \in {mem, Looped, Booted}
    BY <1>2 DEF Bootstrap
  <1>4. /\ Looped \in [Pids -> Memories] /\ \A q \in Pids \ {p} : Looped[q] = mem[q]
        /\ Looped[p].loop = p /\ Looped[p].conns = mem[p].conns
        /\ Looped[p].booted = mem[p].booted /\ Looped[p].redis = mem[p].redis
    BY <1>1 DEF Memories
  <1> HIDE DEF Looped
  <1>5. /\ Booted \in [Pids -> Memories] /\ \A q \in Pids \ {p} : Booted[q] = mem[q]
        /\ Booted[p].loop = p /\ Booted[p].conns = mem[p].conns
        /\ Booted[p].booted = mem[p].booted \cup {p} /\ Booted[p].redis
    <2> DEFINE R == [Looped[p] EXCEPT !.booted = @ \cup {p}, !.redis = TRUE]
    <2>1. Booted = [Looped EXCEPT ![p] = R]
      BY <1>4
    <2>2. Looped[p] \in Memories
      BY <1>4
    <2>3. /\ R \in Memories /\ R.loop = p /\ R.conns = mem[p].conns
          /\ R.booted = mem[p].booted \cup {p} /\ R.redis
      BY <1>4, <2>2 DEF Memories
    <2> HIDE DEF R, Booted
    <2> QED BY <1>4, <2>1, <2>3
  <1> HIDE DEF Booted
  <1> QED BY <1>1, <1>2, <1>3, <1>4, <1>5 DEF OnlyOf

(* The end of a coroutine. *)
LEMMA ReleasedShrinks ==
    ASSUME TypeOK, NEW p \in Pids, Released(p)
    PROVE  Shrinks(p) /\ mem'[p].redis = mem[p].redis
  BY DEF TypeOK, Released, Shrinks, OnlyOf, Memories

(* The steps of a shutdown. *)
LEMMA ShutdownShrinks ==
    ASSUME TypeOK, NEW p \in Pids,
           \/ Shutdown(p) /\ mem[p].loop # None
           \/ CloseClients(p) \/ Dispose(p) \/ DisposeFails(p)
    PROVE  Shrinks(p)
  <1>1. mem \in [Pids -> Memories] /\ \A K : Without(p, K) \subseteq mem[p].conns
    BY DEF TypeOK, Memories, Without
  <1>2. CASE Shutdown(p) /\ mem[p].loop # None
    BY <1>1, <1>2 DEF Shutdown, Shrinks, OnlyOf, Memories
  <1>3. CASE CloseClients(p)
    <2> DEFINE R == [mem[p] EXCEPT !.redis = FALSE, !.conns = Without(p, {"mongo"})]
    <2>1. mem' = [mem EXCEPT ![p] = R]
      BY <1>1, <1>3 DEF CloseClients
    <2>2. mem[p] \in Memories
      BY <1>1
    <2>3. /\ R \in Memories /\ R.loop = mem[p].loop /\ R.booted = mem[p].booted
          /\ R.conns \subseteq mem[p].conns
      BY <1>1, <2>2 DEF Memories
    <2> HIDE DEF R
    <2> QED BY <1>1, <2>1, <2>3 DEF Shrinks, OnlyOf
  <1>4. CASE Dispose(p)
    BY <1>1, <1>4 DEF Dispose, Shrinks, OnlyOf, Memories
  <1>5. CASE DisposeFails(p)
    BY <1>1, <1>5 DEF DisposeFails, Shrinks, OnlyOf
  <1> QED BY <1>2, <1>3, <1>4, <1>5

(* A process that goes. *)
LEMMA GoneMemory ==
    ASSUME TypeOK, NEW p \in Pids, Gone(p)
    PROVE  OnlyOf(p) /\ mem'[p] = Fresh
  BY DEF TypeOK, Gone, OnlyOf, Memories, Fresh

(* run_async gives the process a loop, if it has none. *)
LEMMA RunAsyncMemory ==
    ASSUME TypeOK, MemoryIsOwn, NEW t \in Tasks, RunAsync(t)
    PROVE  /\ at[t] \in Pids /\ OnlyOf(at[t])
           /\ mem'[at[t]].loop = at[t]
           /\ mem'[at[t]].conns = mem[at[t]].conns /\ mem'[at[t]].booted = mem[at[t]].booted
           /\ mem'[at[t]].redis = mem[at[t]].redis
  <1>1. mem \in [Pids -> Memories] /\ at[t] \in Pids
    BY DEF TypeOK, Memories, RunAsync
  <1>2. mem' = [mem EXCEPT ![at[t]].loop = at[t]]
    BY <1>1 DEF RunAsync, WorkerLoop, MemoryIsOwn
  <1> QED BY <1>1, <1>2 DEF OnlyOf, Memories

(* A coroutine opens a connection of its own process on its loop. *)
LEMMA UseClientMemory ==
    ASSUME TypeOK, CoroutinesHaveLoops, NEW t \in Tasks, NEW kind \in Kinds, UseClient(t, kind)
    PROVE  LET p == at[t]
           IN  /\ p \in Pids /\ OnlyOf(p)
               /\ mem'[p].loop = mem[p].loop /\ mem'[p].booted = mem[p].booted
               /\ mem'[p].redis = mem[p].redis
               /\ mem'[p].conns = mem[p].conns \cup {[kind |-> kind, by |-> p, on |-> mem[p].loop]}
  <1> DEFINE p == at[t]
             c == [kind |-> kind, by |-> p, on |-> mem[p].loop]
  <1>1. mem \in [Pids -> Memories] /\ p \in Pids
    BY DEF TypeOK, Memories, UseClient
  <1>2. mem[p].loop \in Pids
    BY <1>1 DEF CoroutinesHaveLoops, UseClient, Memories
  <1>3. c \in Connections
    BY <1>1, <1>2 DEF Connections
  <1>4. mem' = [mem EXCEPT ![p].conns = @ \cup {c}]
    BY DEF UseClient
  <1> DEFINE R == [mem[p] EXCEPT !.conns = @ \cup {c}]
  <1>5. mem' = [mem EXCEPT ![p] = R]
    BY <1>4
  <1> HIDE DEF c
  <1>6. /\ R \in Memories /\ R.loop = mem[p].loop /\ R.booted = mem[p].booted
        /\ R.redis = mem[p].redis /\ R.conns = mem[p].conns \cup {c}
    BY <1>1, <1>3 DEF Memories
  <1> HIDE DEF R
  <1>7. OnlyOf(p) /\ mem'[p] = R
    BY <1>1, <1>5, <1>6 DEF OnlyOf
  <1> QED BY <1>1, <1>6, <1>7 DEF c

-----------------------------------------------------------------------------
(* Every action keeps the types. *)
LEMMA TypeStep == Inv /\ [Next]_vars => TypeOK'
  <1> SUFFICES ASSUME Inv, [Next]_vars PROVE TypeOK'
    OBVIOUS
  <1> USE PidsAssumption DEF Inv
  <1>1. CASE WorkerInit
    <2>1. Main \in Pids
      BY DEF Pids
    <2>2. mem' \in [Pids -> Memories]
      BY <1>1, <2>1, BootstrapMemory DEF WorkerInit, TypeOK, Memories, OnlyOf
    <2> QED BY <1>1, <2>1, <2>2 DEF WorkerInit, TypeOK, Memories, tasks, history
  <1>2. ASSUME NEW p \in Pids, Fork(p) PROVE TypeOK'
    BY <1>2 DEF Fork, TypeOK, Pids, tasks, history
  <1>3. ASSUME NEW p \in Pids, ProcessInit(p) PROVE TypeOK'
    <2>1. mem' \in [Pids -> Memories]
      BY <1>3, BootstrapMemory DEF ProcessInit, OnlyOf
    <2> QED BY <1>3, <2>1 DEF ProcessInit, TypeOK, Memories, tasks, history
  <1>4. ASSUME NEW p \in Pids,
               Shutdown(p) \/ CloseClients(p) \/ Dispose(p) \/ DisposeFails(p)
        PROVE  TypeOK'
    <2>1. CASE Shutdown(p) /\ mem[p].loop = None
      <3>1. mem' \in [Pids -> Memories]
        BY <2>1, GoneMemory DEF Shutdown, OnlyOf
      <3>2. \A t \in Tasks : at[t] = p => task[t] \notin {"body", "checked", "loop", "hung", "stray"}
        BY <2>1 DEF Shutdown, Busy, In, CoroutinesHaveLoops
      <3> QED BY <2>1, <3>1, <3>2 DEF Shutdown, Gone, TypeOK, Memories, tasks
    <2>2. CASE Shutdown(p) /\ mem[p].loop # None
      <3>1. mem' \in [Pids -> Memories]
        BY <2>2, ShutdownShrinks DEF Shrinks, OnlyOf
      <3>2. \A t \in Tasks : at[t] = p => task[t] \notin {"body", "checked", "loop", "hung"}
        BY <2>2 DEF Shutdown, Busy, In
      <3> QED BY <2>2, <3>1, <3>2 DEF Shutdown, TypeOK, Memories, tasks
    <2>3. CASE CloseClients(p) \/ Dispose(p) \/ DisposeFails(p)
      <3>1. mem' \in [Pids -> Memories]
        BY <2>3, ShutdownShrinks DEF Shrinks, OnlyOf
      <3>2. process[p] \in {"closing", "disposing"} /\ UNCHANGED <<pool, nullPool, task, at, left>>
        BY <2>3 DEF CloseClients, Dispose, DisposeFails, tasks, history
      <3>3. /\ \E next \in {"disposing", "disposed"} : process' = [process EXCEPT ![p] = next]
            /\ why' \in [Pids -> SUBSET {"stray", "dispose"}]
        BY <2>3 DEF CloseClients, Dispose, DisposeFails, TypeOK, history
      <3>4. /\ process' \in [Pids -> {"down", "forked", "ready", "closing", "disposing", "disposed"}]
            /\ \A q \in Pids : process'[q] = process[q] \/ (q = p /\ process'[q] \in {"disposing", "disposed"})
        BY <3>3 DEF TypeOK
      <3>5. \A t \in Tasks :
              /\ task[t] = "queued" <=> at[t] = None
              /\ task[t] \in {"body", "checked", "loop", "hung"} => process'[at[t]] = "ready"
              /\ task[t] = "stray" => process'[at[t]] \in {"ready", "closing", "disposing", "disposed"}
        BY <3>2, <3>4 DEF TypeOK
      <3> QED BY <3>1, <3>2, <3>3, <3>4, <3>5 DEF TypeOK, Memories
    <2> QED BY <1>4, <2>1, <2>2, <2>3
  <1>5. ASSUME NEW p \in Pids, Kill(p) \/ CloseLoop(p) PROVE TypeOK'
    <2>1. mem' \in [Pids -> Memories]
      BY <1>5, GoneMemory DEF Kill, CloseLoop, OnlyOf
    <2>2. left' \in [Pids -> SUBSET Connections] /\ why' = why
      BY <1>5 DEF Kill, CloseLoop, TypeOK, history
    <2> QED BY <1>5, <2>1, <2>2 DEF Kill, CloseLoop, Ends, Gone, In, TypeOK, Memories
  <1>6. ASSUME NEW p \in Pids, NEW t \in Tasks, Deliver(t, p) PROVE TypeOK'
    BY <1>6 DEF Deliver, TypeOK, history
  <1>7. ASSUME NEW t \in Tasks, RunAsync(t) PROVE TypeOK'
    <2>1. mem' \in [Pids -> Memories]
      BY <1>7, RunAsyncMemory DEF OnlyOf
    <2> QED BY <1>7, <2>1 DEF RunAsync, TypeOK, Memories, history
  <1>8. ASSUME NEW t \in Tasks, RunLoop(t) \/ TaskEnds(t) \/ SoftLimit(t) PROVE TypeOK'
    BY <1>8 DEF RunLoop, TaskEnds, SoftLimit, TypeOK, history
  <1>9. ASSUME NEW t \in Tasks, Return(t) \/ StrayEnds(t) PROVE TypeOK'
    <2>1. at[t] \in Pids /\ Released(at[t])
      BY <1>9 DEF Return, StrayEnds, TypeOK
    <2>2. mem' \in [Pids -> Memories]
      BY <2>1, ReleasedShrinks DEF Shrinks, OnlyOf
    <2> QED BY <1>9, <2>2 DEF Return, StrayEnds, TypeOK, Memories, history
  <1>10. ASSUME NEW t \in Tasks, NEW u \in Tasks, StopsAnother(t, u) PROVE TypeOK'
    <2>1. at[t] \in Pids /\ at[u] = at[t] /\ process[at[t]] = "ready"
      BY <1>10 DEF StopsAnother, TypeOK
    <2>2. mem' \in [Pids -> Memories]
      BY <1>10, <2>1, ReleasedShrinks DEF StopsAnother, Shrinks, OnlyOf
    <2> QED BY <1>10, <2>1, <2>2 DEF StopsAnother, TypeOK, Memories, history
  <1>11. ASSUME NEW t \in Tasks, NEW kind \in Kinds, UseClient(t, kind) PROVE TypeOK'
    <2>1. mem' \in [Pids -> Memories]
      BY <1>11, UseClientMemory DEF OnlyOf
    <2> QED BY <1>11, <2>1 DEF UseClient, TypeOK, Memories, tasks, history
  <1>12. CASE UNCHANGED vars
    BY <1>12 DEF vars, tasks, history, TypeOK
  <1> QED BY <1>1, <1>2, <1>3, <1>4, <1>5, <1>6, <1>7, <1>8, <1>9, <1>10, <1>11, <1>12 DEF Next

(* No action gives a process a loop or a connection that is not its own: a fork
   copies the memory of the main process, in which there is nothing. *)
LEMMA MemoryStep == Inv /\ [Next]_vars => MemoryIsOwn'
  <1> SUFFICES ASSUME Inv, [Next]_vars PROVE MemoryIsOwn'
    OBVIOUS
  <1> USE PidsAssumption DEF Inv
  <1>0. mem \in [Pids -> Memories]
    BY DEF TypeOK, Memories
  <1>1. ASSUME NEW p \in Pids, Bootstrap(p) PROVE MemoryIsOwn'
    <2>1. /\ OnlyOf(p) /\ mem'[p].conns = mem[p].conns /\ mem'[p].loop \in {None, p}
          /\ mem[p].loop # None => mem'[p].loop = mem[p].loop
      BY <1>1, BootstrapMemory
    <2>2. mem[p].loop = None => mem[p].conns = {}
      BY <1>0 DEF MemoryIsOwn, Memories, Connections
    <2> QED BY <2>1, <2>2 DEF MemoryIsOwn, OnlyOf
  <1>2. ASSUME NEW p \in Pids, Shrinks(p) PROVE MemoryIsOwn'
    BY <1>2 DEF MemoryIsOwn, Shrinks, OnlyOf
  <1>3. ASSUME NEW p \in Pids, OnlyOf(p), mem'[p] = Fresh PROVE MemoryIsOwn'
    BY <1>3 DEF MemoryIsOwn, OnlyOf, Fresh
  <1>4. CASE WorkerInit
    BY <1>1, <1>4 DEF WorkerInit, MemoryIsOwn, Pids
  <1>5. ASSUME NEW p \in Pids, Fork(p) PROVE MemoryIsOwn'
    <2>1. OnlyOf(p) /\ mem'[p] = Fresh
      <3>1. mem' = [mem EXCEPT ![p] = Fresh] /\ Fresh \in Memories
        BY <1>5 DEF Fork, NothingToShare, Fresh, Memories
      <3> QED BY <1>0, <3>1 DEF OnlyOf
    <2> QED BY <1>3, <2>1
  <1>6. ASSUME NEW p \in Pids, ProcessInit(p) PROVE MemoryIsOwn'
    BY <1>1, <1>6 DEF ProcessInit
  <1>7. ASSUME NEW p \in Pids,
               Shutdown(p) \/ CloseClients(p) \/ Dispose(p) \/ DisposeFails(p)
        PROVE  MemoryIsOwn'
    <2>1. CASE Shutdown(p) /\ mem[p].loop = None
      BY <1>3, <2>1, GoneMemory DEF Shutdown
    <2>2. CASE ~(Shutdown(p) /\ mem[p].loop = None)
      BY <1>2, <1>7, <2>2, ShutdownShrinks
    <2> QED BY <2>1, <2>2
  <1>8. ASSUME NEW p \in Pids, Kill(p) \/ CloseLoop(p) PROVE MemoryIsOwn'
    BY <1>3, <1>8, GoneMemory DEF Kill, CloseLoop
  <1>9. ASSUME NEW t \in Tasks, RunAsync(t) PROVE MemoryIsOwn'
    <2>1. mem[at[t]].loop \in {None, at[t]} /\ at[t] \in Pids
      BY <1>9, RunAsyncMemory DEF MemoryIsOwn
    <2>2. \A c \in mem[at[t]].conns : c.by = at[t] /\ c.on = at[t]
      BY <1>0, <2>1 DEF MemoryIsOwn, Memories, Connections
    <2> QED BY <1>9, <2>1, <2>2, RunAsyncMemory DEF MemoryIsOwn, OnlyOf
  <1>10. ASSUME NEW t \in Tasks, Released(at[t]), task[t] # "queued" PROVE MemoryIsOwn'
    BY <1>2, <1>10, ReleasedShrinks DEF TypeOK
  <1>11. ASSUME NEW t \in Tasks, NEW kind \in Kinds, UseClient(t, kind) PROVE MemoryIsOwn'
    <2> DEFINE p == at[t]
               c == [kind |-> kind, by |-> p, on |-> mem[p].loop]
    <2>1. /\ p \in Pids /\ OnlyOf(p)
          /\ mem'[p].loop = mem[p].loop /\ mem'[p].conns = mem[p].conns \cup {c}
      BY <1>11, UseClientMemory
    <2>2. c.by = p /\ c.on = mem[p].loop
      OBVIOUS
    <2> HIDE DEF c
    <2> QED BY <2>1, <2>2 DEF MemoryIsOwn, OnlyOf
  <1>12. CASE UNCHANGED mem
    BY <1>12 DEF MemoryIsOwn
  <1>13. ASSUME NEW t \in Tasks, Return(t) \/ StrayEnds(t) \/ \E u \in Tasks : StopsAnother(t, u)
         PROVE  MemoryIsOwn'
    BY <1>10, <1>13 DEF Return, StrayEnds, StopsAnother
  <1> QED
    BY <1>4, <1>5, <1>6, <1>7, <1>8, <1>9, <1>11, <1>12, <1>13
    DEF Next, Deliver, RunLoop, TaskEnds, SoftLimit, vars

(* A coroutine keeps a loop under it until its process is gone. *)
LEMMA LoopStep == Inv /\ [Next]_vars => CoroutinesHaveLoops'
  <1> SUFFICES ASSUME Inv, [Next]_vars PROVE CoroutinesHaveLoops'
    OBVIOUS
  <1> USE PidsAssumption DEF Inv
  <1> DEFINE Held == {"checked", "loop", "hung", "stray"}
             Same == \A t \in Tasks : task'[t] \in Held => task[t] \in Held /\ at'[t] = at[t]
             Kept == \A q \in Pids : mem[q].loop # None => mem'[q].loop # None
  <1>0. /\ mem \in [Pids -> Memories]
        /\ task \in [Tasks -> TaskPhases]
        /\ at \in [Tasks -> Pids \cup {None}]
        /\ \A t \in Tasks : task[t] \in Held => at[t] \in Pids /\ process[at[t]] \notin {"down", "forked"}
    BY DEF TypeOK, Memories, TaskPhases, BusyPhases
  <1>1. ASSUME Same, Kept PROVE CoroutinesHaveLoops'
    BY <1>0, <1>1 DEF CoroutinesHaveLoops
  <1>2. ASSUME NEW p \in Pids, OnlyOf(p), mem'[p].loop = mem[p].loop \/ mem'[p].loop # None PROVE Kept
    BY <1>2 DEF OnlyOf
  <1>3. ASSUME UNCHANGED tasks PROVE Same
    BY <1>3 DEF tasks
  <1>4. CASE WorkerInit
    <2>1. Main \in Pids /\ (Bootstrap(Main) \/ UNCHANGED mem) /\ UNCHANGED tasks
      BY <1>4 DEF WorkerInit, Pids
    <2>2. Kept
      BY <2>1, BootstrapMemory DEF OnlyOf
    <2> QED BY <1>1, <1>3, <2>1, <2>2
  <1>5. ASSUME NEW p \in Pids, Fork(p) PROVE CoroutinesHaveLoops'
    <2>1. \A t \in Tasks : task[t] \in Held => at[t] # p
      BY <1>0, <1>5 DEF Fork
    <2> QED BY <1>0, <1>5, <2>1 DEF Fork, CoroutinesHaveLoops, tasks
  <1>6. ASSUME NEW p \in Pids, ProcessInit(p) PROVE CoroutinesHaveLoops'
    <2>1. Kept
      BY <1>6, BootstrapMemory DEF ProcessInit, OnlyOf
    <2> QED BY <1>1, <1>3, <1>6, <2>1 DEF ProcessInit
  <1>7. ASSUME NEW p \in Pids,
               Shutdown(p) \/ CloseClients(p) \/ Dispose(p) \/ DisposeFails(p)
        PROVE  CoroutinesHaveLoops'
    <2>1. Same
      BY <1>3, <1>7 DEF Shutdown, CloseClients, Dispose, DisposeFails
    <2>2. CASE Shutdown(p) /\ mem[p].loop = None
      <3>1. OnlyOf(p)
        BY <2>2, GoneMemory DEF Shutdown
      <3> QED BY <1>1, <2>1, <2>2, <3>1 DEF OnlyOf
    <2>3. CASE ~(Shutdown(p) /\ mem[p].loop = None)
      <3>1. OnlyOf(p) /\ mem'[p].loop = mem[p].loop
        BY <1>7, <2>3, ShutdownShrinks DEF Shrinks
      <3> QED BY <1>1, <1>2, <2>1, <3>1
    <2> QED BY <2>2, <2>3
  <1>8. ASSUME NEW p \in Pids, Kill(p) \/ CloseLoop(p) PROVE CoroutinesHaveLoops'
    <2>1. OnlyOf(p)
      BY <1>8, GoneMemory DEF Kill, CloseLoop
    <2>2. \A t \in Tasks : task'[t] \in Held => task[t] \in Held /\ at'[t] = at[t] /\ at[t] # p
      BY <1>0, <1>8 DEF Kill, CloseLoop, Ends, In
    <2> QED BY <1>0, <2>1, <2>2 DEF CoroutinesHaveLoops, OnlyOf
  <1>9. ASSUME NEW p \in Pids, NEW t \in Tasks, Deliver(t, p) PROVE CoroutinesHaveLoops'
    <2>1. Same /\ Kept
      BY <1>0, <1>9 DEF Deliver
    <2> QED BY <1>1, <2>1
  <1>10. ASSUME NEW t \in Tasks, RunAsync(t) PROVE CoroutinesHaveLoops'
    <2>1. /\ at[t] \in Pids /\ OnlyOf(at[t]) /\ mem'[at[t]].loop = at[t]
          /\ UNCHANGED at
          /\ \A u \in Tasks : u # t => task'[u] = task[u]
      BY <1>0, <1>10, RunAsyncMemory DEF RunAsync
    <2> QED BY <1>0, <2>1 DEF CoroutinesHaveLoops, OnlyOf
  <1>11. ASSUME NEW t \in Tasks, RunLoop(t) \/ TaskEnds(t) \/ SoftLimit(t) PROVE CoroutinesHaveLoops'
    <2>1. Same /\ Kept
      BY <1>0, <1>11 DEF RunLoop, TaskEnds, SoftLimit
    <2> QED BY <1>1, <2>1
  <1>12. ASSUME NEW t \in Tasks, Return(t) \/ StrayEnds(t) \/ \E u \in Tasks : StopsAnother(t, u)
         PROVE  CoroutinesHaveLoops'
    <2>1. at[t] \in Pids /\ Released(at[t])
      BY <1>0, <1>12 DEF Return, StrayEnds, StopsAnother
    <2>2. Kept
      BY <1>2, <2>1, ReleasedShrinks DEF Shrinks
    <2>3. Same
      BY <1>0, <1>12 DEF Return, StrayEnds, StopsAnother
    <2> QED BY <1>1, <2>2, <2>3
  <1>13. ASSUME NEW t \in Tasks, NEW kind \in Kinds, UseClient(t, kind) PROVE CoroutinesHaveLoops'
    <2>1. Kept
      BY <1>2, <1>13, UseClientMemory
    <2> QED BY <1>1, <1>3, <1>13, <2>1 DEF UseClient
  <1>14. CASE UNCHANGED vars
    BY <1>14 DEF vars, tasks, CoroutinesHaveLoops
  <1> QED
    BY <1>4, <1>5, <1>6, <1>7, <1>8, <1>9, <1>10, <1>11, <1>12, <1>13, <1>14 DEF Next

(* The main process of a prefork pool stays empty: it is not prepared, takes no
   tasks, and is none of the children. *)
LEMMA ShareStep == Inv /\ [Next]_vars => NothingToShare'
  <1> SUFFICES ASSUME Inv, [Next]_vars PROVE NothingToShare'
    OBVIOUS
  <1> USE PidsAssumption DEF Inv
  <1>0. /\ mem \in [Pids -> Memories] /\ Main \in Pids
        /\ process \in [Pids -> {"down", "forked", "ready", "closing", "disposing", "disposed"}]
        /\ at \in [Tasks -> Pids \cup {None}]
    BY DEF TypeOK, Memories, Pids
  <1>1. CASE WorkerInit
    BY <1>0, <1>1 DEF WorkerInit, NothingToShare, tasks
  <1>2. ASSUME NEW p \in Pids, Fork(p) PROVE NothingToShare'
    BY <1>0, <1>2 DEF Fork, NothingToShare, tasks
  <1>3. ASSUME NEW p \in Pids, ProcessInit(p) PROVE NothingToShare'
    <2>1. pool = "prefork" => p # Main
      BY <1>3 DEF ProcessInit, NothingToShare
    <2>2. OnlyOf(p)
      BY <1>3, BootstrapMemory DEF ProcessInit
    <2> QED BY <1>0, <1>3, <2>1, <2>2 DEF ProcessInit, NothingToShare, OnlyOf, tasks
  (* A step of the memory of another process. *)
  <1>4. ASSUME NEW p \in Pids \ {Main}, OnlyOf(p), UNCHANGED <<pool, at>>, process'[Main] = process[Main]
        PROVE  NothingToShare'
    BY <1>0, <1>4 DEF NothingToShare, OnlyOf
  <1>5. ASSUME NEW p \in Pids,
               Shutdown(p) \/ CloseClients(p) \/ Dispose(p) \/ DisposeFails(p) \/ Kill(p) \/ CloseLoop(p)
        PROVE  NothingToShare'
    <2>1. p # Main
      BY <1>5 DEF Shutdown, CloseClients, Dispose, DisposeFails, Kill, CloseLoop, NothingToShare
    <2>2. OnlyOf(p)
      <3>1. CASE Kill(p) \/ CloseLoop(p) \/ (Shutdown(p) /\ mem[p].loop = None)
        BY <3>1, GoneMemory DEF Kill, CloseLoop, Shutdown
      <3>2. CASE ~(Kill(p) \/ CloseLoop(p) \/ (Shutdown(p) /\ mem[p].loop = None))
        BY <1>5, <3>2, ShutdownShrinks DEF Shrinks
      <3> QED BY <3>1, <3>2
    <2>3. UNCHANGED <<pool, at>> /\ process'[Main] = process[Main]
      BY <1>0, <1>5, <2>1
      DEF Shutdown, CloseClients, Dispose, DisposeFails, Kill, CloseLoop, Gone, tasks
    <2> QED BY <1>4, <2>1, <2>2, <2>3
  <1>6. ASSUME NEW p \in Pids, NEW t \in Tasks, Deliver(t, p) PROVE NothingToShare'
    BY <1>0, <1>6 DEF Deliver, NothingToShare
  (* A step of a task. *)
  <1>7. ASSUME NEW t \in Tasks, at[t] \in Pids, OnlyOf(at[t]), UNCHANGED <<pool, process, at>>
        PROVE  NothingToShare'
    BY <1>0, <1>7 DEF NothingToShare, OnlyOf
  <1>8. ASSUME NEW t \in Tasks, RunAsync(t) PROVE NothingToShare'
    BY <1>7, <1>8, RunAsyncMemory DEF RunAsync
  <1>9. ASSUME NEW t \in Tasks, Return(t) \/ StrayEnds(t) \/ \E u \in Tasks : StopsAnother(t, u)
        PROVE  NothingToShare'
    <2>1. at[t] \in Pids /\ Released(at[t]) /\ UNCHANGED <<pool, process, at>>
      BY <1>0, <1>9 DEF Return, StrayEnds, StopsAnother, TypeOK
    <2> QED BY <1>7, <2>1, ReleasedShrinks DEF Shrinks
  <1>10. ASSUME NEW t \in Tasks, NEW kind \in Kinds, UseClient(t, kind) PROVE NothingToShare'
    BY <1>7, <1>10, UseClientMemory DEF UseClient, tasks
  <1>11. ASSUME NEW t \in Tasks, RunLoop(t) \/ TaskEnds(t) \/ SoftLimit(t) PROVE NothingToShare'
    BY <1>11 DEF RunLoop, TaskEnds, SoftLimit, NothingToShare
  <1>12. CASE UNCHANGED vars
    BY <1>12 DEF vars, tasks, NothingToShare
  <1> QED BY <1>1, <1>2, <1>3, <1>5, <1>6, <1>8, <1>9, <1>10, <1>11, <1>12 DEF Next

(* What a shutdown has closed stays closed unless a coroutine was left on the
   loop, and what it leaves open is explained by that or by its engines. *)
LEMMA ShutdownStep == Inv /\ [Next]_vars => ClosedSoFar' /\ LeftForAReason'
  <1> SUFFICES ASSUME Inv, [Next]_vars PROVE ClosedSoFar' /\ LeftForAReason'
    OBVIOUS
  <1> USE PidsAssumption DEF Inv
  <1> DEFINE Goal == ClosedSoFar' /\ LeftForAReason'
  <1>0. /\ mem \in [Pids -> Memories]
        /\ process \in [Pids -> {"down", "forked", "ready", "closing", "disposing", "disposed"}]
        /\ task \in [Tasks -> TaskPhases]
        /\ at \in [Tasks -> Pids \cup {None}]
        /\ left \in [Pids -> SUBSET Connections]
        /\ why \in [Pids -> SUBSET {"stray", "dispose"}]
        /\ \A t \in Tasks : task[t] \in BusyPhases => process[at[t]] = "ready"
    BY DEF TypeOK, Memories, TaskPhases, BusyPhases
  (* A step of the memory, or of the tasks, of a process that is not shut down. *)
  <1>1. ASSUME NEW p \in Pids, ~Shutting(p)', OnlyOf(p), UNCHANGED history,
               \A q \in Pids \ {p} : process'[q] = process[q],
               \A t \in Tasks : task'[t] = "stray" =>
                  at'[t] = at[t] /\ (task[t] = "stray" \/ at[t] = p)
        PROVE  Goal
    <2>1. ClosedSoFar'
      BY <1>0, <1>1 DEF ClosedSoFar, Shutting, OnlyOf, history
    <2> QED BY <1>1, <2>1 DEF LeftForAReason, history
  (* A step of a task that shrinks the memory of its process. *)
  <1>2. ASSUME NEW p \in Pids, Shrinks(p), UNCHANGED <<process, history>>,
               \A t \in Tasks : task'[t] = "stray" =>
                  at'[t] = at[t] /\ (task[t] = "stray" \/ process[at[t]] = "ready")
        PROVE  Goal
    <2>1. \A q \in Pids : mem'[q].conns \subseteq mem[q].conns
      BY <1>2 DEF Shrinks, OnlyOf
    <2>2. ClosedSoFar'
      BY <1>0, <1>2, <2>1 DEF ClosedSoFar, Shutting, history
    <2> QED BY <1>2, <2>2 DEF LeftForAReason, history
  <1>3. CASE WorkerInit
    <2>1. Main \in Pids /\ OnlyOf(Main) /\ process'[Main] = "ready"
      BY <1>0, <1>3, BootstrapMemory DEF WorkerInit, Pids, OnlyOf
    <2> QED BY <1>0, <1>1, <1>3, <2>1 DEF WorkerInit, Shutting, tasks
  <1>4. ASSUME NEW p \in Pids, Fork(p) PROVE Goal
    <2>1. mem' = [mem EXCEPT ![p] = Fresh] /\ Fresh \in Memories
      BY <1>4 DEF Fork, NothingToShare, Fresh, Memories
    <2>2. OnlyOf(p)
      BY <1>0, <2>1 DEF OnlyOf
    <2> QED BY <1>0, <1>1, <1>4, <2>2 DEF Fork, Shutting, tasks
  <1>5. ASSUME NEW p \in Pids, ProcessInit(p) PROVE Goal
    <2>1. OnlyOf(p)
      BY <1>5, BootstrapMemory DEF ProcessInit
    <2> QED BY <1>0, <1>1, <1>5, <2>1 DEF ProcessInit, Shutting, tasks
  <1>6. ASSUME NEW p \in Pids, Kill(p) PROVE Goal
    <2>1. OnlyOf(p)
      BY <1>6, GoneMemory DEF Kill
    <2>2. \A t \in Tasks : task'[t] = "stray" => task[t] = "stray" /\ at'[t] = at[t]
      BY <1>0, <1>6 DEF Kill, Ends
    <2>3. process' = [process EXCEPT ![p] = "down"]
      BY <1>6 DEF Kill, Gone
    <2> QED BY <1>0, <1>1, <1>6, <2>1, <2>2, <2>3 DEF Kill, Shutting
  (* The steps of the shutdown itself. *)
  <1>7. ASSUME NEW p \in Pids, OnlyOf(p), UNCHANGED tasks,
               \A q \in Pids \ {p} :
                  process'[q] = process[q] /\ why'[q] = why[q] /\ left'[q] = left[q],
               Shutting(p)' =>
                  /\ \A t \in Tasks : at[t] = p /\ task[t] = "stray" => "stray" \in why'[p]
                  /\ "stray" \notin why'[p] =>
                       \A c \in mem'[p].conns :
                          /\ c.kind # "redis"
                          /\ process'[p] # "closing" => c.kind = "db"
                          /\ process'[p] = "disposed" => "dispose" \in why'[p],
               \A c \in left'[p] : "stray" \in why'[p] \/ ("dispose" \in why'[p] /\ c.kind = "db")
        PROVE  Goal
    <2>1. ClosedSoFar'
      BY <1>0, <1>7 DEF ClosedSoFar, Shutting, OnlyOf, tasks
    <2> QED BY <1>7, <2>1 DEF LeftForAReason
  <1>8. ASSUME NEW p \in Pids, Shutdown(p) PROVE Goal
    <2>1. /\ UNCHANGED tasks /\ left'[p] = {}
          /\ \A q \in Pids \ {p} :
                process'[q] = process[q] /\ why'[q] = why[q] /\ left'[q] = left[q]
      BY <1>0, <1>8 DEF Shutdown, Gone
    <2>2. CASE mem[p].loop = None
      <3>1. OnlyOf(p) /\ process'[p] = "down"
        BY <1>0, <1>8, <2>2, GoneMemory DEF Shutdown, Gone
      <3> QED BY <1>7, <2>1, <3>1 DEF Shutting
    <2>3. CASE mem[p].loop # None
      <3>1. OnlyOf(p)
        BY <1>8, <2>3, ShutdownShrinks DEF Shrinks
      <3>2. process'[p] = "closing" /\ \A c \in mem'[p].conns : c.kind # "redis"
        BY <1>0, <1>8, <2>3 DEF Shutdown, Without, Memories
      <3>3. \A t \in Tasks : at[t] = p /\ task[t] = "stray" => "stray" \in why'[p]
        BY <1>0, <1>8 DEF Shutdown, In
      <3> QED BY <1>7, <2>1, <3>1, <3>2, <3>3
    <2> QED BY <2>2, <2>3
  <1>9. ASSUME NEW p \in Pids, CloseClients(p) PROVE Goal
    <2>1. OnlyOf(p) /\ mem'[p].conns \subseteq mem[p].conns
      BY <1>9, ShutdownShrinks DEF Shrinks
    <2>2. mem'[p].conns = Without(p, {"mongo"})
      BY <1>0, <1>9 DEF CloseClients, Memories
    <2>3. \A c \in mem'[p].conns : c.kind \in {"redis", "db"}
      BY <1>0, <2>2 DEF Without, Memories, Connections, Kinds
    <2>4. Shutting(p) /\ process[p] = "closing" /\ process'[p] = "disposing"
      BY <1>0, <1>9 DEF CloseClients, Shutting
    <2>5. UNCHANGED <<tasks, history>> /\ \A q \in Pids \ {p} : process'[q] = process[q]
      BY <1>0, <1>9 DEF CloseClients
    <2>6. /\ \A t \in Tasks : at[t] = p /\ task[t] = "stray" => "stray" \in why[p]
          /\ "stray" \notin why[p] => \A c \in mem'[p].conns : c.kind = "db"
      BY <2>1, <2>3, <2>4 DEF ClosedSoFar
    <2>7. why' = why /\ left' = left
      BY <2>5 DEF history
    <2>8. \A c \in left'[p] : "stray" \in why'[p] \/ ("dispose" \in why'[p] /\ c.kind = "db")
      BY <2>7 DEF LeftForAReason
    <2> QED BY <1>7, <2>1, <2>4, <2>5, <2>6, <2>7, <2>8
  <1>10. ASSUME NEW p \in Pids, Dispose(p) PROVE Goal
    <2>1. OnlyOf(p) /\ mem'[p].conns \subseteq mem[p].conns
      BY <1>10, ShutdownShrinks DEF Shrinks
    <2>2. \A c \in mem'[p].conns : c.kind # "db"
      BY <1>0, <1>10 DEF Dispose, Without, Memories
    <2>3. Shutting(p) /\ process[p] = "disposing" /\ process'[p] = "disposed"
      BY <1>0, <1>10 DEF Dispose, Shutting
    <2>4. why' = why /\ left' = left /\ UNCHANGED tasks /\ \A q \in Pids \ {p} : process'[q] = process[q]
      BY <1>0, <1>10 DEF Dispose, history
    <2>5. /\ \A t \in Tasks : at[t] = p /\ task[t] = "stray" => "stray" \in why[p]
          /\ "stray" \notin why[p] => mem'[p].conns = {}
      BY <2>1, <2>2, <2>3 DEF ClosedSoFar
    <2>6. \A c \in left'[p] : "stray" \in why'[p] \/ ("dispose" \in why'[p] /\ c.kind = "db")
      BY <2>4 DEF LeftForAReason
    <2> QED BY <1>7, <2>1, <2>3, <2>4, <2>5, <2>6
  <1>11. ASSUME NEW p \in Pids, DisposeFails(p) PROVE Goal
    <2>1. OnlyOf(p) /\ mem'[p].conns = mem[p].conns
      BY <1>0, <1>11 DEF DisposeFails, OnlyOf
    <2>2. Shutting(p) /\ process[p] = "disposing" /\ process'[p] = "disposed"
      BY <1>0, <1>11 DEF DisposeFails, Shutting
    <2>3. /\ why'[p] = why[p] \cup {"dispose"} /\ left' = left /\ UNCHANGED tasks
          /\ \A q \in Pids \ {p} : process'[q] = process[q] /\ why'[q] = why[q]
      BY <1>0, <1>11 DEF DisposeFails
    <2>4. /\ \A t \in Tasks : at[t] = p /\ task[t] = "stray" => "stray" \in why[p]
          /\ "stray" \notin why[p] => \A c \in mem'[p].conns : c.kind = "db"
      BY <2>1, <2>2 DEF ClosedSoFar
    <2>5. \A c \in left'[p] : "stray" \in why'[p] \/ ("dispose" \in why'[p] /\ c.kind = "db")
      BY <2>3 DEF LeftForAReason
    <2> QED BY <1>7, <2>1, <2>2, <2>3, <2>4, <2>5
  <1>12. ASSUME NEW p \in Pids, CloseLoop(p) PROVE Goal
    <2>1. OnlyOf(p) /\ mem'[p] = Fresh
      BY <1>12, GoneMemory DEF CloseLoop
    <2>2. Shutting(p) /\ process[p] = "disposed"
      BY <1>12 DEF CloseLoop, Shutting
    <2>3. /\ why' = why /\ left'[p] = mem[p].conns /\ process'[p] = "down"
          /\ \A q \in Pids \ {p} : process'[q] = process[q] /\ left'[q] = left[q]
          /\ \A t \in Tasks : task'[t] = "stray" => task[t] = "stray" /\ at'[t] = at[t] /\ at[t] # p
      BY <1>0, <1>12 DEF CloseLoop, Gone, Ends, In
    <2>4. \A c \in left'[p] : "stray" \in why[p] \/ ("dispose" \in why[p] /\ c.kind = "db")
      BY <2>2, <2>3 DEF ClosedSoFar
    <2>5. LeftForAReason'
      BY <2>3, <2>4 DEF LeftForAReason
    <2>6. ClosedSoFar'
      BY <1>0, <2>1, <2>3 DEF ClosedSoFar, Shutting, OnlyOf
    <2> QED BY <2>5, <2>6
  (* The tasks. *)
  <1>13. ASSUME UNCHANGED <<process, mem, history>>,
                \A t \in Tasks : task'[t] = "stray" =>
                   at'[t] = at[t] /\ (task[t] = "stray" \/ process[at[t]] = "ready")
         PROVE  Goal
    BY <1>0, <1>13 DEF ClosedSoFar, LeftForAReason, Shutting, history
  <1>14. ASSUME NEW p \in Pids, NEW t \in Tasks, Deliver(t, p) PROVE Goal
    BY <1>0, <1>13, <1>14 DEF Deliver
  <1>15. ASSUME NEW t \in Tasks, RunLoop(t) \/ TaskEnds(t) \/ SoftLimit(t) PROVE Goal
    BY <1>0, <1>13, <1>15 DEF RunLoop, TaskEnds, SoftLimit, BusyPhases
  <1>16. ASSUME NEW t \in Tasks, RunAsync(t) PROVE Goal
    <2>1. at[t] \in Pids /\ process[at[t]] = "ready" /\ OnlyOf(at[t])
      BY <1>0, <1>16, RunAsyncMemory DEF RunAsync, BusyPhases
    <2>2. /\ UNCHANGED <<process, history>>
          /\ \A u \in Tasks : task'[u] = "stray" => at'[u] = at[u] /\ task[u] = "stray"
      BY <1>0, <1>16 DEF RunAsync
    <2> QED BY <1>1, <2>1, <2>2 DEF Shutting
  <1>17. ASSUME NEW t \in Tasks, Return(t) \/ StrayEnds(t) \/ \E u \in Tasks : StopsAnother(t, u)
         PROVE  Goal
    <2>1. at[t] \in Pids /\ Released(at[t]) /\ UNCHANGED <<process, history, at>>
      BY <1>0, <1>17 DEF Return, StrayEnds, StopsAnother, TypeOK
    <2>2. Shrinks(at[t])
      BY <2>1, ReleasedShrinks
    <2>3. \A u \in Tasks : task'[u] = "stray" => task[u] = "stray" \/ process[at[u]] = "ready"
      BY <1>0, <1>17 DEF Return, StrayEnds, StopsAnother, BusyPhases
    <2> QED BY <1>2, <2>1, <2>2, <2>3
  <1>18. ASSUME NEW t \in Tasks, NEW kind \in Kinds, UseClient(t, kind) PROVE Goal
    <2> DEFINE p == at[t]
    <2>1. p \in Pids /\ OnlyOf(p) /\ UNCHANGED <<process, tasks, history>>
      BY <1>18, UseClientMemory DEF UseClient
    <2>2. CASE task[t] = "loop"
      BY <1>0, <1>1, <2>1, <2>2 DEF Shutting, BusyPhases, tasks
    <2>3. CASE task[t] = "stray"
      <3>1. Shutting(p) => "stray" \in why[p]
        BY <2>1, <2>3 DEF ClosedSoFar
      <3>2. ClosedSoFar'
        BY <1>0, <2>1, <3>1 DEF ClosedSoFar, Shutting, OnlyOf, tasks, history
      <3> QED BY <2>1, <3>2 DEF LeftForAReason, history
    <2> QED BY <1>18, <2>2, <2>3 DEF UseClient
  <1>19. CASE UNCHANGED vars
    BY <1>13, <1>19 DEF vars, tasks
  <1> QED
    BY <1>3, <1>4, <1>5, <1>6, <1>8, <1>9, <1>10, <1>11, <1>12, <1>14, <1>15, <1>16, <1>17,
       <1>18, <1>19 DEF Next

(* A loop that runs takes no second thread, and in every pool but threads no
   second one ever asks. *)
LEMMA TaskStep == Inv /\ [Next]_vars => OneCoroutine' /\ OneBusy' /\ OnlyThreads' /\ NotInSolo'
  <1> SUFFICES ASSUME Inv, [Next]_vars PROVE OneCoroutine' /\ OneBusy' /\ OnlyThreads' /\ NotInSolo'
    OBVIOUS
  <1> USE PidsAssumption DEF Inv
  <1> DEFINE Same == OneCoroutine' /\ OneBusy' /\ OnlyThreads' /\ NotInSolo'
  <1>0. /\ task \in [Tasks -> TaskPhases]
        /\ at \in [Tasks -> Pids \cup {None}]
        /\ \A t \in Tasks : task[t] \in BusyPhases => process[at[t]] = "ready"
    BY DEF TypeOK, TaskPhases, BusyPhases
  <1>1. ASSUME NEW p \in Pids, Kill(p) \/ CloseLoop(p) PROVE Same
    <2>1. /\ UNCHANGED <<pool, at>>
          /\ \A t \in Tasks :
                \/ task'[t] \in {task[t], "cut"}
                \/ task'[t] = "dropped" /\ task[t] = "stray"
      BY <1>0, <1>1 DEF Kill, CloseLoop, Ends, In, BusyPhases
    <2> QED BY <1>0, <2>1 DEF OneCoroutine, OneBusy, OnlyThreads, NotInSolo, BusyPhases
  <1>2. ASSUME NEW p \in Pids, NEW t \in Tasks, Deliver(t, p) PROVE Same
    <2>1. /\ task' = [task EXCEPT ![t] = "body"]
          /\ at' = [at EXCEPT ![t] = p]
          /\ UNCHANGED pool
      BY <1>2 DEF Deliver
    <2>2. pool # "threads" => \A u \in Tasks : at[u] = p => task[u] \notin BusyPhases
      BY <1>2 DEF Deliver, Busy, In, BusyPhases
    <2> QED BY <1>0, <2>1, <2>2 DEF OneCoroutine, OneBusy, OnlyThreads, NotInSolo, BusyPhases
  (* Another thread runs the loop. *)
  <1>3. ASSUME NEW t \in Tasks, task[t] \in {"body", "checked"}, Running(at[t]) PROVE pool = "threads"
    <2>1. ~Shutting(at[t])
      BY <1>0, <1>3 DEF Shutting, BusyPhases
    <2>2. PICK u \in Tasks : at[u] = at[t] /\ task[u] \in {"loop", "hung"}
      BY <1>3, <2>1 DEF Running, In
    <2> QED BY <1>3, <2>2 DEF OneBusy, BusyPhases
  <1>4. ASSUME NEW t \in Tasks, RunAsync(t) PROVE Same
    <2>1. /\ UNCHANGED <<pool, at>> /\ task[t] = "body"
          /\ \/ task' = [task EXCEPT ![t] = "checked"]
             \/ task' = [task EXCEPT ![t] = "refused"] /\ pool = "threads"
      BY <1>3, <1>4 DEF RunAsync
    <2> QED BY <1>0, <2>1 DEF OneCoroutine, OneBusy, OnlyThreads, NotInSolo, BusyPhases
  <1>5. ASSUME NEW t \in Tasks, RunLoop(t) PROVE Same
    <2>1. UNCHANGED <<pool, at>> /\ task[t] = "checked"
      BY <1>5 DEF RunLoop
    <2>2. CASE Running(at[t])
      <3>1. \E next \in {"refused", "stray"} : task' = [task EXCEPT ![t] = next]
        BY <1>5, <2>2 DEF RunLoop
      <3>2. pool = "threads"
        BY <1>3, <2>1, <2>2
      <3> QED BY <1>0, <2>1, <3>1, <3>2 DEF OneCoroutine, OneBusy, OnlyThreads, NotInSolo, BusyPhases
    <2>3. CASE ~Running(at[t])
      <3>1. task' = [task EXCEPT ![t] = "loop"]
        BY <1>5, <2>3 DEF RunLoop
      <3>2. \A u \in Tasks : at[u] = at[t] => task[u] \notin {"loop", "hung"}
        BY <2>3 DEF Running, In
      <3> QED BY <1>0, <2>1, <3>1, <3>2 DEF OneCoroutine, OneBusy, OnlyThreads, NotInSolo, BusyPhases
    <2> QED BY <2>2, <2>3
  <1>6. ASSUME NEW t \in Tasks, NEW u \in Tasks, StopsAnother(t, u) PROVE Same
    <2>1. /\ UNCHANGED <<pool, at>> /\ t # u /\ at[t] = at[u]
          /\ task[t] = "checked" /\ task[u] \in {"loop", "hung"}
      BY <1>6 DEF StopsAnother
    <2>2. PICK mine \in {"refused", "hung"}, other \in {"body", "stray"} :
             task' = [task EXCEPT ![t] = mine, ![u] = other]
      BY <1>6 DEF StopsAnother
    <2>3. pool = "threads"
      BY <2>1 DEF OneBusy, BusyPhases
    <2>4. \A v \in Tasks : at[v] = at[t] /\ task[v] \in {"loop", "hung"} => v = u
      BY <2>1 DEF OneCoroutine
    <2>5. /\ task'[t] = mine /\ task'[u] = other
          /\ \A v \in Tasks \ {t, u} : task'[v] = task[v]
      BY <1>0, <2>1, <2>2
    <2> QED BY <2>1, <2>3, <2>4, <2>5 DEF OneCoroutine, OneBusy, OnlyThreads, NotInSolo
  <1>7. ASSUME NEW t \in Tasks, Return(t) \/ TaskEnds(t) \/ SoftLimit(t) \/ StrayEnds(t)
        PROVE  Same
    <2>1. /\ UNCHANGED <<pool, at>>
          /\ \/ task[t] = "loop" /\ task' = [task EXCEPT ![t] = "body"]
             \/ task' = [task EXCEPT ![t] = "over"]
             \/ pool = "prefork" /\ task' = [task EXCEPT ![t] = "stray"]
      BY <1>7 DEF Return, TaskEnds, SoftLimit, StrayEnds
    <2> QED BY <1>0, <2>1 DEF OneCoroutine, OneBusy, OnlyThreads, NotInSolo, BusyPhases
  <1>8. CASE UNCHANGED <<pool, tasks>>
    BY <1>8 DEF tasks, OneCoroutine, OneBusy, OnlyThreads, NotInSolo
  <1> QED
    BY <1>1, <1>2, <1>4, <1>5, <1>6, <1>7, <1>8
    DEF Next, WorkerInit, Fork, ProcessInit, Shutdown, CloseClients, Dispose, DisposeFails,
        UseClient, vars

(* Inv is an invariant of the workers. *)
THEOREM Invariant == Spec => []Inv
  <1>1. Inv /\ [Next]_vars => Inv'
    BY TypeStep, MemoryStep, LoopStep, ShareStep, ShutdownStep, TaskStep DEF Inv
  <1> QED BY InitInv, <1>1, PTL DEF Spec

(* Every variable keeps its type, and a task that runs has a process that runs. *)
THEOREM TypeCorrect == Spec => []TypeOK
  <1>1. Inv => TypeOK
    BY DEF Inv
  <1> QED BY Invariant, <1>1, PTL

(* No child ever has a loop or a connection of another process, in any pool and
   with any number of children, forked or forked again at any time (celery.py
   92-122). And its shutdown, step by step with coroutines left on the loop that
   it runs and engines that may not be disposed of (125-142, engine_routing.py
   81-92), leaves open nothing that neither of these explains. *)
THEOREM NothingShared == Spec => []EachProcessItsOwn
  <1>1. Inv => EachProcessItsOwn
    BY DEF Inv, MemoryIsOwn, LeftForAReason, EachProcessItsOwn
  <1> QED BY Invariant, <1>1, PTL

(* However many threads pass the check of celery.py 158 together, one at most runs
   the loop, or is left running it; the others are refused. In the solo pool no
   coroutine outlives its run_async on the loop, and in none but threads is a task
   refused (145-161). *)
THEOREM OneAtATime == Spec => []OneTaskAtATime
  <1>1. ASSUME Inv, NEW p \in Pids PROVE Cardinality(In(p, {"loop", "hung"})) <= 1
    <2>1. CASE In(p, {"loop", "hung"}) = {}
      BY <2>1, FS_EmptySet
    <2>2. CASE In(p, {"loop", "hung"}) # {}
      <3>1. PICK t : t \in In(p, {"loop", "hung"})
        BY <2>2
      <3>2. In(p, {"loop", "hung"}) = {t}
        BY <1>1, <3>1 DEF Inv, OneCoroutine, In
      <3> QED BY <3>2, FS_Singleton
    <2> QED BY <2>1, <2>2
  <1>2. Inv => OneTaskAtATime
    BY <1>1 DEF Inv, OnlyThreads, NotInSolo, OneTaskAtATime
  <1> QED BY Invariant, <1>2, PTL

-----------------------------------------------------------------------------
(* What a process has before, while and after it takes tasks *)

(* A process is marked as prepared, by its own pid alone, once it has a loop and
   a Redis client of its own, and has that client exactly until its shutdown
   drops it; a process that is down or was just forked has nothing in its memory,
   not even one that is forked where another has died. *)
Prepared ==
    \A p \in Pids :
        /\ process[p] \in {"down", "forked"} => mem[p] = Fresh
        /\ mem[p].booted \subseteq {p}
        /\ p \in mem[p].booted => mem[p].loop = p
        /\ process[p] \notin {"disposing", "disposed"} =>
             (p \in mem[p].booted <=> mem[p].redis)

LEMMA PreparedNext == Inv /\ Prepared /\ [Next]_vars => Prepared'
  <1> SUFFICES ASSUME Inv, Prepared, [Next]_vars PROVE Prepared'
    OBVIOUS
  <1>0. /\ mem \in [Pids -> Memories] /\ TypeOK /\ MemoryIsOwn /\ CoroutinesHaveLoops /\ Main \in Pids
        /\ process \in [Pids -> {"down", "forked", "ready", "closing", "disposing", "disposed"}]
        /\ \A t \in Tasks : task[t] \in BusyPhases \cup {"stray"} =>
              at[t] \in Pids /\ process[at[t]] \notin {"down", "forked"}
    BY PidsAssumption DEF Inv, TypeOK, Memories, Pids, BusyPhases
  <1>1. ASSUME NEW p \in Pids, Bootstrap(p), process'[p] = "ready",
               process[p] \in {"down", "forked", "ready"},
               \A q \in Pids \ {p} : process'[q] = process[q]
        PROVE  Prepared'
    <2>1. OnlyOf(p)
      BY <1>0, <1>1, BootstrapMemory
    <2>2. /\ mem[p].booted \subseteq {p}
          /\ p \in mem[p].booted => mem[p].loop = p
          /\ p \in mem[p].booted <=> mem[p].redis
      BY <1>1 DEF Prepared
    <2>3. /\ mem'[p].booted \subseteq {p}
          /\ p \in mem'[p].booted => mem'[p].loop = p
          /\ p \in mem'[p].booted <=> mem'[p].redis
      <3>1. CASE mem'[p].booted = mem[p].booted /\ mem'[p].redis = mem[p].redis
        <4>1. mem[p].loop = p => mem'[p].loop = p
          BY <1>0, <1>1, BootstrapMemory, PidsAssumption
        <4> QED BY <2>2, <3>1, <4>1
      <3>2. CASE mem'[p].booted = mem[p].booted \cup {p} /\ mem'[p].redis /\ mem'[p].loop = p
        BY <2>2, <3>2
      <3> QED BY <1>0, <1>1, <3>1, <3>2, BootstrapMemory
    <2> QED BY <1>1, <2>1, <2>3 DEF Prepared, OnlyOf
  <1>2. ASSUME NEW p \in Pids, OnlyOf(p), mem'[p] = Fresh,
               \A q \in Pids \ {p} : process'[q] = process[q]
        PROVE  Prepared'
    BY <1>2 DEF Prepared, OnlyOf, Fresh
  (* Prepared as before, and not down. *)
  <1>3. ASSUME NEW p \in Pids, OnlyOf(p), process[p] \notin {"down", "forked"},
               process'[p] \notin {"down", "forked"},
               mem'[p].booted = mem[p].booted,
               mem[p].loop = p => mem'[p].loop = p,
               process'[p] \notin {"disposing", "disposed"} =>
                  mem'[p].redis = mem[p].redis /\ process[p] \notin {"disposing", "disposed"},
               \A q \in Pids \ {p} : process'[q] = process[q]
        PROVE  Prepared'
    BY <1>3 DEF Prepared, OnlyOf
  <1>4. CASE WorkerInit
    <2>1. CASE pool = "prefork"
      BY <1>0, <1>4, <2>1 DEF Prepared, WorkerInit, Inv, NothingToShare, Fresh
    <2>2. CASE pool # "prefork"
      BY <1>0, <1>1, <1>4, <2>2 DEF WorkerInit
    <2> QED BY <2>1, <2>2
  <1>5. ASSUME NEW p \in Pids, Fork(p) PROVE Prepared'
    <2>1. mem' = [mem EXCEPT ![p] = Fresh] /\ Fresh \in Memories
      BY <1>5 DEF Fork, Inv, NothingToShare, Fresh, Memories
    <2>2. OnlyOf(p) /\ mem'[p] = Fresh
      BY <1>0, <2>1 DEF OnlyOf
    <2> QED BY <1>0, <1>2, <1>5, <2>2 DEF Fork
  <1>6. ASSUME NEW p \in Pids, ProcessInit(p) PROVE Prepared'
    BY <1>0, <1>1, <1>6 DEF ProcessInit
  <1>7. ASSUME NEW p \in Pids,
               \/ Kill(p) \/ CloseLoop(p)
               \/ Shutdown(p) /\ mem[p].loop = None
        PROVE  Prepared'
    <2>1. OnlyOf(p) /\ mem'[p] = Fresh
      BY <1>0, <1>7, GoneMemory DEF Kill, CloseLoop, Shutdown
    <2>2. \A q \in Pids \ {p} : process'[q] = process[q]
      BY <1>0, <1>7 DEF Kill, CloseLoop, Shutdown, Gone
    <2> QED BY <1>2, <2>1, <2>2
  <1>8. ASSUME NEW p \in Pids,
               \/ Shutdown(p) /\ mem[p].loop # None
               \/ CloseClients(p) \/ Dispose(p) \/ DisposeFails(p)
        PROVE  Prepared'
    <2>1. OnlyOf(p) /\ mem'[p].booted = mem[p].booted /\ mem'[p].loop = mem[p].loop
      BY <1>0, <1>8, ShutdownShrinks DEF Shrinks
    <2>2. \A q \in Pids \ {p} : process'[q] = process[q]
      BY <1>0, <1>8 DEF Shutdown, CloseClients, Dispose, DisposeFails
    <2>3. CASE Shutdown(p) /\ mem[p].loop # None
      <3>1. process[p] = "ready" /\ process'[p] = "closing" /\ mem'[p].redis = mem[p].redis
        BY <1>0, <2>3 DEF Shutdown, Memories
      <3> QED BY <1>3, <2>1, <2>2, <3>1
    <2>4. CASE CloseClients(p) \/ Dispose(p) \/ DisposeFails(p)
      <3>1. process[p] \in {"closing", "disposing"} /\ process'[p] \in {"disposing", "disposed"}
        BY <1>0, <2>4 DEF CloseClients, Dispose, DisposeFails
      <3> QED BY <1>3, <2>1, <2>2, <3>1
    <2> QED BY <1>8, <2>3, <2>4
  <1>9. ASSUME NEW t \in Tasks, RunAsync(t) PROVE Prepared'
    <2>1. process[at[t]] = "ready"
      BY <1>0, <1>9 DEF RunAsync, TypeOK
    <2> QED BY <1>0, <1>3, <1>9, <2>1, RunAsyncMemory DEF RunAsync
  <1>10. ASSUME NEW t \in Tasks, task[t] \in BusyPhases \cup {"stray"}, UNCHANGED process,
                OnlyOf(at[t]), mem'[at[t]].booted = mem[at[t]].booted,
                mem'[at[t]].loop = mem[at[t]].loop, mem'[at[t]].redis = mem[at[t]].redis
         PROVE  Prepared'
    BY <1>0, <1>10 DEF Prepared, OnlyOf
  <1>11. ASSUME NEW t \in Tasks, Return(t) \/ StrayEnds(t) \/ \E u \in Tasks : StopsAnother(t, u)
         PROVE  Prepared'
    <2>1. /\ task[t] \in BusyPhases \cup {"stray"} /\ at[t] \in Pids
          /\ Released(at[t]) /\ UNCHANGED process
      BY <1>0, <1>11 DEF Return, StrayEnds, StopsAnother, BusyPhases
    <2> QED BY <1>0, <1>10, <2>1, ReleasedShrinks DEF Shrinks
  <1>12. ASSUME NEW t \in Tasks, NEW kind \in Kinds, UseClient(t, kind) PROVE Prepared'
    <2>1. task[t] \in BusyPhases \cup {"stray"} /\ UNCHANGED process
      BY <1>12 DEF UseClient, BusyPhases
    <2> QED BY <1>0, <1>10, <1>12, <2>1, UseClientMemory
  <1>13. CASE UNCHANGED <<process, mem>>
    BY <1>13 DEF Prepared
  <1> QED
    BY <1>4, <1>5, <1>6, <1>7, <1>8, <1>9, <1>11, <1>12, <1>13
    DEF Next, Deliver, RunLoop, TaskEnds, SoftLimit, vars

(* However often the preparation of a process raises, is repeated or is lost with
   the process: what is marked as prepared is, and whatever runs a coroutine, or
   has one left, does so on the loop of its own process (_bootstrap_worker,
   init_worker, init_worker_process and run_async of celery.py, lines 69-161). *)
THEOREM PreparedBeforeTasks ==
    Spec => []( /\ Prepared
                /\ \A t \in Tasks : task[t] \in {"checked", "loop", "hung", "stray"} =>
                      mem[at[t]].loop = at[t])
  <1>1. Init => Prepared
    BY DEF Init, Prepared, Fresh
  <1>2. Inv => \A t \in Tasks : task[t] \in {"checked", "loop", "hung", "stray"} => mem[at[t]].loop = at[t]
    BY PidsAssumption DEF Inv, TypeOK, MemoryIsOwn, CoroutinesHaveLoops
  <1> QED BY <1>1, <1>2, PreparedNext, Invariant, PTL DEF Spec

-----------------------------------------------------------------------------
(* Connections between tasks *)

(* With NullPool, a process without a coroutine has no connection to a database. *)
NoneIdle ==
    nullPool => \A p \in Pids : (\E c \in mem[p].conns : c.kind = "db") => In(p, {"loop", "stray"}) # {}

LEMMA NoneIdleNext == Inv /\ NoneIdle /\ [Next]_vars => NoneIdle'
  <1> SUFFICES ASSUME Inv, NoneIdle, [Next]_vars, nullPool', NEW p \in Pids,
                      NEW c \in mem'[p].conns, c.kind = "db"
               PROVE  \E t \in Tasks : at'[t] = p /\ task'[t] \in {"loop", "stray"}
    BY DEF NoneIdle, In
  <1>0. /\ mem \in [Pids -> Memories] /\ TypeOK /\ MemoryIsOwn /\ CoroutinesHaveLoops /\ Main \in Pids
        /\ task \in [Tasks -> TaskPhases]
        /\ at \in [Tasks -> Pids \cup {None}]
        /\ \A t \in Tasks : task[t] \in BusyPhases \cup {"stray"} => at[t] \in Pids
    BY PidsAssumption DEF Inv, TypeOK, Memories, Pids, BusyPhases, TaskPhases
  <1>1. nullPool
    BY DEF Next, WorkerInit, Fork, ProcessInit, Shutdown, CloseClients, Dispose, DisposeFails,
           CloseLoop, Kill, Deliver, RunAsync, RunLoop, StopsAnother, Return, TaskEnds, SoftLimit,
           StrayEnds, UseClient, vars
  <1>2. c \in mem[p].conns => \E t \in Tasks : at[t] = p /\ task[t] \in {"loop", "stray"}
    BY <1>1 DEF NoneIdle, In
  <1> DEFINE Goal == \E t \in Tasks : at'[t] = p /\ task'[t] \in {"loop", "stray"}
  (* A step after which all coroutines are where they were. *)
  <1>3. ASSUME mem'[p].conns \subseteq mem[p].conns,
               \A t \in Tasks : at[t] = p /\ task[t] \in {"loop", "stray"} =>
                  at'[t] = p /\ task'[t] \in {"loop", "stray"}
        PROVE  Goal
    BY <1>2, <1>3
  <1>4. ASSUME NEW q \in Pids, Bootstrap(q), UNCHANGED tasks PROVE Goal
    <2>1. mem'[p].conns = mem[p].conns
      BY <1>0, <1>4, BootstrapMemory DEF OnlyOf
    <2> QED BY <1>3, <1>4, <2>1 DEF tasks
  <1>5. CASE WorkerInit
    BY <1>0, <1>3, <1>4, <1>5 DEF WorkerInit, tasks
  <1>6. ASSUME NEW q \in Pids, Fork(q) PROVE Goal
    <2>1. mem' = [mem EXCEPT ![q] = Fresh]
      BY <1>6 DEF Fork, Inv, NothingToShare
    <2>2. mem'[p].conns \subseteq mem[p].conns
      BY <1>0, <2>1 DEF Fresh
    <2> QED BY <1>3, <1>6, <2>2 DEF Fork, tasks
  <1>7. ASSUME NEW q \in Pids, ProcessInit(q) PROVE Goal
    BY <1>4, <1>7 DEF ProcessInit
  <1>8. ASSUME NEW q \in Pids, Kill(q) \/ CloseLoop(q) PROVE Goal
    <2>1. OnlyOf(q) /\ mem'[q] = Fresh
      BY <1>0, <1>8, GoneMemory DEF Kill, CloseLoop
    <2>2. q # p
      BY <2>1 DEF Fresh
    <2>3. mem'[p].conns = mem[p].conns
      BY <2>1, <2>2 DEF OnlyOf
    <2>4. \A t \in Tasks : at[t] = p => at'[t] = p /\ task'[t] = task[t]
      BY <1>0, <1>8, <2>2 DEF Kill, CloseLoop, Ends, In
    <2> QED BY <1>3, <2>3, <2>4
  <1>9. ASSUME NEW q \in Pids, Shutdown(q) \/ CloseClients(q) \/ Dispose(q) \/ DisposeFails(q) PROVE Goal
    <2>1. mem'[p].conns \subseteq mem[p].conns
      <3>1. CASE Shutdown(q) /\ mem[q].loop = None
        BY <1>0, <3>1, GoneMemory DEF Shutdown, OnlyOf, Fresh
      <3>2. CASE ~(Shutdown(q) /\ mem[q].loop = None)
        BY <1>0, <1>9, <3>2, ShutdownShrinks DEF Shrinks, OnlyOf
      <3> QED BY <3>1, <3>2
    <2> QED BY <1>3, <1>9, <2>1 DEF Shutdown, CloseClients, Dispose, DisposeFails, tasks
  <1>10. ASSUME NEW t \in Tasks, NEW q \in Pids, Deliver(t, q) PROVE Goal
    BY <1>0, <1>3, <1>10 DEF Deliver
  <1>11. ASSUME NEW t \in Tasks, RunAsync(t) PROVE Goal
    <2>1. mem'[p].conns = mem[p].conns
      BY <1>0, <1>11, RunAsyncMemory DEF OnlyOf
    <2>2. \A u \in Tasks : task[u] \in {"loop", "stray"} => at'[u] = at[u] /\ task'[u] = task[u]
      BY <1>0, <1>11 DEF RunAsync
    <2> QED BY <1>3, <2>1, <2>2
  (* The end of a coroutine. *)
  <1>12. ASSUME NEW t \in Tasks, Return(t) \/ StrayEnds(t) \/ \E u \in Tasks : StopsAnother(t, u)
         PROVE  Goal
    <2>1. at[t] \in Pids /\ Released(at[t])
      BY <1>0, <1>12 DEF Return, StrayEnds, StopsAnother, BusyPhases
    <2>2. at[t] # p
      <3>1. mem' = [mem EXCEPT ![at[t]].conns = {d \in @ : nullPool => d.kind # "db"}]
        BY <2>1 DEF Released
      <3>2. \A d \in mem'[at[t]].conns : d.kind # "db"
        BY <1>0, <1>1, <2>1, <3>1 DEF Memories
      <3> QED BY <3>2
    <2>3. mem'[p].conns = mem[p].conns
      BY <1>0, <2>1, <2>2, ReleasedShrinks DEF Shrinks, OnlyOf
    <2>4. \A u \in Tasks : at[u] = p => at'[u] = p /\ task'[u] = task[u]
      BY <1>0, <1>12, <2>2 DEF Return, StrayEnds, StopsAnother
    <2> QED BY <1>3, <2>3, <2>4
  <1>13. ASSUME NEW t \in Tasks, RunLoop(t) \/ TaskEnds(t) \/ SoftLimit(t) PROVE Goal
    <2>1. \A u \in Tasks : task[u] \in {"loop", "stray"} => at'[u] = at[u] /\ task'[u] \in {"loop", "stray"}
      BY <1>0, <1>13 DEF RunLoop, TaskEnds, SoftLimit
    <2> QED BY <1>3, <1>13, <2>1 DEF RunLoop, TaskEnds, SoftLimit
  <1>14. ASSUME NEW t \in Tasks, NEW kind \in Kinds, UseClient(t, kind) PROVE Goal
    <2>1. task[t] \in {"loop", "stray"} /\ at[t] \in Pids /\ UNCHANGED <<task, at>>
      BY <1>0, <1>14 DEF UseClient, tasks, BusyPhases
    <2>2. CASE at[t] = p
      BY <2>1, <2>2
    <2>3. CASE at[t] # p
      <3>1. mem'[p] = mem[p]
        BY <1>0, <1>14, <2>1, <2>3, UseClientMemory DEF OnlyOf
      <3> QED BY <1>3, <2>1, <3>1
    <2> QED BY <2>2, <2>3
  <1>15. CASE UNCHANGED vars
    BY <1>3, <1>15 DEF vars, tasks
  <1> QED BY <1>5, <1>6, <1>7, <1>8, <1>9, <1>10, <1>11, <1>12, <1>13, <1>14, <1>15 DEF Next

(* A worker whose engines use NullPool keeps no connection to a database between
   its tasks, in any pool class and whatever is interrupted, refused, hung or
   killed: only a coroutine, running or left on the loop, has one
   (engine_routing.py 42-47, celery.py 19). *)
THEOREM NullPoolKeepsNothing == Spec => []NoneIdle
  <1>1. Init => NoneIdle
    BY DEF Init, NoneIdle, Fresh
  <1> QED BY <1>1, NoneIdleNext, Invariant, PTL DEF Spec

-----------------------------------------------------------------------------
(* Tasks are not run again *)

RunsOnce ==
    \A t \in Tasks :
        /\ at[t] # None => at'[t] = at[t] /\ task'[t] # "queued"
        /\ task[t] \in {"over", "refused", "dropped", "cut"} => task'[t] = task[t]

LEMMA RunsOnceNext == Inv /\ [Next]_vars => RunsOnce
  <1> SUFFICES ASSUME Inv, [Next]_vars, NEW t \in Tasks, at[t] # None
               PROVE  /\ at'[t] = at[t] /\ task'[t] # "queued"
                      /\ task[t] \in {"over", "refused", "dropped", "cut"} => task'[t] = task[t]
    BY DEF RunsOnce, Inv, TypeOK
  <1> DEFINE Active == BusyPhases \cup {"stray"}
             Ended == {"over", "refused", "dropped", "cut"}
             Goes == \/ task'[t] = task[t]
                     \/ task[t] \in Active /\ task'[t] \in Active \cup Ended
  <1>0. /\ task \in [Tasks -> TaskPhases]
        /\ at \in [Tasks -> Pids \cup {None}]
        /\ task[t] # "queued"
    BY DEF Inv, TypeOK, TaskPhases, BusyPhases
  <1>1. ASSUME NEW p \in Pids, NEW u \in Tasks, Deliver(u, p) PROVE at'[t] = at[t] /\ Goes
    BY <1>0, <1>1 DEF Deliver
  <1>2. ASSUME NEW p \in Pids, Kill(p) \/ CloseLoop(p) PROVE at'[t] = at[t] /\ Goes
    BY <1>0, <1>2 DEF Kill, CloseLoop, Ends, In, BusyPhases
  <1>3. ASSUME NEW u \in Tasks,
               \/ RunAsync(u) \/ RunLoop(u) \/ Return(u) \/ TaskEnds(u) \/ SoftLimit(u) \/ StrayEnds(u)
        PROVE  at'[t] = at[t] /\ Goes
    BY <1>0, <1>3 DEF RunAsync, RunLoop, Return, TaskEnds, SoftLimit, StrayEnds, BusyPhases
  <1>4. ASSUME NEW u \in Tasks, NEW v \in Tasks, StopsAnother(u, v) PROVE at'[t] = at[t] /\ Goes
    BY <1>0, <1>4 DEF StopsAnother, BusyPhases
  <1>5. CASE UNCHANGED tasks
    BY <1>0, <1>5 DEF tasks
  <1>6. at'[t] = at[t] /\ Goes
    BY <1>1, <1>2, <1>3, <1>4, <1>5
    DEF Next, WorkerInit, Fork, ProcessInit, Shutdown, CloseClients, Dispose, DisposeFails,
        UseClient, vars, tasks
  <1> QED BY <1>0, <1>6 DEF BusyPhases

(* A task is given to one process once and its outcome is the last: nothing that
   a refused loop, a soft limit, another thread's stop, a shutdown or a kill cut
   off is run again, since the task was acknowledged before it ran (no acks_late
   in celery.py nor config.py). *)
THEOREM TasksRunOnce == Spec => [][RunsOnce]_vars
  BY RunsOnceNext, Invariant, PTL DEF Spec
=============================================================================
