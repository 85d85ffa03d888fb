----------------------------- MODULE DbSession ------------------------------
(***************************************************************************)
(* core/db: the units of work that managed_session brackets (FastAPI       *)
(* dependencies and session_scope), RoutingSession.get_bind between the    *)
(* primary and its replica, the connection pools of the two engines, the   *)
(* after-commit callbacks and the AutoSession of the running task.         *)
(*                                                                         *)
(*   idle -> body <-> wait                     statements of the body      *)
(*   body -> commit <-> wait                   it ended: flush and commit  *)
(*   commit -> notify <-> raised               the callbacks, one by one   *)
(*   notify -> close -> idle                                               *)
(*   body | wait | commit -> rollback -> close it raised                   *)
(*                                                                         *)
(* One action is what runs between two awaits; the callbacks, which do not *)
(* await, take an action each.                                             *)
(***************************************************************************)
EXTENDS Integers, FiniteSets

CONSTANTS
    Tasks,       \* asyncio tasks: requests, gRPC calls, jobs; one unit at a time each
    None,        \* no session in the context
    PoolSize,    \* pool_size + max_overflow of an engine
    NullPooled,  \* use_pgbouncer or CELERY_WORKER=1: every checkout connects
    OpenedAs,    \* the <<mode, way>> pairs in which this instance opens sessions
    MaxCallbacks,\* bound of the model: callbacks registered by a unit, or by any two
    MaxUnits     \* bound of the model: units of work opened altogether

Units == 1..MaxUnits
Engines == {"READ", "WRITE"}
Modes == {"read", "write", "auto"}

(* How a task opens its session: managed_session for get_<mode>_session and
   session_scope, get_db_session, session_scope with enable_auto_session. *)
Ways == {"managed", "db_session", "auto_scope"}

Statements == {"select", "flush", "dml", "raw"}

(* get_db_session is get_auto_session wrapped. *)
ASSUME OpenedAssumption == OpenedAs \subseteq (Modes \X Ways) \ ({"read", "write"} \X {"db_session"})
ASSUME TasksAssumption == IsFiniteSet(Tasks)
ASSUME PoolAssumption == PoolSize \in Nat \ {0} /\ NullPooled \in BOOLEAN
ASSUME BoundAssumption == MaxUnits \in Nat /\ MaxCallbacks \in Nat /\ None \notin Units

VARIABLES
    pc,        \* where each task is
    session,   \* its session
    context,   \* its context variable _current_session
    orphans,   \* connections of sessions left to the garbage collector
    status,    \* history: what became of each unit,
    dirty,     \* history: which have something to save,
    saved,     \* the units committed on the primary,
    registered,\* history: its after-commit callbacks,
    called     \* history: and those that were called

unit == <<status, dirty, saved, registered, called>>
vars == <<pc, session, context, orphans, unit>>

UoW == INSTANCE UnitOfWork WITH
         Units <- Units, status <- status, dirty <- dirty, saved <- saved,
         told <- {u \in Units : called[u] > 0}

NoSession ==
    [unit |-> None, mode |-> "auto", way |-> "managed", pinned |-> FALSE,
     conns |-> {}, added |-> FALSE, flushed |-> FALSE, callbacks |-> 0,
     op |-> "select", done |-> {}]

Phases == {"idle", "body", "wait", "commit", "notify", "raised", "rollback", "close"}

Go(t, phase) == pc' = [pc EXCEPT ![t] = phase]

Update(t, s) == session' = [session EXCEPT ![t] = s]

Ends(t, outcome) == status' = [status EXCEPT ![session[t].unit] = outcome]

-----------------------------------------------------------------------------
(* The engines *)

(* Mutant: a pinned session still sends its selects to the replica. *)
BindReadsToReplica(s, op) ==
    CASE s.mode = "read"  -> "READ"
      [] s.mode = "write" -> "WRITE"
      [] s.mode = "auto"  -> IF op \in {"flush", "dml"} THEN "WRITE" ELSE "READ"

(* The engine a statement goes to: RoutingSession.get_bind in an auto session,
   the one engine of the factory in the others. *)
Bind(s, op) ==
    CASE s.mode = "read"  -> "READ"
      [] s.mode = "write" -> "WRITE"
      [] s.mode = "auto"  -> IF s.pinned \/ op \in {"flush", "dml"}
                               THEN "WRITE" ELSE "READ"

(* The first ORM write pins the session; raw SQL is a TextClause and does not. *)
Pins(s, op) == s.mode = "auto" /\ op \in {"flush", "dml"}

Target(t) == Bind(session[t], session[t].op)

Holders(e) == {t \in Tasks : e \in session[t].conns}

Lost(e) == {u \in Units : e \in orphans[u]}

Free(e) == NullPooled \/ Cardinality(Holders(e)) + Cardinality(Lost(e)) < PoolSize

-----------------------------------------------------------------------------

Init ==
    /\ pc = [t \in Tasks |-> "idle"]
    /\ session = [t \in Tasks |-> NoSession]
    /\ context = [t \in Tasks |-> None]
    /\ orphans = [u \in Units |-> {}]
    /\ status = [u \in Units |-> "new"]
    /\ dirty = {}
    /\ saved = {}
    /\ registered = [u \in Units |-> 0]
    /\ called = [u \in Units |-> 0]

(* AutoSession.set *)
EnterScope(t, u, way) ==
    context' = IF way = "auto_scope" THEN [context EXCEPT ![t] = u] ELSE context

(* factory(): no connection yet. *)
Open(t, mode, way) ==
    /\ pc[t] = "idle"
    /\ \E u \in Units :
          /\ status[u] = "new"
          /\ \A v \in Units : v < u => status[v] # "new"
          /\ Update(t, [NoSession EXCEPT !.unit = u, !.mode = mode, !.way = way])
          /\ EnterScope(t, u, way)
          /\ status' = [status EXCEPT ![u] = "running"]
    /\ Go(t, "body")
    /\ UNCHANGED <<orphans, dirty, saved, registered, called>>

(* session.add: nothing goes to a database (autoflush is off). *)
Add(t) ==
    LET s == session[t]
    IN  /\ pc[t] = "body"
        /\ Update(t, [s EXCEPT !.added = TRUE])
        /\ dirty' = IF s.mode = "read" THEN dirty ELSE dirty \cup {s.unit}
        /\ UNCHANGED <<pc, context, orphans, status, saved, registered, called>>

(* CallBackAfterCommit(session).register *)
Register(t) ==
    LET s == session[t]
    IN  /\ pc[t] = "body"
        /\ s.callbacks < MaxCallbacks
        /\ \A u \in Units \ {s.unit} : registered[u] + s.callbacks < MaxCallbacks
        /\ Update(t, [s EXCEPT !.callbacks = @ + 1])
        /\ registered' = [registered EXCEPT ![s.unit] = @ + 1]
        /\ UNCHANGED <<pc, context, orphans, status, dirty, saved, called>>

(* A statement of the body, or the flush with which a commit begins: get_bind
   pins the session before the connection is there. *)
Statement(t, op) ==
    LET s == session[t]
    IN  /\ \/ pc[t] = "body"
           \/ pc[t] = "commit" /\ op = "flush"
        /\ op = "flush" => s.added
        /\ Update(t, [s EXCEPT !.op = op, !.pinned = @ \/ Pins(s, op)])
        /\ Go(t, "wait")
        /\ UNCHANGED <<context, orphans, unit>>

(* The replica refuses whatever is not a select. *)
Refused(t) == Target(t) = "READ" /\ session[t].op # "select"

(* The statement runs on the session's connection or on one of the pool. *)
Execute(t) ==
    LET s == session[t]
        e == Target(t)
    IN  /\ pc[t] = "wait"
        /\ e \in s.conns \/ Free(e)
        /\ ~Refused(t)
        /\ Update(t, [s EXCEPT !.conns = @ \cup {e},
                               !.added = @ /\ s.op # "flush",
                               !.flushed = @ \/ s.op # "select",
                               !.op = "select"])
        /\ Go(t, IF status[s.unit] = "ended" THEN "commit" ELSE "body")
        /\ dirty' = IF s.op # "select" THEN dirty \cup {s.unit} ELSE dirty
        /\ UNCHANGED <<context, orphans, status, saved, registered, called>>

(* AutoSession.reset: session_scope calls it before managed_session goes on. *)
LeaveScope(t) ==
    context' = IF session[t].way = "auto_scope" THEN [context EXCEPT ![t] = None] ELSE context

(* The body is over; get_read_session has nothing to commit. *)
BodyEnds(t) ==
    /\ pc[t] = "body"
    /\ Ends(t, "ended")
    /\ Go(t, IF session[t].mode = "read" THEN "close" ELSE "commit")
    /\ LeaveScope(t)
    /\ UNCHANGED <<session, orphans, dirty, saved, registered, called>>

(* Mutant: the session that is left stays the task's own. *)
AbandonKept(t) ==
    /\ orphans' = [orphans EXCEPT ![session[t].unit] = session[t].conns]
    /\ UNCHANGED session
    /\ Go(t, "idle")

(* get_db_session does not pass on what is thrown at its yield: the generator it
   iterates over, and the session inside, wait for the garbage collector. *)
Abandon(t) ==
    /\ orphans' = [orphans EXCEPT ![session[t].unit] = session[t].conns]
    /\ Update(t, NoSession)
    /\ Go(t, "idle")

(* Mutant: an exception skips the reset of the context. *)
BodyFailsInContext(t, next) ==
    /\ pc[t] \in {"body", "wait"}
    /\ status[session[t].unit] = "running"
    /\ Ends(t, "failed")
    /\ IF session[t].way = "db_session" THEN Abandon(t)
       ELSE Go(t, next) /\ UNCHANGED <<session, orphans>>
    /\ UNCHANGED <<context, dirty, saved, registered, called>>

BodyFails(t, next) ==
    /\ pc[t] \in {"body", "wait"}
    /\ status[session[t].unit] = "running"
    /\ Ends(t, "failed")
    /\ IF session[t].way = "db_session" THEN Abandon(t)
       ELSE Go(t, next) /\ UNCHANGED <<session, orphans>>
    /\ LeaveScope(t)
    /\ UNCHANGED <<dirty, saved, registered, called>>

(* Its code raises, a statement is refused or the pool has nothing to give. *)
BodyRaises(t) == BodyFails(t, IF session[t].mode = "read" THEN "close" ELSE "rollback")

(* CancelledError is not an Exception: no rollback, only the close. *)
BodyCancelled(t) == BodyFails(t, "close")

(* Mutant: the callbacks are called as soon as the commit is requested. *)
CommitConnTells(t, e) ==
    LET s == session[t]
    IN  /\ pc[t] = "commit"
        /\ ~s.added
        /\ e \in s.conns \ s.done
        /\ Update(t, [s EXCEPT !.done = @ \cup {e}])
        /\ saved' = IF e = "WRITE" /\ s.flushed THEN saved \cup {s.unit} ELSE saved
        /\ called' = [called EXCEPT ![s.unit] = s.callbacks]
        /\ UNCHANGED <<pc, context, orphans, status, dirty, registered>>

(* The session commits its connections in no particular order. *)
CommitConn(t, e) ==
    LET s == session[t]
    IN  /\ pc[t] = "commit"
        /\ ~s.added
        /\ e \in s.conns \ s.done
        /\ Update(t, [s EXCEPT !.done = @ \cup {e}])
        /\ saved' = IF e = "WRITE" /\ s.flushed THEN saved \cup {s.unit} ELSE saved
        /\ UNCHANGED <<pc, context, orphans, status, dirty, registered, called>>

(* The transaction is over, and the callbacks are popped from the session's info. *)
Committed(t) ==
    LET s == session[t]
    IN  /\ pc[t] = "commit"
        /\ ~s.added
        /\ s.done = s.conns
        /\ Update(t, [s EXCEPT !.conns = {}])
        /\ Ends(t, "done")
        /\ Go(t, "notify")
        /\ UNCHANGED <<context, orphans, dirty, saved, registered, called>>

(* The next callback is called: it returns or raises. *)
Callback(t) ==
    LET s == session[t]
    IN  /\ pc[t] = "notify"
        /\ s.callbacks > 0
        /\ Update(t, [s EXCEPT !.callbacks = @ - 1])
        /\ called' = [called EXCEPT ![s.unit] = @ + 1]
        /\ \/ UNCHANGED pc
           \/ Go(t, "raised")
        /\ UNCHANGED <<context, orphans, status, dirty, saved, registered>>

(* Mutant: the first callback that raises ends the loop. *)
CallbackBreaksLoop(t) ==
    /\ pc[t] = "raised"
    /\ Go(t, "close")
    /\ UNCHANGED <<session, context, orphans, unit>>

(* What it raised is logged, and the loop goes on. *)
CallbackLogged(t) ==
    /\ pc[t] = "raised"
    /\ Go(t, "notify")
    /\ UNCHANGED <<session, context, orphans, unit>>

Notified(t) ==
    /\ pc[t] = "notify"
    /\ session[t].callbacks = 0
    /\ Go(t, "close")
    /\ UNCHANGED <<session, context, orphans, unit>>

(* The flush or the commit of one connection raises, or the task is cancelled
   meanwhile; what was being committed may have been committed all the same. *)
CommitBreaks(t, next) ==
    LET s == session[t]
        sent == pc[t] = "commit" /\ ~s.added /\ s.flushed /\ "WRITE" \notin s.done
    IN  /\ pc[t] \in {"wait", "commit"}
        /\ status[s.unit] = "ended"
        /\ next = "rollback" => pc[t] = "wait" \/ (~s.added /\ s.done # s.conns)
        /\ \/ UNCHANGED saved
           \/ sent /\ saved' = saved \cup {s.unit}
        /\ Ends(t, "failed")
        /\ Go(t, next)
        /\ UNCHANGED <<session, context, orphans, dirty, registered, called>>

CommitRaises(t) == CommitBreaks(t, "rollback")
CommitCancelled(t) == CommitBreaks(t, "close")

(* A rollback that raises leaves the connections to the close. *)
Rollback(t) ==
    /\ pc[t] = "rollback"
    /\ \/ Update(t, [session[t] EXCEPT !.conns = {}, !.callbacks = 0])
       \/ UNCHANGED session
    /\ Go(t, "close")
    /\ UNCHANGED <<context, orphans, unit>>

(* Mutant: a session that failed is not closed. *)
CloseOnlyDone(t) ==
    /\ pc[t] = "close"
    /\ status[session[t].unit] # "failed"
    /\ status' = [status EXCEPT ![session[t].unit] = IF @ = "ended" THEN "done" ELSE @]
    /\ Update(t, NoSession)
    /\ Go(t, "idle")
    /\ UNCHANGED <<context, orphans, dirty, saved, registered, called>>

(* Connections go back to their pools, whether the close raises or not. *)
Close(t) ==
    /\ pc[t] = "close"
    /\ status' = [status EXCEPT ![session[t].unit] = IF @ = "ended" THEN "done" ELSE @]
    /\ Update(t, NoSession)
    /\ Go(t, "idle")
    /\ UNCHANGED <<context, orphans, dirty, saved, registered, called>>

(* The event loop closes the abandoned generator. *)
Finalize(u) ==
    /\ orphans[u] # {}
    /\ orphans' = [orphans EXCEPT ![u] = {}]
    /\ UNCHANGED <<pc, session, context, unit>>

Next ==
    \/ \E u \in Units : Finalize(u)
    \/ \E t \in Tasks :
          \/ \E how \in OpenedAs : Open(t, how[1], how[2])
          \/ Add(t) \/ Register(t)
          \/ \E op \in Statements : Statement(t, op)
          \/ Execute(t)
          \/ BodyEnds(t) \/ BodyRaises(t) \/ BodyCancelled(t)
          \/ \E e \in Engines : CommitConn(t, e)
          \/ Committed(t) \/ CommitRaises(t) \/ CommitCancelled(t)
          \/ Callback(t) \/ CallbackLogged(t) \/ Notified(t)
          \/ Rollback(t) \/ Close(t)

(* The databases and the event loop answer, a callback returns or raises: a
   statement runs or fails (pool_timeout), and what managed_session has begun
   goes on. *)
Ending(t) ==
    \/ \E e \in Engines : CommitConn(t, e)
    \/ pc[t] = "commit" /\ Statement(t, "flush")
    \/ Committed(t) \/ Callback(t) \/ CallbackLogged(t) \/ Notified(t)
    \/ Rollback(t) \/ Close(t)

WaitEnds(t) == pc[t] = "wait" /\ (Execute(t) \/ BodyRaises(t) \/ CommitRaises(t))

Fairness ==
    /\ \A t \in Tasks : WF_vars(Ending(t)) /\ WF_vars(WaitEnds(t))
    /\ \A u \in Units : WF_vars(Finalize(u))

Spec == Init /\ [][Next]_vars /\ Fairness

-----------------------------------------------------------------------------

Sessions ==
    [unit : Units \cup {None}, mode : Modes, way : Ways, pinned : BOOLEAN,
     conns : SUBSET Engines, added : BOOLEAN, flushed : BOOLEAN,
     callbacks : Nat, op : Statements, done : SUBSET Engines]

TypeOK ==
    /\ pc \in [Tasks -> Phases]
    /\ session \in [Tasks -> Sessions]
    /\ context \in [Tasks -> Units \cup {None}]
    /\ orphans \in [Units -> SUBSET Engines]
    /\ status \in [Units -> UoW!Statuses]
    /\ dirty \subseteq Units
    /\ saved \subseteq Units
    /\ registered \in [Units -> Nat]
    /\ called \in [Units -> Nat]
    /\ \A t \in Tasks : pc[t] = "idle" <=> session[t] = NoSession

(* managed_session keeps the promise of a unit of work: all or nothing, saved
   only after its body ended, told only when saved (lines 58-90). *)
ImplementsUnitOfWork == UoW!Spec

(* "Error running after-commit callback" (line 76): a callback that raises keeps
   none of the others from being called, none is called twice, and a unit that
   failed calls none. Once its session is closed, a unit that was saved has called
   every callback it registered. *)
CallbacksAllOrNone ==
    \A u \in Units :
        /\ status[u] # "done" => called[u] = 0
        /\ called[u] <= registered[u]
        /\ status[u] = "done" /\ u \in dirty /\ (\A t \in Tasks : session[t].unit # u)
              => called[u] = registered[u]

(* "read-after-write consistency inside the same logical transaction" (line 27
   of session.py): once a session has written, what it selects includes it. What
   it has not committed can only be seen on its connection to the primary. *)
ReadsOwnWrites ==
    \A t \in Tasks :
        pc[t] = "wait" /\ session[t].op = "select" /\ session[t].flushed
            => Target(t) = "WRITE" /\ "WRITE" \in session[t].conns

Waiting(t) ==
    pc[t] = "wait" /\ Target(t) \notin session[t].conns /\ ~Free(Target(t))

(* Sessions never wait for one another in a circle: of any set of tasks that
   wait for a connection, one waits for an engine that someone outside the set
   holds. A session may hold a connection of the replica and wait for one of the
   primary; one that holds the primary never waits for the replica again, as
   its pin is never taken back (lines 28-35 of session.py). *)
NoPoolDeadlock ==
    \A D \in (SUBSET Tasks) \ {{}} :
        ~ \A t \in D : /\ Waiting(t)
                       /\ Holders(Target(t)) \subseteq D
                       /\ Lost(Target(t)) = {}

(* AutoSession.get never returns a session that its scope has left: not after an
   exception nor a cancellation, nor during the commit (lines 101-106). *)
AutoSessionIsOpen ==
    \A t \in Tasks :
        context[t] # None =>
            /\ context[t] = session[t].unit
            /\ status[context[t]] = "running"

(* Whatever the body and the databases do, every unit that begins to end gives
   its connections back, and so does one left to the garbage collector. *)
ConnectionsComeBack ==
    /\ \A t \in Tasks : pc[t] \in {"commit", "rollback", "close"} ~> session[t].conns = {}
    /\ \A u \in Units : orphans[u] # {} ~> orphans[u] = {}
=============================================================================
