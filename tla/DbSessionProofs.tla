--------------------------- MODULE DbSessionProofs ---------------------------
(***************************************************************************)
(* For any number of tasks and units of work, any size of the pools and    *)
(* any way of opening sessions: managed_session implements a unit of work, *)
(* its callbacks run all or not at all, reads follow the unit's own        *)
(* writes, and the two pools never lock each other up.                     *)
(***************************************************************************)
EXTENDS DbSession, FiniteSetTheorems, TLAPS

-----------------------------------------------------------------------------
(* The inductive invariant *)

(* The history of a unit of work. *)
UnitOK(n) ==
    /\ status[n] = "new" => registered[n] = 0 /\ n \notin dirty
    /\ status[n] \in {"new", "running"} => n \notin saved
    /\ status[n] # "done" => called[n] = 0
    /\ called[n] <= registered[n]

(* Callbacks that are still to be called are those of an open session. *)
ToldOK(n) ==
    status[n] = "done" /\ n \in dirty /\ called[n] # registered[n]
        => \E t \in Tasks : session[t].unit = n

(* Where a task is tells what became of its unit. *)
PhaseOK(t) ==
    LET s == session[t]
    IN  /\ s.unit \in Units
        /\ pc[t] = "body" => status[s.unit] = "running"
        /\ pc[t] = "wait" => \/ status[s.unit] = "running"
                             \/ status[s.unit] = "ended" /\ s.op = "flush"
        /\ pc[t] = "commit" => status[s.unit] = "ended"
        /\ pc[t] \in {"notify", "raised"} => status[s.unit] = "done"
        /\ pc[t] = "rollback" => status[s.unit] = "failed"
        /\ pc[t] = "close" => \/ status[s.unit] \in {"done", "failed"}
                              \/ status[s.unit] = "ended" /\ s.mode = "read"

(* A session knows what its unit has to save and whom to call. *)
WorkOK(t) ==
    LET s == session[t]
    IN  /\ status[s.unit] \in {"running", "ended"} =>
             /\ s.callbacks = registered[s.unit]
             /\ s.unit \in dirty => s.added \/ s.flushed
        /\ pc[t] \in {"notify", "raised"} => called[s.unit] + s.callbacks = registered[s.unit]
        /\ pc[t] = "close" /\ status[s.unit] = "done" => called[s.unit] = registered[s.unit]
        /\ s.mode = "read" => s.unit \notin dirty
        /\ s.flushed => s.unit \in dirty
        /\ s.added /\ s.mode # "read" => s.unit \in dirty
        /\ s.done # {} => pc[t] \notin {"body", "wait"} /\ (pc[t] = "commit" => ~s.added)
        /\ pc[t] = "commit" /\ "WRITE" \in s.done /\ s.flushed => s.unit \in saved

(* A session that holds the primary stays with it. *)
RouteOK(t) ==
    LET s == session[t]
    IN  /\ pc[t] \in {"body", "wait", "commit"} =>
             /\ s.flushed => "WRITE" \in s.conns
             /\ "WRITE" \in s.conns => s.mode = "write" \/ (s.mode = "auto" /\ s.pinned)
        /\ pc[t] = "wait" /\ s.op \in {"flush", "dml"} /\ s.mode = "auto" => s.pinned
        /\ pc[t] = "wait" /\ s.op = "flush" => s.added

ContextOK(t) ==
    context[t] # None =>
        /\ pc[t] # "idle"
        /\ context[t] = session[t].unit
        /\ session[t].way = "auto_scope"
        /\ status[context[t]] = "running"

TaskOK(t) ==
    /\ pc[t] # "idle" => PhaseOK(t) /\ WorkOK(t) /\ RouteOK(t)
    /\ ContextOK(t)

(* No unit has two sessions. *)
OwnUnits ==
    \A t, u \in Tasks :
        pc[t] # "idle" /\ pc[u] # "idle" /\ session[t].unit = session[u].unit => t = u

Inv ==
    /\ TypeOK
    /\ \A n \in Units : UnitOK(n) /\ ToldOK(n)
    /\ \A t \in Tasks : TaskOK(t)
    /\ OwnUnits

LEMMA NoneIsNoUnit == None \notin Units
  BY BoundAssumption

(* A fresh database, and tasks without sessions. *)
LEMMA InitInv == Init => Inv
  <1> SUFFICES ASSUME Init PROVE Inv
    OBVIOUS
  <1>1. NoSession \in Sessions
    BY DEF NoSession, Sessions, Modes, Ways, Engines, Statements
  <1>2. TypeOK
    BY <1>1 DEF Init, TypeOK, Phases, UoW!Statuses
  <1>3. \A n \in Units : UnitOK(n) /\ ToldOK(n)
    BY DEF Init, UnitOK, ToldOK
  <1>4. (\A t \in Tasks : TaskOK(t)) /\ OwnUnits
    BY DEF Init, TaskOK, ContextOK, OwnUnits
  <1> QED BY <1>2, <1>3, <1>4 DEF Inv

-----------------------------------------------------------------------------
(* A step of one task *)

(* Task t, whose unit is n, moves: no other task and no other unit does. *)
Frame(t, n) ==
    /\ \A u \in Tasks \ {t} : pc'[u] = pc[u] /\ session'[u] = session[u] /\ context'[u] = context[u]
    /\ \A m \in Units \ {n} :
          /\ status'[m] = status[m] /\ registered'[m] = registered[m] /\ called'[m] = called[m]
          /\ (m \in dirty' <=> m \in dirty) /\ (m \in saved' <=> m \in saved)

(* What such a step leaves to be shown: the task and the unit that moved. *)
LEMMA Framed ==
    ASSUME Inv, NEW t \in Tasks, NEW n \in Units, Frame(t, n),
           TypeOK', TaskOK(t)', UnitOK(n)', ToldOK(n)',
           session[t].unit \in {n, None}, pc'[t] # "idle" => session'[t].unit = n,
           \A u \in Tasks \ {t} : pc[u] # "idle" => session[u].unit # n
    PROVE  Inv'
  <1>1. ASSUME NEW m \in Units PROVE UnitOK(m)' /\ ToldOK(m)'
    <2>1. CASE m = n
      BY <2>1
    <2>2. CASE m # n
      <3>1. UnitOK(m)'
        BY <2>2 DEF Frame, Inv, UnitOK
      <3>2. ASSUME status'[m] = "done", m \in dirty', called'[m] # registered'[m]
            PROVE  \E u \in Tasks : session'[u].unit = m
        <4>1. PICK u \in Tasks : session[u].unit = m
          BY <2>2, <3>2 DEF Frame, Inv, ToldOK
        <4>2. u # t
          BY <2>2, <4>1, NoneIsNoUnit
        <4> QED BY <4>1, <4>2 DEF Frame
      <3> QED BY <3>1, <3>2 DEF ToldOK
    <2> QED BY <2>1, <2>2
  <1>2. ASSUME NEW u \in Tasks PROVE TaskOK(u)'
    <2>1. CASE u = t
      BY <2>1
    <2>2. CASE u # t
      <3>1. TaskOK(u) /\ pc'[u] = pc[u] /\ session'[u] = session[u] /\ context'[u] = context[u]
        BY <2>2 DEF Frame, Inv
      <3>2. CASE pc[u] = "idle"
        BY <3>1, <3>2 DEF TaskOK, ContextOK
      <3>3. CASE pc[u] # "idle"
        <4>1. session[u].unit \in Units \ {n}
          BY <2>2, <3>1, <3>3 DEF TaskOK, PhaseOK
        <4>2. /\ status'[session[u].unit] = status[session[u].unit]
              /\ registered'[session[u].unit] = registered[session[u].unit]
              /\ called'[session[u].unit] = called[session[u].unit]
              /\ (session[u].unit \in dirty' <=> session[u].unit \in dirty)
              /\ (session[u].unit \in saved' <=> session[u].unit \in saved)
          BY <4>1 DEF Frame
        <4>3. PhaseOK(u)' /\ RouteOK(u)' /\ ContextOK(u)'
          BY <3>1, <3>3, <4>2 DEF TaskOK, PhaseOK, RouteOK, ContextOK
        <4>4. WorkOK(u)'
          BY <3>1, <3>3, <4>2 DEF TaskOK, WorkOK
        <4> QED BY <4>3, <4>4 DEF TaskOK
      <3> QED BY <3>2, <3>3
    <2> QED BY <2>1, <2>2
  <1>3. OwnUnits'
    BY DEF Frame, OwnUnits, Inv
  <1> QED BY <1>1, <1>2, <1>3 DEF Inv

(* What the invariant says of a task that has a session. *)
LEMMA Facts ==
    ASSUME Inv, NEW t \in Tasks, pc[t] # "idle"
    PROVE  /\ session[t] \in Sessions
           /\ session[t].unit \in Units
           /\ PhaseOK(t) /\ WorkOK(t) /\ RouteOK(t) /\ ContextOK(t)
           /\ UnitOK(session[t].unit)
           /\ \A u \in Tasks \ {t} : pc[u] # "idle" => session[u].unit # session[t].unit
  BY DEF Inv, TypeOK, TaskOK, PhaseOK, OwnUnits

(* Only the session's own fields change: what is left to show is about t. *)
LEMMA Moves ==
    ASSUME Inv, NEW t \in Tasks, pc[t] # "idle", NEW n \in Units, session[t].unit = n,
           NEW next \in Phases, NEW s,
           Go(t, next), Update(t, s), s \in Sessions,
           next = "idle" <=> s = NoSession,
           next # "idle" => s.unit = n,
           next = "idle" => status'[n] # "done" \/ n \notin dirty' \/ called'[n] = registered'[n],
           context' \in [Tasks -> Units \cup {None}],
           orphans' \in [Units -> SUBSET Engines],
           status' \in [Units -> UoW!Statuses],
           dirty' \subseteq Units, saved' \subseteq Units,
           registered' \in [Units -> Nat], called' \in [Units -> Nat],
           \A u \in Tasks \ {t} : context'[u] = context[u],
           \A m \in Units \ {n} :
              /\ status'[m] = status[m] /\ registered'[m] = registered[m] /\ called'[m] = called[m]
              /\ (m \in dirty' <=> m \in dirty) /\ (m \in saved' <=> m \in saved),
           pc'[t] = next /\ session'[t] = s => TaskOK(t)' /\ UnitOK(n)'
    PROVE  Inv'
  <1>0. pc \in [Tasks -> Phases] /\ session \in [Tasks -> Sessions]
    BY DEF Inv, TypeOK
  <1>1. /\ pc' = [pc EXCEPT ![t] = next] /\ session' = [session EXCEPT ![t] = s]
        /\ pc'[t] = next /\ session'[t] = s
        /\ pc' \in [Tasks -> Phases] /\ session' \in [Tasks -> Sessions]
    BY <1>0 DEF Go, Update
  <1>2. Frame(t, n)
    BY <1>0, <1>1 DEF Frame
  <1>3. \A u \in Tasks : pc'[u] = "idle" <=> session'[u] = NoSession
    BY <1>0, <1>1 DEF Inv, TypeOK
  <1>4. TypeOK'
    BY <1>1, <1>3 DEF TypeOK
  <1>5. \A u \in Tasks \ {t} : pc[u] # "idle" => session[u].unit # n
    BY Facts
  <1>6. ToldOK(n)'
    BY <1>1 DEF ToldOK
  <1> QED BY <1>1, <1>2, <1>4, <1>5, <1>6, Framed

LEMMA NoSessionType == NoSession \in Sessions /\ NoSession.unit = None
  BY DEF NoSession, Sessions, Modes, Ways, Engines, Statements

(* factory() *)
LEMMA OpenStep ==
    ASSUME Inv, NEW t \in Tasks, NEW how \in OpenedAs, Open(t, how[1], how[2])
    PROVE  Inv'
  <1>1. how[1] \in Modes /\ how[2] \in Ways
    BY OpenedAssumption
  <1>2. PICK n \in Units :
          /\ status[n] = "new"
          /\ Update(t, [NoSession EXCEPT !.unit = n, !.mode = how[1], !.way = how[2]])
          /\ EnterScope(t, n, how[2])
          /\ status' = [status EXCEPT ![n] = "running"]
    BY DEF Open
  <1> DEFINE s == [NoSession EXCEPT !.unit = n, !.mode = how[1], !.way = how[2]]
  <1>3. /\ s \in Sessions /\ s.unit = n /\ s.way = how[2] /\ s.callbacks = 0 /\ s.conns = {}
        /\ s.done = {} /\ s.added = FALSE /\ s.flushed = FALSE
    BY <1>1 DEF NoSession, Sessions, Modes, Ways, Engines, Statements
  <1>4. /\ pc \in [Tasks -> Phases] /\ session \in [Tasks -> Sessions]
        /\ context \in [Tasks -> Units \cup {None}] /\ status \in [Units -> UoW!Statuses]
    BY DEF Inv, TypeOK
  <1>5. pc' = [pc EXCEPT ![t] = "body"] /\ session' = [session EXCEPT ![t] = s]
    BY <1>2 DEF Open, Go, Update
  <1>6. pc'[t] = "body" /\ session'[t] = s /\ status'[n] = "running"
    BY <1>2, <1>4, <1>5
  <1> HIDE DEF s
  <1>7. /\ context' \in [Tasks -> Units \cup {None}]
        /\ \A u \in Tasks \ {t} : context'[u] = context[u]
        /\ context'[t] # None => context'[t] = n /\ how[2] = "auto_scope"
    <2>1. context[t] = None
      BY DEF Open, Inv, TaskOK, ContextOK
    <2>2. CASE how[2] = "auto_scope"
      BY <1>2, <1>4, <2>2 DEF EnterScope
    <2>3. CASE how[2] # "auto_scope"
      BY <1>2, <1>4, <2>1, <2>3 DEF EnterScope
    <2> QED BY <2>2, <2>3
  <1>8. ASSUME NEW u \in Tasks \ {t}, pc[u] # "idle" PROVE session[u].unit # n
    <2>1. PhaseOK(u) /\ pc[u] \in Phases
      BY <1>4, <1>8 DEF Inv, TaskOK
    <2> QED BY <1>2, <1>8, <2>1 DEF PhaseOK, Phases
  <1>9. UNCHANGED <<orphans, dirty, saved, registered, called>>
    BY DEF Open
  <1>10. Frame(t, n)
    BY <1>2, <1>4, <1>5, <1>7, <1>9 DEF Frame
  <1>11. UnitOK(n)' /\ registered'[n] = 0 /\ n \notin dirty'
    BY <1>2, <1>6, <1>9 DEF Inv, UnitOK
  <1>12. TaskOK(t)'
    <2>1. PhaseOK(t)'
      BY <1>3, <1>6 DEF PhaseOK
    <2>2. WorkOK(t)'
      BY <1>3, <1>6, <1>11 DEF WorkOK
    <2>3. RouteOK(t)'
      BY <1>3, <1>6 DEF RouteOK
    <2>4. ContextOK(t)'
      BY <1>3, <1>6, <1>7 DEF ContextOK
    <2> QED BY <2>1, <2>2, <2>3, <2>4 DEF TaskOK
  <1>13. TypeOK'
    <2>1. s # NoSession
      BY <1>3, NoSessionType, NoneIsNoUnit
    <2>2. \A u \in Tasks : pc'[u] = "idle" <=> session'[u] = NoSession
      BY <1>4, <1>5, <2>1 DEF Inv, TypeOK
    <2>3. pc' \in [Tasks -> Phases] /\ session' \in [Tasks -> Sessions] /\ status' \in [Units -> UoW!Statuses]
      BY <1>2, <1>3, <1>4, <1>5 DEF Phases, UoW!Statuses
    <2> QED BY <1>7, <1>9, <2>2, <2>3 DEF TypeOK, Inv
  <1>14. ToldOK(n)'
    BY <1>6 DEF ToldOK
  <1>15. session[t].unit = None
    BY NoSessionType DEF Open, Inv, TypeOK
  <1> QED BY <1>3, <1>6, <1>8, <1>10, <1>11, <1>12, <1>13, <1>14, <1>15, Framed

(* The types of the variables. *)
LEMMA Types ==
    ASSUME Inv
    PROVE  /\ pc \in [Tasks -> Phases] /\ session \in [Tasks -> Sessions]
           /\ context \in [Tasks -> Units \cup {None}] /\ orphans \in [Units -> SUBSET Engines]
           /\ status \in [Units -> UoW!Statuses] /\ dirty \subseteq Units /\ saved \subseteq Units
           /\ registered \in [Units -> Nat] /\ called \in [Units -> Nat]
  BY DEF Inv, TypeOK

LEMMA HasUnit == ASSUME NEW s, s.unit \in Units PROVE s # NoSession
  BY NoSessionType, NoneIsNoUnit

LEMMA Stays == ASSUME Inv, NEW t \in Tasks, UNCHANGED pc PROVE Go(t, pc[t])
  BY Types DEF Go

(* session.add *)
LEMMA AddStep ==
    ASSUME Inv, NEW t \in Tasks, Add(t)
    PROVE  Inv'
  <1> DEFINE s == [session[t] EXCEPT !.added = TRUE]
  <1>1. pc[t] = "body" /\ Go(t, "body") /\ Update(t, s)
    BY Stays DEF Add
  <1>2. PICK n \in Units : session[t].unit = n
    BY <1>1, Facts
  <1>3. /\ s \in Sessions /\ s.unit = n /\ s.added = TRUE
        /\ \A f \in {"mode", "way", "pinned", "conns", "flushed", "callbacks", "op", "done"} : s[f] = session[t][f]
    BY <1>1, <1>2, Facts DEF Sessions
  <1>4. s # NoSession
    BY <1>3, HasUnit
  <1>5. /\ UNCHANGED <<context, orphans, status, saved, registered, called>>
        /\ dirty' = IF session[t].mode = "read" THEN dirty ELSE dirty \cup {n}
    BY <1>2 DEF Add
  <1>6. ASSUME pc'[t] = "body", session'[t] = s PROVE TaskOK(t)' /\ UnitOK(n)'
    <2> HIDE DEF s
    <2>1. PhaseOK(t) /\ WorkOK(t) /\ RouteOK(t) /\ ContextOK(t) /\ UnitOK(n)
      BY <1>1, <1>2, Facts
    <2>2. PhaseOK(t)' /\ RouteOK(t)' /\ ContextOK(t)'
      BY <1>1, <1>2, <1>3, <1>5, <1>6, <2>1 DEF PhaseOK, RouteOK, ContextOK
    <2>3. WorkOK(t)'
      BY <1>1, <1>2, <1>3, <1>5, <1>6, <2>1 DEF PhaseOK, WorkOK
    <2>4. UnitOK(n)'
      BY <1>1, <1>2, <1>5, <2>1 DEF PhaseOK, UnitOK
    <2> QED BY <2>2, <2>3, <2>4 DEF TaskOK
  <1> HIDE DEF s
  <1> QED BY <1>1, <1>2, <1>3, <1>4, <1>5, <1>6, Types, Moves DEF Phases

(* CallBackAfterCommit.register *)
LEMMA RegisterStep ==
    ASSUME Inv, NEW t \in Tasks, Register(t)
    PROVE  Inv'
  <1> DEFINE s == [session[t] EXCEPT !.callbacks = @ + 1]
  <1>1. pc[t] = "body" /\ Go(t, "body") /\ Update(t, s)
    BY Stays DEF Register
  <1>2. PICK n \in Units : session[t].unit = n
    BY <1>1, Facts
  <1>3. /\ s \in Sessions /\ s.unit = n /\ s.callbacks = session[t].callbacks + 1
        /\ \A f \in {"mode", "way", "pinned", "conns", "added", "flushed", "op", "done"} : s[f] = session[t][f]
    BY <1>1, <1>2, Facts DEF Sessions
  <1>4. s # NoSession
    BY <1>3, HasUnit
  <1>5. /\ UNCHANGED <<context, orphans, status, dirty, saved, called>>
        /\ registered' = [registered EXCEPT ![n] = @ + 1]
    BY <1>2 DEF Register
  <1>6. registered' \in [Units -> Nat] /\ registered'[n] = registered[n] + 1
    BY <1>5, Types
  <1>8. called[n] <= registered[n] => called[n] <= registered'[n]
    BY <1>6, Types
  <1>7. ASSUME pc'[t] = "body", session'[t] = s PROVE TaskOK(t)' /\ UnitOK(n)'
    <2> HIDE DEF s
    <2>1. PhaseOK(t) /\ WorkOK(t) /\ RouteOK(t) /\ ContextOK(t) /\ UnitOK(n)
      BY <1>1, <1>2, Facts
    <2>2. PhaseOK(t)' /\ RouteOK(t)' /\ ContextOK(t)'
      BY <1>1, <1>2, <1>3, <1>5, <1>7, <2>1 DEF PhaseOK, RouteOK, ContextOK
    <2>3. WorkOK(t)'
      BY <1>1, <1>2, <1>3, <1>5, <1>6, <1>7, <2>1 DEF PhaseOK, WorkOK
    <2>4. UnitOK(n)'
      BY <1>1, <1>2, <1>5, <1>8, <2>1 DEF PhaseOK, UnitOK
    <2> QED BY <2>2, <2>3, <2>4 DEF TaskOK
  <1> HIDE DEF s
  <1> QED BY <1>1, <1>2, <1>3, <1>4, <1>5, <1>6, <1>7, Types, Moves DEF Phases

(* A statement, or the flush of a commit. *)
LEMMA StatementStep ==
    ASSUME Inv, NEW t \in Tasks, NEW op \in Statements, Statement(t, op)
    PROVE  Inv'
  <1> DEFINE s == [session[t] EXCEPT !.op = op, !.pinned = @ \/ Pins(session[t], op)]
  <1>1. /\ pc[t] = "body" \/ (pc[t] = "commit" /\ op = "flush")
        /\ op = "flush" => session[t].added
        /\ Go(t, "wait") /\ Update(t, s)
    BY DEF Statement
  <1>2. PICK n \in Units : session[t].unit = n
    BY <1>1, Facts
  <1>3. Pins(session[t], op) \in BOOLEAN
    BY DEF Pins
  <1>4. /\ s \in Sessions /\ s.unit = n /\ s.op = op
        /\ s.pinned <=> (session[t].pinned \/ Pins(session[t], op))
        /\ \A f \in {"mode", "way", "conns", "added", "flushed", "callbacks", "done"} : s[f] = session[t][f]
    BY <1>1, <1>2, <1>3, Facts DEF Sessions
  <1>5. s # NoSession
    BY <1>4, HasUnit
  <1>6. UNCHANGED <<context, orphans, unit>>
    BY DEF Statement
  <1>7. ASSUME pc'[t] = "wait", session'[t] = s PROVE TaskOK(t)' /\ UnitOK(n)'
    <2> HIDE DEF s
    <2>1. PhaseOK(t) /\ WorkOK(t) /\ RouteOK(t) /\ ContextOK(t) /\ UnitOK(n)
      BY <1>1, <1>2, Facts
    <2>2. PhaseOK(t)' /\ ContextOK(t)'
      BY <1>1, <1>2, <1>4, <1>6, <1>7, <2>1 DEF unit, PhaseOK, ContextOK
    <2>3. WorkOK(t)'
      BY <1>1, <1>2, <1>4, <1>6, <1>7, <2>1 DEF unit, PhaseOK, WorkOK
    <2>4. RouteOK(t)'
      BY <1>1, <1>2, <1>4, <1>7, <2>1 DEF RouteOK, Pins
    <2>5. UnitOK(n)'
      BY <1>6, <2>1 DEF unit, UnitOK
    <2> QED BY <2>2, <2>3, <2>4, <2>5 DEF TaskOK
  <1> HIDE DEF s
  <1> QED BY <1>1, <1>2, <1>4, <1>5, <1>6, <1>7, Types, Moves DEF Phases, unit

(* Where a statement goes, and what may run there. *)
LEMMA Routes ==
    ASSUME Inv, NEW t \in Tasks, pc[t] = "wait"
    PROVE  /\ Target(t) \in Engines
           /\ Target(t) = "WRITE" => \/ session[t].mode = "write"
                                     \/ session[t].mode = "auto" /\ session[t].pinned
           /\ "WRITE" \in session[t].conns => Target(t) = "WRITE"
           /\ session[t].mode = "read" => Target(t) = "READ"
  <1>1. session[t].mode \in Modes /\ RouteOK(t)
    BY Facts DEF Sessions
  <1> QED BY <1>1 DEF RouteOK, Target, Bind, Modes, Engines

(* The statement runs. *)
LEMMA ExecuteStep ==
    ASSUME Inv, NEW t \in Tasks, Execute(t)
    PROVE  Inv'
  <1> DEFINE e == Target(t)
             s == [session[t] EXCEPT !.conns = @ \cup {e}, !.added = @ /\ session[t].op # "flush",
                                     !.flushed = @ \/ session[t].op # "select", !.op = "select"]
             next == IF status[session[t].unit] = "ended" THEN "commit" ELSE "body"
  <1>1. pc[t] = "wait" /\ ~Refused(t) /\ Go(t, next) /\ Update(t, s)
    BY DEF Execute
  <1>2. PICK n \in Units : session[t].unit = n
    BY <1>1, Facts
  <1>3. /\ e \in Engines
        /\ e = "WRITE" => session[t].mode = "write" \/ (session[t].mode = "auto" /\ session[t].pinned)
        /\ session[t].op # "select" => e = "WRITE"
        /\ session[t].mode = "read" => e = "READ"
    BY <1>1, Routes DEF Refused, Engines
  <1>4. /\ s \in Sessions /\ s.unit = n /\ s.op = "select" /\ s.conns = session[t].conns \cup {e}
        /\ s.added <=> (session[t].added /\ session[t].op # "flush")
        /\ s.flushed <=> (session[t].flushed \/ session[t].op # "select")
        /\ \A f \in {"mode", "way", "pinned", "callbacks", "done"} : s[f] = session[t][f]
    <2>1. session[t] \in Sessions /\ session[t].unit = n /\ e \in Engines
      BY <1>1, <1>2, <1>3, Facts
    <2> HIDE DEF e
    <2>2. s \in Sessions
      BY <2>1 DEF Sessions, Statements
    <2>3. s.unit = n /\ s.op = "select" /\ s.conns = session[t].conns \cup {e}
      BY <2>1 DEF Sessions
    <2>4. /\ s.added <=> (session[t].added /\ session[t].op # "flush")
          /\ s.flushed <=> (session[t].flushed \/ session[t].op # "select")
      BY <2>1 DEF Sessions
    <2>5. \A f \in {"mode", "way", "pinned", "callbacks", "done"} : s[f] = session[t][f]
      BY <2>1 DEF Sessions
    <2> QED BY <2>2, <2>3, <2>4, <2>5
  <1>5. s # NoSession
    BY <1>4, HasUnit
  <1>6. /\ UNCHANGED <<context, orphans, status, saved, registered, called>>
        /\ dirty' = IF session[t].op # "select" THEN dirty \cup {n} ELSE dirty
    BY <1>2 DEF Execute
  <1>7. next \in {"commit", "body"} /\ (next = "commit" <=> status[n] = "ended")
    BY <1>2
  <1>8. ASSUME pc'[t] = next, session'[t] = s PROVE TaskOK(t)' /\ UnitOK(n)'
    <2> HIDE DEF s, e, next
    <2>1. PhaseOK(t) /\ WorkOK(t) /\ RouteOK(t) /\ ContextOK(t) /\ UnitOK(n)
      BY <1>1, <1>2, Facts
    <2>2. status[n] \in {"running", "ended"} /\ status'[n] = status[n]
      BY <1>1, <1>2, <1>6, <2>1 DEF PhaseOK
    <2>3. PhaseOK(t)' /\ ContextOK(t)'
      BY <1>1, <1>2, <1>4, <1>6, <1>7, <1>8, <2>1, <2>2 DEF PhaseOK, ContextOK
    <2>4. WorkOK(t)'
      BY <1>1, <1>2, <1>3, <1>4, <1>6, <1>7, <1>8, <2>1, <2>2 DEF WorkOK
    <2>5. RouteOK(t)'
      BY <1>1, <1>3, <1>4, <1>7, <1>8, <2>1 DEF RouteOK
    <2>6. UnitOK(n)'
      BY <1>6, <2>1, <2>2 DEF UnitOK
    <2> QED BY <2>3, <2>4, <2>5, <2>6 DEF TaskOK
  <1> HIDE DEF s, e, next
  <1> QED BY <1>1, <1>2, <1>4, <1>5, <1>6, <1>7, <1>8, Types, Moves DEF Phases

(* A unit that ends. *)
LEMMA Ended ==
    ASSUME Inv, NEW t \in Tasks, NEW n \in Units, session[t].unit = n,
           NEW outcome \in UoW!Statuses, Ends(t, outcome)
    PROVE  /\ status' \in [Units -> UoW!Statuses] /\ status'[n] = outcome
           /\ \A m \in Units \ {n} : status'[m] = status[m]
  BY Types DEF Ends

(* Whatever way the session was opened, its scope is left. *)
LEMMA Left ==
    ASSUME Inv, NEW t \in Tasks, pc[t] # "idle", LeaveScope(t)
    PROVE  /\ context' \in [Tasks -> Units \cup {None}] /\ context'[t] = None
           /\ \A u \in Tasks \ {t} : context'[u] = context[u]
  <1>1. CASE session[t].way = "auto_scope"
    BY <1>1, Types DEF LeaveScope
  <1>2. CASE session[t].way # "auto_scope"
    BY <1>2, Types, Facts DEF LeaveScope, ContextOK
  <1> QED BY <1>1, <1>2

LEMMA Keeps == ASSUME Inv, NEW t \in Tasks, UNCHANGED session PROVE Update(t, session[t])
  BY Types DEF Update

(* The body is over. *)
LEMMA BodyEndsStep ==
    ASSUME Inv, NEW t \in Tasks, BodyEnds(t)
    PROVE  Inv'
  <1> DEFINE next == IF session[t].mode = "read" THEN "close" ELSE "commit"
  <1>1. /\ pc[t] = "body" /\ Go(t, next) /\ Update(t, session[t])
        /\ UNCHANGED <<session, orphans, dirty, saved, registered, called>>
    BY Keeps DEF BodyEnds
  <1>2. PICK n \in Units : session[t].unit = n
    BY <1>1, Facts
  <1>3. /\ status' \in [Units -> UoW!Statuses] /\ status'[n] = "ended"
        /\ \A m \in Units \ {n} : status'[m] = status[m]
    BY <1>2, Ended DEF BodyEnds, UoW!Statuses
  <1>4. /\ context' \in [Tasks -> Units \cup {None}] /\ context'[t] = None
        /\ \A u \in Tasks \ {t} : context'[u] = context[u]
    BY <1>1, Left DEF BodyEnds
  <1>5. ASSUME pc'[t] = next, session'[t] = session[t] PROVE TaskOK(t)' /\ UnitOK(n)'
    <2>1. PhaseOK(t) /\ WorkOK(t) /\ RouteOK(t) /\ UnitOK(n)
      BY <1>1, <1>2, Facts
    <2>2. PhaseOK(t)' /\ RouteOK(t)' /\ ContextOK(t)'
      BY <1>1, <1>2, <1>3, <1>4, <1>5, <2>1 DEF PhaseOK, RouteOK, ContextOK
    <2>3. WorkOK(t)'
      BY <1>1, <1>2, <1>3, <1>5, <2>1 DEF PhaseOK, WorkOK
    <2>4. UnitOK(n)'
      BY <1>1, <1>2, <1>3, <2>1 DEF PhaseOK, UnitOK
    <2> QED BY <2>2, <2>3, <2>4 DEF TaskOK
  <1>6. session[t] \in Sessions /\ session[t] # NoSession
    BY <1>1, <1>2, Facts, HasUnit
  <1> QED BY <1>1, <1>2, <1>3, <1>4, <1>5, <1>6, Types, Moves DEF Phases

(* The body raises or is cancelled. *)
LEMMA BodyFailsStep ==
    ASSUME Inv, NEW t \in Tasks, NEW next \in {"rollback", "close"}, BodyFails(t, next)
    PROVE  Inv'
  <1>1. /\ pc[t] \in {"body", "wait"} /\ status[session[t].unit] = "running"
        /\ UNCHANGED <<dirty, saved, registered, called>>
    BY DEF BodyFails
  <1>2. PICK n \in Units : session[t].unit = n
    BY <1>1, Facts
  <1>3. /\ status' \in [Units -> UoW!Statuses] /\ status'[n] = "failed"
        /\ \A m \in Units \ {n} : status'[m] = status[m]
    BY <1>2, Ended DEF BodyFails, UoW!Statuses
  <1>4. /\ context' \in [Tasks -> Units \cup {None}] /\ context'[t] = None
        /\ \A u \in Tasks \ {t} : context'[u] = context[u]
    BY <1>1, Left DEF BodyFails
  <1>5. PhaseOK(t) /\ WorkOK(t) /\ UnitOK(n) /\ session[t] \in Sessions
    BY <1>1, <1>2, Facts
  <1>6. UnitOK(n)'
    BY <1>1, <1>2, <1>3, <1>5 DEF UnitOK
  <1>7. CASE session[t].way = "db_session"
    <2>1. /\ Go(t, "idle") /\ Update(t, NoSession)
          /\ orphans' = [orphans EXCEPT ![n] = session[t].conns]
      BY <1>2, <1>7 DEF BodyFails, Abandon
    <2>2. orphans' \in [Units -> SUBSET Engines]
      BY <1>5, <2>1, Types DEF Sessions
    <2>3. ASSUME pc'[t] = "idle" PROVE TaskOK(t)'
      BY <1>4, <2>3 DEF TaskOK, ContextOK
    <2> QED BY <1>1, <1>2, <1>3, <1>4, <1>6, <2>1, <2>2, <2>3, NoSessionType, Types, Moves DEF Phases
  <1>8. CASE session[t].way # "db_session"
    <2>1. Go(t, next) /\ Update(t, session[t]) /\ UNCHANGED <<session, orphans>>
      BY <1>8, Keeps DEF BodyFails
    <2>2. ASSUME pc'[t] = next, session'[t] = session[t] PROVE TaskOK(t)'
      <3>1. PhaseOK(t)' /\ RouteOK(t)' /\ ContextOK(t)'
        BY <1>2, <1>3, <1>4, <2>2 DEF PhaseOK, RouteOK, ContextOK
      <3>2. WorkOK(t)'
        BY <1>1, <1>2, <1>3, <1>5, <2>2 DEF WorkOK
      <3> QED BY <3>1, <3>2 DEF TaskOK
    <2>3. session[t] # NoSession
      BY <1>2, HasUnit
    <2> QED BY <1>1, <1>2, <1>3, <1>4, <1>5, <1>6, <2>1, <2>2, <2>3, Types, Moves DEF Phases
  <1> QED BY <1>7, <1>8

(* One connection is committed. *)
LEMMA CommitConnStep ==
    ASSUME Inv, NEW t \in Tasks, NEW e \in Engines, CommitConn(t, e)
    PROVE  Inv'
  <1> DEFINE s == [session[t] EXCEPT !.done = @ \cup {e}]
  <1>1. pc[t] = "commit" /\ Go(t, "commit") /\ Update(t, s) /\ ~session[t].added
    BY Stays DEF CommitConn
  <1>2. PICK n \in Units : session[t].unit = n
    BY <1>1, Facts
  <1>3. /\ s \in Sessions /\ s.unit = n /\ s.done = session[t].done \cup {e}
        /\ \A f \in {"mode", "way", "pinned", "conns", "added", "flushed", "callbacks", "op"} : s[f] = session[t][f]
    BY <1>1, <1>2, Facts DEF Sessions
  <1>4. s # NoSession
    BY <1>3, HasUnit
  <1>5. /\ UNCHANGED <<context, orphans, status, dirty, registered, called>>
        /\ saved' = IF e = "WRITE" /\ session[t].flushed THEN saved \cup {n} ELSE saved
    BY <1>2 DEF CommitConn
  <1>6. ASSUME pc'[t] = "commit", session'[t] = s PROVE TaskOK(t)' /\ UnitOK(n)'
    <2> HIDE DEF s
    <2>1. PhaseOK(t) /\ WorkOK(t) /\ RouteOK(t) /\ ContextOK(t) /\ UnitOK(n)
      BY <1>1, <1>2, Facts
    <2>2. PhaseOK(t)' /\ RouteOK(t)' /\ ContextOK(t)'
      BY <1>1, <1>2, <1>3, <1>5, <1>6, <2>1 DEF PhaseOK, RouteOK, ContextOK
    <2>3. WorkOK(t)'
      BY <1>1, <1>2, <1>3, <1>5, <1>6, <2>1 DEF PhaseOK, WorkOK
    <2>4. UnitOK(n)'
      BY <1>1, <1>2, <1>5, <2>1 DEF PhaseOK, UnitOK
    <2> QED BY <2>2, <2>3, <2>4 DEF TaskOK
  <1> HIDE DEF s
  <1> QED BY <1>1, <1>2, <1>3, <1>4, <1>5, <1>6, Types, Moves DEF Phases

(* Everything is committed, and the callbacks are to be called. *)
LEMMA CommittedStep ==
    ASSUME Inv, NEW t \in Tasks, Committed(t)
    PROVE  Inv'
  <1> DEFINE s == [session[t] EXCEPT !.conns = {}]
  <1>1. pc[t] = "commit" /\ Go(t, "notify") /\ Update(t, s)
    BY DEF Committed
  <1>2. PICK n \in Units : session[t].unit = n
    BY <1>1, Facts
  <1>3. /\ s \in Sessions /\ s.unit = n /\ s.conns = {}
        /\ \A f \in {"mode", "way", "pinned", "added", "flushed", "callbacks", "op", "done"} : s[f] = session[t][f]
    BY <1>1, <1>2, Facts DEF Sessions
  <1>4. s # NoSession
    BY <1>3, HasUnit
  <1>5. /\ status' \in [Units -> UoW!Statuses] /\ status'[n] = "done"
        /\ \A m \in Units \ {n} : status'[m] = status[m]
    BY <1>2, Ended DEF Committed, UoW!Statuses
  <1>6. /\ PhaseOK(t) /\ WorkOK(t) /\ ContextOK(t) /\ UnitOK(n)
        /\ session[t].callbacks = registered[n] /\ status[n] = "ended" /\ called[n] = 0
    BY <1>1, <1>2, Facts DEF PhaseOK, WorkOK, UnitOK
  <1>7. UNCHANGED <<context, orphans, dirty, saved, registered, called>>
    BY DEF Committed
  <1>8. called[n] + s.callbacks = registered[n]
    BY <1>3, <1>6, Types
  <1>9. ASSUME pc'[t] = "notify", session'[t] = s PROVE TaskOK(t)' /\ UnitOK(n)'
    <2> HIDE DEF s
    <2>1. PhaseOK(t)' /\ RouteOK(t)' /\ ContextOK(t)'
      BY <1>2, <1>3, <1>5, <1>6, <1>7, <1>9 DEF PhaseOK, RouteOK, ContextOK
    <2>2. WorkOK(t)'
      BY <1>2, <1>3, <1>5, <1>6, <1>7, <1>8, <1>9 DEF WorkOK
    <2>3. UnitOK(n)'
      BY <1>5, <1>6, <1>7 DEF UnitOK
    <2> QED BY <2>1, <2>2, <2>3 DEF TaskOK
  <1> HIDE DEF s
  <1> QED BY <1>1, <1>2, <1>3, <1>4, <1>5, <1>7, <1>9, Types, Moves DEF Phases

(* A callback is called: it returns or raises. *)
LEMMA CallbackStep ==
    ASSUME Inv, NEW t \in Tasks, Callback(t)
    PROVE  Inv'
  <1> DEFINE s == [session[t] EXCEPT !.callbacks = @ - 1]
  <1>1. pc[t] = "notify" /\ session[t].callbacks > 0 /\ Update(t, s)
    BY DEF Callback
  <1>2. PICK next \in {"notify", "raised"} : Go(t, next)
    BY <1>1, Stays DEF Callback
  <1>3. PICK n \in Units : session[t].unit = n
    BY <1>1, Facts
  <1>4. session[t] \in Sessions /\ session[t].callbacks \in Nat
    BY <1>1, Facts DEF Sessions
  <1>5. /\ s \in Sessions /\ s.unit = n /\ s.callbacks = session[t].callbacks - 1
        /\ \A f \in {"mode", "way", "pinned", "conns", "added", "flushed", "op", "done"} : s[f] = session[t][f]
    BY <1>1, <1>3, <1>4 DEF Sessions
  <1>6. s # NoSession
    BY <1>5, HasUnit
  <1>7. /\ UNCHANGED <<context, orphans, status, dirty, saved, registered>>
        /\ called' = [called EXCEPT ![n] = @ + 1]
    BY <1>3 DEF Callback
  <1>8. called' \in [Units -> Nat] /\ called'[n] = called[n] + 1
    BY <1>7, Types
  <1>9. PhaseOK(t) /\ WorkOK(t) /\ ContextOK(t) /\ UnitOK(n) /\ status[n] = "done"
    BY <1>1, <1>3, Facts DEF PhaseOK
  <1>10. called[n] + session[t].callbacks = registered[n]
    BY <1>1, <1>3, <1>9 DEF WorkOK
  <1>11. called'[n] + s.callbacks = registered[n] /\ called'[n] <= registered[n]
    <2> HIDE DEF s
    <2> QED BY <1>1, <1>4, <1>5, <1>8, <1>10, Types
  <1>12. ASSUME pc'[t] = next, session'[t] = s PROVE TaskOK(t)' /\ UnitOK(n)'
    <2> HIDE DEF s
    <2>1. PhaseOK(t)' /\ RouteOK(t)' /\ ContextOK(t)'
      BY <1>1, <1>2, <1>3, <1>5, <1>7, <1>9, <1>12 DEF PhaseOK, RouteOK, ContextOK
    <2>2. WorkOK(t)'
      BY <1>1, <1>2, <1>3, <1>5, <1>7, <1>9, <1>11, <1>12 DEF WorkOK
    <2>3. UnitOK(n)'
      BY <1>7, <1>9, <1>11 DEF UnitOK
    <2> QED BY <2>1, <2>2, <2>3 DEF TaskOK
  <1> HIDE DEF s
  <1> QED BY <1>1, <1>2, <1>3, <1>5, <1>6, <1>7, <1>8, <1>12, Types, Moves DEF Phases

(* What it raised is logged, or the last has been called. *)
LEMMA LoopStep ==
    ASSUME Inv, NEW t \in Tasks, CallbackLogged(t) \/ Notified(t)
    PROVE  Inv'
  <1>1. PICK next \in {"notify", "close"} :
          /\ pc[t] \in {"notify", "raised"} /\ Go(t, next)
          /\ next = "close" => session[t].callbacks = 0
    BY DEF CallbackLogged, Notified
  <1>2. UNCHANGED <<session, context, orphans, unit>> /\ Update(t, session[t])
    BY Keeps DEF CallbackLogged, Notified
  <1>3. PICK n \in Units : session[t].unit = n
    BY <1>1, Facts
  <1>4. PhaseOK(t) /\ WorkOK(t) /\ ContextOK(t) /\ UnitOK(n) /\ session[t] \in Sessions /\ status[n] = "done"
    BY <1>1, <1>3, Facts DEF PhaseOK
  <1>5. called[n] + session[t].callbacks = registered[n]
    BY <1>1, <1>3, <1>4 DEF WorkOK
  <1>6. next = "close" => called[n] = registered[n]
    BY <1>1, <1>5, Types
  <1>7. ASSUME pc'[t] = next, session'[t] = session[t] PROVE TaskOK(t)' /\ UnitOK(n)'
    <2>1. PhaseOK(t)' /\ RouteOK(t)' /\ ContextOK(t)'
      BY <1>1, <1>2, <1>3, <1>4, <1>7 DEF PhaseOK, RouteOK, ContextOK, unit
    <2>2. WorkOK(t)'
      BY <1>1, <1>2, <1>3, <1>4, <1>5, <1>6, <1>7 DEF WorkOK, unit
    <2>3. UnitOK(n)'
      BY <1>2, <1>4 DEF UnitOK, unit
    <2> QED BY <2>1, <2>2, <2>3 DEF TaskOK
  <1>8. session[t] # NoSession
    BY <1>3, HasUnit
  <1> QED BY <1>1, <1>2, <1>3, <1>4, <1>7, <1>8, Types, Moves DEF Phases, unit

(* The commit raises or is cancelled. *)
LEMMA CommitBreaksStep ==
    ASSUME Inv, NEW t \in Tasks, NEW next \in {"rollback", "close"}, CommitBreaks(t, next)
    PROVE  Inv'
  <1>1. /\ pc[t] \in {"wait", "commit"} /\ status[session[t].unit] = "ended"
        /\ Go(t, next) /\ Update(t, session[t])
        /\ UNCHANGED <<session, context, orphans, dirty, registered, called>>
    BY Keeps DEF CommitBreaks
  <1>2. PICK n \in Units : session[t].unit = n
    BY <1>1, Facts
  <1>3. /\ status' \in [Units -> UoW!Statuses] /\ status'[n] = "failed"
        /\ \A m \in Units \ {n} : status'[m] = status[m]
    BY <1>2, Ended DEF CommitBreaks, UoW!Statuses
  <1>4. saved' \in {saved, saved \cup {n}}
    BY <1>2 DEF CommitBreaks
  <1>5. PhaseOK(t) /\ WorkOK(t) /\ ContextOK(t) /\ UnitOK(n) /\ session[t] \in Sessions
    BY <1>1, <1>2, Facts
  <1>6. ASSUME pc'[t] = next, session'[t] = session[t] PROVE TaskOK(t)' /\ UnitOK(n)'
    <2>1. PhaseOK(t)' /\ RouteOK(t)' /\ ContextOK(t)'
      BY <1>1, <1>2, <1>3, <1>5, <1>6 DEF PhaseOK, RouteOK, ContextOK
    <2>2. WorkOK(t)'
      BY <1>1, <1>2, <1>3, <1>5, <1>6 DEF WorkOK
    <2>3. UnitOK(n)'
      BY <1>1, <1>2, <1>3, <1>5 DEF UnitOK
    <2> QED BY <2>1, <2>2, <2>3 DEF TaskOK
  <1>7. session[t] # NoSession
    BY <1>2, HasUnit
  <1> QED BY <1>1, <1>2, <1>3, <1>4, <1>5, <1>6, <1>7, Types, Moves DEF Phases

(* The rollback succeeds or raises. *)
LEMMA RollbackStep ==
    ASSUME Inv, NEW t \in Tasks, Rollback(t)
    PROVE  Inv'
  <1>1. pc[t] = "rollback" /\ Go(t, "close") /\ UNCHANGED <<context, orphans, unit>>
    BY DEF Rollback
  <1>2. PICK n \in Units : session[t].unit = n
    BY <1>1, Facts
  <1>3. PhaseOK(t) /\ WorkOK(t) /\ ContextOK(t) /\ UnitOK(n) /\ session[t] \in Sessions
    BY <1>1, <1>2, Facts
  <1>4. PICK s \in {session[t], [session[t] EXCEPT !.conns = {}, !.callbacks = 0]} : Update(t, s)
    BY Keeps DEF Rollback
  <1>5. /\ s \in Sessions /\ s.unit = n
        /\ \A f \in {"mode", "way", "pinned", "added", "flushed", "op", "done"} : s[f] = session[t][f]
    <2>1. CASE s = session[t]
      BY <1>2, <1>3, <2>1
    <2>2. CASE s = [session[t] EXCEPT !.conns = {}, !.callbacks = 0]
      BY <1>2, <1>3, <2>2 DEF Sessions
    <2> QED BY <1>4, <2>1, <2>2
  <1>6. s # NoSession
    BY <1>5, HasUnit
  <1>7. ASSUME pc'[t] = "close", session'[t] = s PROVE TaskOK(t)' /\ UnitOK(n)'
    <2>1. PhaseOK(t)' /\ RouteOK(t)' /\ ContextOK(t)'
      BY <1>1, <1>2, <1>3, <1>5, <1>7 DEF PhaseOK, RouteOK, ContextOK, unit
    <2>2. WorkOK(t)'
      BY <1>1, <1>2, <1>3, <1>5, <1>7 DEF PhaseOK, WorkOK, unit
    <2>3. UnitOK(n)'
      BY <1>1, <1>3 DEF UnitOK, unit
    <2> QED BY <2>1, <2>2, <2>3 DEF TaskOK
  <1> QED BY <1>1, <1>2, <1>5, <1>4, <1>6, <1>7, Types, Moves DEF Phases, unit

(* The session is closed. *)
LEMMA CloseStep ==
    ASSUME Inv, NEW t \in Tasks, Close(t)
    PROVE  Inv'
  <1>1. /\ pc[t] = "close" /\ Go(t, "idle") /\ Update(t, NoSession)
        /\ UNCHANGED <<context, orphans, dirty, saved, registered, called>>
    BY DEF Close
  <1>2. PICK n \in Units : session[t].unit = n
    BY <1>1, Facts
  <1>3. PhaseOK(t) /\ WorkOK(t) /\ ContextOK(t) /\ UnitOK(n)
    BY <1>1, <1>2, Facts
  <1>4. /\ status' \in [Units -> UoW!Statuses]
        /\ status'[n] = IF status[n] = "ended" THEN "done" ELSE status[n]
        /\ \A m \in Units \ {n} : status'[m] = status[m]
    BY <1>2, Types DEF Close, UoW!Statuses
  <1>5. UnitOK(n)'
    BY <1>1, <1>2, <1>3, <1>4 DEF UnitOK, PhaseOK, WorkOK
  <1>6. ASSUME pc'[t] = "idle" PROVE TaskOK(t)'
    <2>1. context'[t] = None
      BY <1>1, <1>2, <1>3 DEF ContextOK, PhaseOK
    <2> QED BY <1>6, <2>1 DEF TaskOK, ContextOK
  <1>7. status'[n] # "done" \/ n \notin dirty' \/ called'[n] = registered'[n]
    BY <1>1, <1>2, <1>3, <1>4 DEF PhaseOK, WorkOK
  <1> QED BY <1>1, <1>2, <1>4, <1>5, <1>6, <1>7, NoSessionType, Types, Moves DEF Phases

(* What does not concern the tasks and the units keeps the invariant. *)
LEMMA OthersStep ==
    ASSUME Inv, UNCHANGED <<pc, session, context, unit>>, orphans' \in [Units -> SUBSET Engines]
    PROVE  Inv'
  <1>1. TypeOK'
    BY DEF Inv, TypeOK, unit
  <1>2. (\A n \in Units : UnitOK(n) /\ ToldOK(n))' /\ OwnUnits'
    BY DEF Inv, UnitOK, ToldOK, OwnUnits, unit
  <1>3. ASSUME NEW t \in Tasks PROVE TaskOK(t)'
    <2>1. TaskOK(t)
      BY DEF Inv
    <2> QED BY <2>1 DEF TaskOK, PhaseOK, WorkOK, RouteOK, ContextOK, unit
  <1> QED BY <1>1, <1>2, <1>3 DEF Inv

LEMMA NextInv == Inv /\ [Next]_vars => Inv'
  <1> SUFFICES ASSUME Inv, [Next]_vars PROVE Inv'
    OBVIOUS
  <1>1. ASSUME NEW u \in Units, Finalize(u) PROVE Inv'
    <2>1. orphans' \in [Units -> SUBSET Engines]
      BY <1>1, Types DEF Finalize
    <2> QED BY <1>1, <2>1, OthersStep DEF Finalize
  <1>2. ASSUME NEW t \in Tasks, NEW how \in OpenedAs, Open(t, how[1], how[2]) PROVE Inv'
    BY <1>2, OpenStep
  <1>3. ASSUME NEW t \in Tasks, BodyRaises(t) \/ BodyCancelled(t) PROVE Inv'
    BY <1>3, BodyFailsStep DEF BodyRaises, BodyCancelled
  <1>4. ASSUME NEW t \in Tasks, CommitRaises(t) \/ CommitCancelled(t) PROVE Inv'
    BY <1>4, CommitBreaksStep DEF CommitRaises, CommitCancelled
  <1>5. CASE UNCHANGED vars
    BY <1>5, Types, OthersStep DEF vars
  <1>6. CASE Next
    BY <1>1, <1>2, <1>3, <1>4, <1>6, AddStep, RegisterStep, StatementStep, ExecuteStep,
       BodyEndsStep, CommitConnStep, CommittedStep, CallbackStep, LoopStep, RollbackStep, CloseStep DEF Next
  <1> QED BY <1>5, <1>6

-----------------------------------------------------------------------------
(* The theorems *)

(* What the invariant says of tasks and units holds in every execution. *)
THEOREM Invariant == Spec => []Inv
  BY InitInv, NextInv, PTL DEF Spec

(* The variables have their types and an idle task has no session. *)
THEOREM TypeCorrect == Spec => []TypeOK
  <1>1. Inv => TypeOK
    BY DEF Inv
  <1> QED BY <1>1, Invariant, PTL

(* AutoSession.get answers with the session of the running scope or none, after
   any exception and any cancellation (session_manager.py 93-106). *)
THEOREM AutoSessionOpen == Spec => []AutoSessionIsOpen
  <1>1. Inv => AutoSessionIsOpen
    BY DEF Inv, TaskOK, ContextOK, AutoSessionIsOpen
  <1> QED BY <1>1, Invariant, PTL

(* Whichever callbacks raise: none is called unless the commit succeeded, none is
   called twice, and once the session is closed all of them have been called
   (lines 69-77). *)
THEOREM CallbacksTogether == Spec => []CallbacksAllOrNone
  <1>1. Inv => CallbacksAllOrNone
    BY DEF Inv, UnitOK, ToldOK, CallbacksAllOrNone
  <1> QED BY <1>1, Invariant, PTL

(* A session that has written selects on the connection it wrote on
   (RoutingSession.get_bind). *)
THEOREM ReadsFollowWrites == Spec => []ReadsOwnWrites
  <1>1. ASSUME Inv, NEW t \in Tasks, pc[t] = "wait", session[t].flushed
        PROVE  Target(t) = "WRITE" /\ "WRITE" \in session[t].conns
    BY <1>1, Facts, Routes DEF RouteOK
  <1>2. Inv => ReadsOwnWrites
    BY <1>1 DEF ReadsOwnWrites
  <1> QED BY <1>2, Invariant, PTL

(* An engine that has nothing to give has given it to someone. *)
LEMMA SomeoneHolds ==
    ASSUME NEW e \in Engines, ~Free(e), Lost(e) = {}
    PROVE  Holders(e) # {}
  BY PoolAssumption, FS_EmptySet DEF Free

(* Tasks never wait for one another's connections in a circle, whatever the
   sizes of the pools: the primary is the last engine that a session asks for. *)
THEOREM PoolsNeverLock == Spec => []NoPoolDeadlock
  <1>1. ASSUME Inv, NEW D \in (SUBSET Tasks) \ {{}},
               \A t \in D : Waiting(t) /\ Holders(Target(t)) \subseteq D /\ Lost(Target(t)) = {}
        PROVE  FALSE
    <2>1. ASSUME NEW t \in D
          PROVE  /\ Target(t) \in Engines /\ Target(t) \notin session[t].conns
                 /\ "WRITE" \in session[t].conns => Target(t) = "WRITE"
                 /\ \E h \in D : Target(t) \in session[h].conns
      <3>1. Waiting(t) /\ pc[t] = "wait" /\ Target(t) \notin session[t].conns /\ ~Free(Target(t))
        BY <1>1, <2>1 DEF Waiting
      <3>2. Target(t) \in Engines /\ ("WRITE" \in session[t].conns => Target(t) = "WRITE")
        BY <1>1, <3>1, Routes
      <3>3. PICK h \in Holders(Target(t)) : TRUE
        BY <1>1, <3>1, <3>2, SomeoneHolds
      <3>4. h \in D /\ Target(t) \in session[h].conns
        BY <1>1, <3>3 DEF Holders
      <3> QED BY <3>1, <3>2, <3>4
    <2>2. \A t \in D : Target(t) # "WRITE"
      BY <2>1
    <2>3. \A t \in D : Target(t) = "READ"
      BY <2>1, <2>2 DEF Engines
    <2>4. PICK t \in D : TRUE
      BY <1>1
    <2>5. PICK h \in D : Target(t) \in session[h].conns
      BY <2>1
    <2> QED BY <2>1, <2>3, <2>5
  <1>2. ASSUME Inv PROVE NoPoolDeadlock
    <2> SUFFICES ASSUME NEW D \in (SUBSET Tasks) \ {{}},
                        \A t \in D : Waiting(t) /\ Holders(Target(t)) \subseteq D /\ Lost(Target(t)) = {}
                 PROVE  FALSE
      BY DEF NoPoolDeadlock
    <2> QED BY <1>1, <1>2
  <1>3. Inv => NoPoolDeadlock
    BY <1>2
  <1> QED BY <1>3, Invariant, PTL

-----------------------------------------------------------------------------
(* The refinement *)

LEMMA InitMaps == Init => UoW!Init
  BY DEF Init, UoW!Init

(* A step that a unit of work does not see. *)
LEMMA Unseen ==
    ASSUME UNCHANGED <<status, dirty, saved, called>>
    PROVE  UNCHANGED UoW!vars
  BY DEF UoW!vars

LEMMA OpenMaps ==
    ASSUME Inv, NEW t \in Tasks, NEW mode, NEW way, Open(t, mode, way)
    PROVE  UoW!Next
  <1>1. PICK n \in Units : status[n] = "new" /\ status' = [status EXCEPT ![n] = "running"]
    BY DEF Open
  <1>2. UoW!Begin(n)
    BY <1>1 DEF Open, UoW!Begin, UoW!Move
  <1> QED BY <1>2 DEF UoW!Next

LEMMA AddMaps ==
    ASSUME Inv, NEW t \in Tasks, Add(t)
    PROVE  UoW!Next \/ UNCHANGED UoW!vars
  <1>1. pc[t] = "body" /\ UNCHANGED <<status, saved, called>>
    BY DEF Add
  <1>2. PICK n \in Units : session[t].unit = n
    BY <1>1, Facts
  <1>3. status[n] = "running"
    BY <1>1, <1>2, Facts DEF PhaseOK
  <1>4. CASE session[t].mode = "read"
    BY <1>1, <1>4, Unseen DEF Add
  <1>5. CASE session[t].mode # "read"
    <2>1. UoW!Work(n)
      BY <1>1, <1>2, <1>3, <1>5 DEF Add, UoW!Work
    <2> QED BY <2>1 DEF UoW!Next
  <1> QED BY <1>4, <1>5

LEMMA ExecuteMaps ==
    ASSUME Inv, NEW t \in Tasks, Execute(t)
    PROVE  UoW!Next \/ UNCHANGED UoW!vars
  <1>1. pc[t] = "wait" /\ ~Refused(t) /\ UNCHANGED <<status, saved, called>>
    BY DEF Execute
  <1>2. PICK n \in Units : session[t].unit = n
    BY <1>1, Facts
  <1>3. dirty' = IF session[t].op # "select" THEN dirty \cup {n} ELSE dirty
    BY <1>2 DEF Execute
  <1>4. CASE session[t].op = "select"
    BY <1>1, <1>3, <1>4, Unseen
  <1>5. CASE status[n] = "running" /\ session[t].op # "select"
    <2>1. UoW!Work(n)
      BY <1>1, <1>3, <1>5 DEF UoW!Work
    <2> QED BY <2>1 DEF UoW!Next
  <1>6. CASE status[n] = "ended" /\ session[t].op = "flush"
    <2>1. session[t].mode # "read"
      BY <1>1, <1>6, Routes DEF Refused
    <2>2. n \in dirty
      BY <1>1, <1>2, <1>6, <2>1, Facts DEF WorkOK, RouteOK
    <2> QED BY <1>1, <1>3, <2>2, Unseen
  <1> QED BY <1>1, <1>2, <1>4, <1>5, <1>6, Facts DEF PhaseOK

LEMMA BodyEndsMaps ==
    ASSUME Inv, NEW t \in Tasks, BodyEnds(t)
    PROVE  UoW!Next
  <1>1. PICK n \in Units : session[t].unit = n /\ status[n] = "running"
    BY Facts DEF BodyEnds, PhaseOK
  <1>2. UoW!End(n)
    BY <1>1 DEF BodyEnds, Ends, UoW!End, UoW!Move
  <1> QED BY <1>2 DEF UoW!Next

LEMMA BodyFailsMaps ==
    ASSUME Inv, NEW t \in Tasks, NEW next, BodyFails(t, next)
    PROVE  UoW!Next
  <1>1. PICK n \in Units : session[t].unit = n /\ status[n] = "running" /\ n \notin saved
    BY Facts DEF BodyFails, UnitOK
  <1>2. UoW!Fail(n)
    BY <1>1 DEF BodyFails, Ends, UoW!Fail, UoW!Move
  <1> QED BY <1>2 DEF UoW!Next

LEMMA CommitConnMaps ==
    ASSUME Inv, NEW t \in Tasks, NEW e \in Engines, CommitConn(t, e)
    PROVE  UoW!Next \/ UNCHANGED UoW!vars
  <1>1. pc[t] = "commit" /\ UNCHANGED <<status, dirty, called>>
    BY DEF CommitConn
  <1>2. PICK n \in Units : session[t].unit = n
    BY <1>1, Facts
  <1>3. saved' = IF e = "WRITE" /\ session[t].flushed THEN saved \cup {n} ELSE saved
    BY <1>2 DEF CommitConn
  <1>4. status[n] = "ended" /\ (session[t].flushed => n \in dirty)
    BY <1>1, <1>2, Facts DEF PhaseOK, WorkOK
  <1>5. CASE e = "WRITE" /\ session[t].flushed /\ n \notin saved
    <2>1. UoW!Save(n)
      BY <1>1, <1>3, <1>4, <1>5 DEF UoW!Save
    <2> QED BY <2>1 DEF UoW!Next
  <1>6. CASE ~(e = "WRITE" /\ session[t].flushed /\ n \notin saved)
    <2>1. saved' = saved
      BY <1>3, <1>6
    <2> QED BY <1>1, <2>1, Unseen
  <1> QED BY <1>5, <1>6

LEMMA CommittedMaps ==
    ASSUME Inv, NEW t \in Tasks, Committed(t)
    PROVE  UoW!Next
  <1>1. pc[t] = "commit" /\ ~session[t].added /\ session[t].done = session[t].conns
    BY DEF Committed
  <1>2. PICK n \in Units : session[t].unit = n
    BY <1>1, Facts
  <1>3. status[n] = "ended" /\ (n \in dirty => n \in saved)
    BY <1>1, <1>2, Facts DEF PhaseOK, WorkOK, RouteOK
  <1>4. status' = [status EXCEPT ![n] = "done"] /\ UNCHANGED <<dirty, saved, called>>
    BY <1>2 DEF Committed, Ends
  <1>5. UoW!Finish(n)
    BY <1>3, <1>4 DEF UoW!Finish, UoW!Move
  <1> QED BY <1>5 DEF UoW!Next

LEMMA CallbackMaps ==
    ASSUME Inv, NEW t \in Tasks, Callback(t)
    PROVE  UoW!Next
  <1>1. pc[t] = "notify" /\ UNCHANGED <<status, dirty, saved>>
    BY DEF Callback
  <1>2. PICK n \in Units : session[t].unit = n
    BY <1>1, Facts
  <1>3. status[n] = "done"
    BY <1>1, <1>2, Facts DEF PhaseOK
  <1>4. called'[n] = called[n] + 1 /\ called[n] \in Nat /\ \A m \in Units \ {n} : called'[m] = called[m]
    BY <1>2, Types DEF Callback
  <1>5. {u \in Units : called'[u] > 0} = {u \in Units : called[u] > 0} \cup {n}
    <2>1. called'[n] > 0
      BY <1>4
    <2> QED BY <1>4, <2>1
  <1>6. UoW!Tell(n)
    BY <1>1, <1>3, <1>5 DEF UoW!Tell
  <1> QED BY <1>6 DEF UoW!Next

LEMMA CommitBreaksMaps ==
    ASSUME Inv, NEW t \in Tasks, NEW next, CommitBreaks(t, next)
    PROVE  UoW!Next
  <1>1. pc[t] \in {"wait", "commit"} /\ status[session[t].unit] = "ended"
    BY DEF CommitBreaks
  <1>2. PICK n \in Units : session[t].unit = n
    BY <1>1, Facts
  <1>3. session[t].flushed => n \in dirty
    BY <1>1, <1>2, Facts DEF WorkOK
  <1>4. saved' \in {saved, saved \cup ({n} \cap dirty)}
    BY <1>2, <1>3 DEF CommitBreaks
  <1>5. UoW!Doubt(n)
    BY <1>1, <1>2, <1>4 DEF CommitBreaks, Ends, UoW!Doubt, UoW!Move
  <1> QED BY <1>5 DEF UoW!Next

LEMMA CloseMaps ==
    ASSUME Inv, NEW t \in Tasks, Close(t)
    PROVE  UoW!Next \/ UNCHANGED UoW!vars
  <1>1. pc[t] = "close" /\ UNCHANGED <<dirty, saved, called>>
    BY DEF Close
  <1>2. PICK n \in Units : session[t].unit = n
    BY <1>1, Facts
  <1>3. status' = [status EXCEPT ![n] = IF status[n] = "ended" THEN "done" ELSE status[n]]
    BY <1>2 DEF Close
  <1>4. CASE status[n] = "ended"
    <2>1. n \notin dirty
      BY <1>1, <1>2, <1>4, Facts DEF PhaseOK, WorkOK
    <2>2. UoW!Finish(n)
      BY <1>1, <1>3, <1>4, <2>1 DEF UoW!Finish, UoW!Move
    <2> QED BY <2>2 DEF UoW!Next
  <1>5. CASE status[n] # "ended"
    <2>1. status' = status
      BY <1>3, <1>5, Types
    <2> QED BY <1>1, <2>1, Unseen
  <1> QED BY <1>4, <1>5

LEMMA NextMaps == Inv /\ [Next]_vars => [UoW!Next]_(UoW!vars)
  <1> SUFFICES ASSUME Inv, [Next]_vars PROVE UoW!Next \/ UNCHANGED UoW!vars
    OBVIOUS
  <1>1. ASSUME NEW t \in Tasks, BodyRaises(t) \/ BodyCancelled(t) PROVE UoW!Next
    BY <1>1, BodyFailsMaps DEF BodyRaises, BodyCancelled
  <1>2. ASSUME NEW t \in Tasks, CommitRaises(t) \/ CommitCancelled(t) PROVE UoW!Next
    BY <1>2, CommitBreaksMaps DEF CommitRaises, CommitCancelled
  <1>3. ASSUME \/ \E u \in Units : Finalize(u)
               \/ \E t \in Tasks : \/ Register(t) \/ Rollback(t) \/ CallbackLogged(t) \/ Notified(t)
                                   \/ \E op \in Statements : Statement(t, op)
               \/ UNCHANGED vars
        PROVE  UNCHANGED UoW!vars
    BY <1>3, Unseen DEF Finalize, Register, Rollback, CallbackLogged, Notified, Statement, vars, unit
  <1> QED BY <1>1, <1>2, <1>3, OpenMaps, AddMaps, ExecuteMaps, BodyEndsMaps, CommitConnMaps,
             CommittedMaps, CallbackMaps, CloseMaps DEF Next

(* managed_session, over whatever factory, keeps the promise of a unit of work. *)
THEOREM Refinement == Spec => ImplementsUnitOfWork
  <1>1. Init => UoW!Init
    BY InitMaps
  <1>2. Inv /\ [Next]_vars => [UoW!Next]_(UoW!vars)
    BY NextMaps
  <1> QED BY <1>1, <1>2, Invariant, PTL DEF Spec, ImplementsUnitOfWork, UoW!Spec

-----------------------------------------------------------------------------
(* What the refinement gives: a unit that is over is over *)

(* Who calls the callbacks of a unit. *)
CalledBy(n) ==
    called'[n] # called[n] =>
        status[n] = "done" /\ \E t \in Tasks : session[t].unit = n /\ pc[t] = "notify"

LEMMA CalledByNext == Inv /\ [Next]_vars => \A n \in Units : CalledBy(n)
  <1> SUFFICES ASSUME Inv, [Next]_vars, NEW n \in Units PROVE CalledBy(n)
    OBVIOUS
  <1>1. ASSUME NEW t \in Tasks, Callback(t) PROVE CalledBy(n)
    <2>1. pc[t] = "notify" /\ session[t].unit \in Units /\ status[session[t].unit] = "done"
      BY <1>1, Facts DEF Callback, PhaseOK
    <2>2. n # session[t].unit => called'[n] = called[n]
      BY <1>1, Types DEF Callback
    <2> QED BY <2>1, <2>2 DEF CalledBy
  <1>2. ASSUME UNCHANGED called PROVE CalledBy(n)
    BY <1>2 DEF CalledBy
  <1>3. ASSUME NEW t \in Tasks, NEW next, BodyFails(t, next) \/ CommitBreaks(t, next) PROVE UNCHANGED called
    BY <1>3 DEF BodyFails, CommitBreaks
  <1>4. ASSUME NEW t \in Tasks, \/ \E how \in OpenedAs : Open(t, how[1], how[2])
                                \/ \E op \in Statements : Statement(t, op)
                                \/ \E e \in Engines : CommitConn(t, e)
        PROVE  UNCHANGED called
    BY <1>4 DEF Open, Statement, CommitConn, unit
  <1>5. ASSUME NEW t \in Tasks, \/ Add(t) \/ Register(t) \/ Execute(t) \/ BodyEnds(t) \/ Committed(t)
                                \/ CallbackLogged(t) \/ Notified(t) \/ Rollback(t) \/ Close(t)
        PROVE  UNCHANGED called
    BY <1>5 DEF Add, Register, Execute, BodyEnds, Committed, CallbackLogged, Notified, Rollback, Close, unit
  <1>6. ASSUME NEW u \in Units, Finalize(u) PROVE UNCHANGED called
    BY <1>6 DEF Finalize, unit
  <1>7. CASE UNCHANGED vars
    BY <1>2, <1>7 DEF vars, unit
  <1>8. CASE Next
    BY <1>1, <1>2, <1>3, <1>4, <1>5, <1>6, <1>8
       DEF Next, BodyRaises, BodyCancelled, CommitRaises, CommitCancelled
  <1> QED BY <1>7, <1>8

(* Nothing becomes of a unit that is done or failed, not even on the primary, but
   that its open session goes on to call the callbacks of one that is done. *)
OverForGood ==
    \A n \in Units :
        status[n] \in {"done", "failed"} =>
            /\ status'[n] = status[n]
            /\ n \in dirty' <=> n \in dirty
            /\ n \in saved' <=> n \in saved
            /\ called'[n] # called[n] => status[n] = "done" /\ \E t \in Tasks : session[t].unit = n

LEMMA OverNext == Inv /\ [Next]_vars => OverForGood
  <1> SUFFICES ASSUME Inv, [Next]_vars PROVE OverForGood
    OBVIOUS
  <1> DEFINE Kept(n) == /\ status'[n] = status[n]
                        /\ n \in dirty' <=> n \in dirty
                        /\ n \in saved' <=> n \in saved
  <1>1. UoW!Next \/ UNCHANGED UoW!vars
    BY NextMaps
  <1>2. ASSUME NEW n \in Units, status[n] \in {"done", "failed"} PROVE Kept(n)
    <2>0. status \in [Units -> UoW!Statuses]
      BY Types
    <2>1. CASE UNCHANGED UoW!vars
      BY <2>1 DEF UoW!vars
    <2>2. ASSUME NEW m \in Units, UoW!Begin(m) \/ UoW!End(m) \/ UoW!Fail(m) PROVE Kept(n)
      <3>1. m # n /\ UNCHANGED <<dirty, saved>>
        BY <1>2, <2>2 DEF UoW!Begin, UoW!End, UoW!Fail, UoW!Move
      <3>2. status'[n] = status[n]
        BY <2>0, <2>2, <3>1 DEF UoW!Begin, UoW!End, UoW!Fail, UoW!Move
      <3> QED BY <3>1, <3>2
    <2>3. ASSUME NEW m \in Units, UoW!Work(m) \/ UoW!Save(m) \/ UoW!Tell(m) PROVE Kept(n)
      BY <1>2, <2>3 DEF UoW!Work, UoW!Save, UoW!Tell
    <2>4. ASSUME NEW m \in Units, UoW!Doubt(m) \/ UoW!Finish(m) PROVE Kept(n)
      <3>1. m # n
        BY <1>2, <2>4 DEF UoW!Doubt, UoW!Finish, UoW!Move
      <3>2. status'[n] = status[n]
        BY <2>0, <2>4, <3>1 DEF UoW!Doubt, UoW!Finish, UoW!Move
      <3>3. dirty' = dirty /\ saved' \in {saved, saved \cup ({m} \cap dirty)}
        BY <2>4 DEF UoW!Doubt, UoW!Finish
      <3> QED BY <3>1, <3>2, <3>3
    <2> QED BY <1>1, <2>1, <2>2, <2>3, <2>4 DEF UoW!Next
  <1> QED BY <1>2, CalledByNext DEF OverForGood, CalledBy

(* The outcome managed_session has come to is the last one: work whose commit
   raised is never saved later, work that was saved is never taken back, a unit
   that failed calls nobody, and no callback is called once its session is closed
   (lines 58-90). *)
THEOREM OutcomesAreFinal == Spec => [][OverForGood]_vars
  BY OverNext, Invariant, PTL DEF Spec

(* The primary has nothing but the work of bodies that ended, all of that of the
   units that are done, and that of the units whose callbacks were called. *)
Durable ==
    \A n \in Units :
        /\ n \in saved => n \in dirty /\ status[n] \in {"ended", "done", "failed"}
        /\ n \in dirty /\ (status[n] = "done" \/ called[n] > 0) => n \in saved

LEMMA DurableNext == Inv /\ Durable /\ [Next]_vars => Durable'
  <1> SUFFICES ASSUME Inv, Durable, [Next]_vars, NEW n \in Units
               PROVE  /\ n \in saved' => n \in dirty' /\ status'[n] \in {"ended", "done", "failed"}
                      /\ n \in dirty' /\ (status'[n] = "done" \/ called'[n] > 0) => n \in saved'
    BY DEF Durable
  <1>0. status \in [Units -> UoW!Statuses]
    BY Types
  <1>1. Inv'
    BY NextInv
  <1>2. called'[n] > 0 => status'[n] = "done"
    BY <1>1 DEF Inv, UnitOK
  <1>3. /\ n \in saved => n \in dirty /\ status[n] \in {"ended", "done", "failed"}
        /\ n \in dirty /\ status[n] = "done" => n \in saved
    BY DEF Durable
  <1> DEFINE Goal == /\ n \in saved' => n \in dirty' /\ status'[n] \in {"ended", "done", "failed"}
                     /\ n \in dirty' /\ status'[n] = "done" => n \in saved'
  <1>4. ASSUME UNCHANGED UoW!vars PROVE Goal
    BY <1>3, <1>4 DEF UoW!vars
  <1>5. ASSUME NEW m \in Units, UoW!Begin(m) \/ UoW!End(m) \/ UoW!Fail(m) PROVE Goal
    BY <1>0, <1>3, <1>5 DEF UoW!Begin, UoW!End, UoW!Fail, UoW!Move
  <1>6. ASSUME NEW m \in Units, UoW!Work(m) \/ UoW!Save(m) \/ UoW!Tell(m) PROVE Goal
    BY <1>3, <1>6 DEF UoW!Work, UoW!Save, UoW!Tell
  <1>7. ASSUME NEW m \in Units, UoW!Doubt(m) PROVE Goal
    BY <1>0, <1>3, <1>7 DEF UoW!Doubt, UoW!Move
  <1>8. ASSUME NEW m \in Units, UoW!Finish(m) PROVE Goal
    BY <1>0, <1>3, <1>8 DEF UoW!Finish, UoW!Move
  <1>9. Goal
    BY <1>4, <1>5, <1>6, <1>7, <1>8, NextMaps DEF UoW!Next
  <1> QED BY <1>2, <1>9

(* What get_auto_session and the others report as done is on the primary, and
   the after-commit callbacks speak of saved work only. *)
THEOREM DoneMeansSaved == Spec => []Durable
  <1>1. Init => Durable
    BY DEF Init, Durable
  <1> QED BY <1>1, DurableNext, Invariant, PTL DEF Spec

-----------------------------------------------------------------------------
(* The pools *)

(* A session is left to the garbage collector only after its body failed. *)
LeftFailed == \A n \in Units : orphans[n] # {} => status[n] = "failed"

(* A pool gives no more connections than it has, those of abandoned sessions
   included. *)
PoolsBounded ==
    ~NullPooled => \A e \in Engines : Cardinality(Holders(e)) + Cardinality(Lost(e)) <= PoolSize

LEMMA FiniteHolders ==
    \A e \in Engines :
        /\ IsFiniteSet(Holders(e)) /\ Cardinality(Holders(e)) \in Nat
        /\ IsFiniteSet(Lost(e)) /\ Cardinality(Lost(e)) \in Nat
  <1>1. IsFiniteSet(Units)
    BY BoundAssumption, FS_Interval DEF Units
  <1>2. \A e \in Engines : Holders(e) \in SUBSET Tasks /\ Lost(e) \in SUBSET Units
    BY DEF Holders, Lost
  <1> QED BY <1>1, <1>2, TasksAssumption, FS_Subset, FS_CardinalityType

LEMMA LeftFailedNext == Inv /\ LeftFailed /\ [Next]_vars => LeftFailed'
  <1> SUFFICES ASSUME Inv, LeftFailed, [Next]_vars, NEW n \in Units, orphans'[n] # {}
               PROVE  status'[n] = "failed"
    BY DEF LeftFailed
  <1>1. OverForGood
    BY OverNext
  <1>2. CASE orphans[n] # {}
    BY <1>1, <1>2 DEF LeftFailed, OverForGood
  <1>3. ASSUME NEW t \in Tasks, NEW next, BodyFails(t, next), orphans[n] = {} PROVE status'[n] = "failed"
    <2>1. orphans' = [orphans EXCEPT ![session[t].unit] = session[t].conns]
      BY <1>3 DEF BodyFails, Abandon
    <2>2. n = session[t].unit
      BY <1>3, <2>1, Types
    <2> QED BY <1>3, <2>2, Types DEF BodyFails, Ends
  <1>4. ASSUME NEW u \in Units, Finalize(u) PROVE orphans[n] # {}
    BY <1>4, Types DEF Finalize
  <1>5. ASSUME orphans' = orphans PROVE orphans[n] # {}
    BY <1>5
  <1>6. ASSUME NEW t \in Tasks, Add(t) \/ Register(t) \/ Execute(t) \/ BodyEnds(t)
                 \/ Committed(t) \/ CommitRaises(t) \/ CommitCancelled(t)
                 \/ Callback(t) \/ CallbackLogged(t) \/ Notified(t) \/ Rollback(t) \/ Close(t)
        PROVE  orphans' = orphans
    BY <1>6 DEF Add, Register, Execute, BodyEnds, Committed, CommitRaises, CommitCancelled,
                CommitBreaks, Callback, CallbackLogged, Notified, Rollback, Close
  <1>7. ASSUME NEW t \in Tasks, \/ \E how \in OpenedAs : Open(t, how[1], how[2])
                                \/ \E op \in Statements : Statement(t, op)
                                \/ \E e \in Engines : CommitConn(t, e)
        PROVE  orphans' = orphans
    BY <1>7 DEF Open, Statement, CommitConn
  <1>8. CASE UNCHANGED vars
    BY <1>5, <1>8, <1>2 DEF vars
  <1>9. CASE Next
    BY <1>2, <1>3, <1>4, <1>5, <1>6, <1>7, <1>9 DEF Next, BodyRaises, BodyCancelled
  <1> QED BY <1>8, <1>9

(* A step that takes no connection. *)
LEMMA NoneTaken ==
    ASSUME PoolsBounded, \A e \in Engines : Holders(e)' \subseteq Holders(e) /\ Lost(e)' \subseteq Lost(e)
    PROVE  PoolsBounded'
  <1> SUFFICES ASSUME ~NullPooled, NEW e \in Engines
               PROVE  Cardinality(Holders(e)') + Cardinality(Lost(e)') <= PoolSize
    BY DEF PoolsBounded
  <1>1. /\ Cardinality(Holders(e)') <= Cardinality(Holders(e)) /\ Cardinality(Holders(e)') \in Nat
        /\ Cardinality(Lost(e)') <= Cardinality(Lost(e)) /\ Cardinality(Lost(e)') \in Nat
    BY FiniteHolders, FS_Subset, FS_CardinalityType
  <1>2. Cardinality(Holders(e)) + Cardinality(Lost(e)) <= PoolSize
    BY DEF PoolsBounded
  <1> QED BY <1>1, <1>2, FiniteHolders, PoolAssumption

(* A session that holds no more than it did. *)
LEMMA HoldsLess ==
    ASSUME Inv, PoolsBounded, NEW t \in Tasks, NEW s, Update(t, s), s.conns \subseteq session[t].conns,
           UNCHANGED orphans
    PROVE  PoolsBounded'
  <1>1. \A u \in Tasks : session'[u] = IF u = t THEN s ELSE session[u]
    BY Types DEF Update
  <1>2. \A e \in Engines : Holders(e)' \subseteq Holders(e) /\ Lost(e)' \subseteq Lost(e)
    BY <1>1 DEF Holders, Lost
  <1> QED BY <1>2, NoneTaken

LEMMA ExecuteBounded ==
    ASSUME Inv, PoolsBounded, NEW t \in Tasks, Execute(t)
    PROVE  PoolsBounded'
  <1> SUFFICES ASSUME ~NullPooled, NEW e \in Engines
               PROVE  Cardinality(Holders(e)') + Cardinality(Lost(e)') <= PoolSize
    BY DEF PoolsBounded
  <1>1. /\ Lost(e)' = Lost(e)
        /\ \A u \in Tasks : session'[u].conns = IF u = t THEN session[t].conns \cup {Target(t)}
                                                ELSE session[u].conns
    <2>1. session[t] \in Sessions
      BY Types
    <2>2. session'[t].conns = session[t].conns \cup {Target(t)}
      BY <2>1, Types DEF Execute, Update, Sessions
    <2>3. \A u \in Tasks \ {t} : session'[u] = session[u]
      BY Types DEF Execute, Update
    <2> QED BY <2>2, <2>3 DEF Execute, Lost
  <1>2. Cardinality(Holders(e)) + Cardinality(Lost(e)) <= PoolSize
    BY DEF PoolsBounded
  <1>3. CASE e = Target(t) /\ e \notin session[t].conns
    <2>1. Holders(e)' = Holders(e) \cup {t} /\ t \notin Holders(e)
      BY <1>1, <1>3 DEF Holders
    <2>2. Cardinality(Holders(e)') = Cardinality(Holders(e)) + 1
      BY <2>1, FiniteHolders, FS_AddElement
    <2>3. Cardinality(Holders(e)) + Cardinality(Lost(e)) < PoolSize
      BY <1>3 DEF Execute, Free
    <2> QED BY <1>1, <2>2, <2>3, FiniteHolders, PoolAssumption
  <1>4. CASE ~(e = Target(t) /\ e \notin session[t].conns)
    <2>1. Holders(e)' = Holders(e)
      BY <1>1, <1>4 DEF Holders
    <2> QED BY <1>1, <1>2, <2>1
  <1> QED BY <1>3, <1>4

(* What get_db_session leaves behind moves from the sessions to the orphans. *)
LEMMA AbandonBounded ==
    ASSUME Inv, LeftFailed, PoolsBounded, NEW t \in Tasks, status[session[t].unit] = "running",
           pc[t] \in {"body", "wait"}, Abandon(t)
    PROVE  PoolsBounded'
  <1> SUFFICES ASSUME ~NullPooled, NEW e \in Engines
               PROVE  Cardinality(Holders(e)') + Cardinality(Lost(e)') <= PoolSize
    BY DEF PoolsBounded
  <1>1. PICK n \in Units : session[t].unit = n
    BY Facts
  <1>2. orphans[n] = {}
    BY <1>1 DEF LeftFailed
  <1>3. /\ \A u \in Tasks \ {t} : session'[u] = session[u]
        /\ session'[t].conns = {}
        /\ \A m \in Units : orphans'[m] = IF m = n THEN session[t].conns ELSE orphans[m]
    BY <1>1, Types DEF Abandon, Update, NoSession
  <1>4. Cardinality(Holders(e)) + Cardinality(Lost(e)) <= PoolSize
    BY DEF PoolsBounded
  <1>5. CASE e \in session[t].conns
    <2>1. Holders(e)' = Holders(e) \ {t} /\ t \in Holders(e)
      BY <1>3, <1>5 DEF Holders
    <2>2. Lost(e)' = Lost(e) \cup {n} /\ n \notin Lost(e)
      BY <1>2, <1>3, <1>5 DEF Lost
    <2>3. Cardinality(Holders(e)') = Cardinality(Holders(e)) - 1
      BY <2>1, FiniteHolders, FS_RemoveElement
    <2>4. Cardinality(Lost(e)') = Cardinality(Lost(e)) + 1
      BY <2>2, FiniteHolders, FS_AddElement
    <2> QED BY <1>4, <2>3, <2>4, FiniteHolders, PoolAssumption
  <1>6. CASE e \notin session[t].conns
    <2>1. Holders(e)' = Holders(e) /\ Lost(e)' = Lost(e)
      BY <1>2, <1>3, <1>6 DEF Holders, Lost
    <2> QED BY <1>4, <2>1
  <1> QED BY <1>5, <1>6

LEMMA PoolsBoundedNext == Inv /\ LeftFailed /\ PoolsBounded /\ [Next]_vars => PoolsBounded'
  <1> SUFFICES ASSUME Inv, LeftFailed, PoolsBounded, [Next]_vars PROVE PoolsBounded'
    OBVIOUS
  <1>1. ASSUME NEW u \in Units, Finalize(u) PROVE PoolsBounded'
    <2>1. \A e \in Engines : Holders(e)' = Holders(e) /\ Lost(e)' \subseteq Lost(e)
      BY <1>1, Types DEF Finalize, Holders, Lost
    <2> QED BY <2>1, NoneTaken
  <1>2. ASSUME NEW t \in Tasks, NEW how \in OpenedAs, Open(t, how[1], how[2]) PROVE PoolsBounded'
    <2>1. PICK n \in Units : Update(t, [NoSession EXCEPT !.unit = n, !.mode = how[1], !.way = how[2]])
      BY <1>2 DEF Open
    <2>2. [NoSession EXCEPT !.unit = n, !.mode = how[1], !.way = how[2]].conns = {}
      BY DEF NoSession
    <2> QED BY <1>2, <2>1, <2>2, HoldsLess DEF Open
  <1>3. ASSUME NEW t \in Tasks, NEW next, BodyFails(t, next) PROVE PoolsBounded'
    <2>1. CASE session[t].way = "db_session"
      BY <1>3, <2>1, AbandonBounded DEF BodyFails
    <2>2. CASE session[t].way # "db_session"
      BY <1>3, <2>2, Keeps, HoldsLess DEF BodyFails
    <2> QED BY <2>1, <2>2
  <1>4. ASSUME NEW t \in Tasks, NEW next, CommitBreaks(t, next) \/ BodyEnds(t) PROVE PoolsBounded'
    BY <1>4, Keeps, HoldsLess DEF CommitBreaks, BodyEnds
  <1>5. ASSUME NEW t \in Tasks, session[t] \in Sessions
        PROVE  /\ [session[t] EXCEPT !.added = TRUE].conns = session[t].conns
               /\ [session[t] EXCEPT !.callbacks = @ + 1].conns = session[t].conns
               /\ [session[t] EXCEPT !.callbacks = @ - 1].conns = session[t].conns
               /\ [session[t] EXCEPT !.conns = {}].conns = {}
               /\ [session[t] EXCEPT !.conns = {}, !.callbacks = 0].conns = {}
               /\ \A e \in Engines : [session[t] EXCEPT !.done = @ \cup {e}].conns = session[t].conns
               /\ \A op \in Statements :
                     [session[t] EXCEPT !.op = op, !.pinned = @ \/ Pins(session[t], op)].conns = session[t].conns
    BY <1>5 DEF Sessions
  <1>6. ASSUME NEW t \in Tasks, \/ Add(t) \/ Register(t) \/ Committed(t) \/ Callback(t)
                                \/ \E op \in Statements : Statement(t, op)
                                \/ \E e \in Engines : CommitConn(t, e)
        PROVE  PoolsBounded'
    <2>0. session[t] \in Sessions
      BY Types
    <2>1. CASE Add(t)
      BY <1>5, <2>0, <2>1, HoldsLess DEF Add
    <2>2. CASE Register(t)
      BY <1>5, <2>0, <2>2, HoldsLess DEF Register
    <2>3. CASE Committed(t)
      BY <1>5, <2>0, <2>3, HoldsLess DEF Committed
    <2>4. ASSUME NEW op \in Statements, Statement(t, op) PROVE PoolsBounded'
      BY <1>5, <2>0, <2>4, HoldsLess DEF Statement
    <2>5. ASSUME NEW e \in Engines, CommitConn(t, e) PROVE PoolsBounded'
      BY <1>5, <2>0, <2>5, HoldsLess DEF CommitConn
    <2>6. CASE Callback(t)
      BY <1>5, <2>0, <2>6, HoldsLess DEF Callback
    <2> QED BY <1>6, <2>1, <2>2, <2>3, <2>4, <2>5, <2>6
  <1>7. ASSUME NEW t \in Tasks, Rollback(t) PROVE PoolsBounded'
    <2>0. session[t] \in Sessions
      BY Types
    <2>1. PICK s \in {session[t], [session[t] EXCEPT !.conns = {}, !.callbacks = 0]} : Update(t, s)
      BY <1>7, Keeps DEF Rollback
    <2>2. s.conns \subseteq session[t].conns
      BY <1>5, <2>0, <2>1
    <2> QED BY <1>7, <2>1, <2>2, HoldsLess DEF Rollback
  <1>8. ASSUME NEW t \in Tasks, Close(t) PROVE PoolsBounded'
    <2>1. Update(t, NoSession) /\ NoSession.conns = {}
      BY <1>8 DEF Close, NoSession
    <2> QED BY <1>8, <2>1, HoldsLess DEF Close
  <1>9. CASE UNCHANGED vars \/ \E t \in Tasks : CallbackLogged(t) \/ Notified(t)
    <2>1. \A e \in Engines : Holders(e)' = Holders(e) /\ Lost(e)' = Lost(e)
      BY <1>9 DEF vars, Holders, Lost, CallbackLogged, Notified
    <2> QED BY <2>1, NoneTaken
  <1>10. CASE Next
    BY <1>1, <1>2, <1>3, <1>4, <1>6, <1>7, <1>8, <1>9, <1>10, ExecuteBounded
       DEF Next, BodyRaises, BodyCancelled, CommitRaises, CommitCancelled
  <1> QED BY <1>9, <1>10

(* pool_size + max_overflow bounds the connections of an engine, those included
   that get_db_session left to the garbage collector: a connection is given back
   exactly once or its session still has it (database.py, session_manager.py). *)
THEOREM PoolsNeverOverdrawn == Spec => [](PoolsBounded /\ LeftFailed)
  <1>1. Init => LeftFailed
    BY DEF Init, LeftFailed
  <1>2. ASSUME Init PROVE PoolsBounded
    <2>1. \A e \in Engines : Holders(e) = {} /\ Lost(e) = {}
      BY <1>2 DEF Init, Holders, Lost, NoSession
    <2> QED BY <2>1, FS_EmptySet, PoolAssumption DEF PoolsBounded
  <1>3. Init => PoolsBounded
    BY <1>2
  <1> QED BY <1>1, <1>3, LeftFailedNext, PoolsBoundedNext, Invariant, PTL DEF Spec

-----------------------------------------------------------------------------
(* The way to the close *)

(* The unit of work of a task is ending: its body is over. *)
Closing(t) ==
    \/ pc[t] \in {"commit", "notify", "raised", "rollback", "close"}
    \/ pc[t] = "wait" /\ status[session[t].unit] = "ended"

(* 1 when the session has still to commit its connection to e. *)
Uncommitted(t, e) == IF e \in session[t].conns \ session[t].done THEN 1 ELSE 0

(* The most steps that are left: what was added is flushed, each connection is
   committed, a commit that raises is rolled back; each callback is called and
   may be logged, and the session is closed. *)
StepsLeft(t) ==
    LET calls == 2 * session[t].callbacks
    IN  CASE pc[t] = "commit" -> 3 + calls + Uncommitted(t, "READ") + Uncommitted(t, "WRITE")
                                   + (IF session[t].added THEN 6 ELSE 0)
          [] pc[t] = "wait"     -> 8 + calls
          [] pc[t] = "raised"   -> 3 + calls
          [] pc[t] = "notify"   -> 2 + calls
          [] pc[t] = "rollback" -> 2
          [] OTHER -> 1

NearsTheClose(t) ==
    Closing(t) =>
        \/ pc'[t] = "idle"
        \/ Closing(t)' /\ (StepsLeft(t)' < StepsLeft(t) \/ UNCHANGED <<pc[t], session[t]>>)

LEMMA StepsLeftBound ==
    ASSUME Inv, NEW t \in Tasks
    PROVE  session[t].callbacks \in Nat /\ StepsLeft(t) \in 1..(11 + 2 * session[t].callbacks)
  <1>1. session[t].callbacks \in Nat
    BY Types DEF Sessions
  <1>2. Uncommitted(t, "READ") \in 0..1 /\ Uncommitted(t, "WRITE") \in 0..1
    BY DEF Uncommitted
  <1> QED BY <1>1, <1>2 DEF StepsLeft

(* A step in which t has no part. *)
LEMMA OthersMove ==
    ASSUME Inv, NEW t \in Tasks, Closing(t), UNCHANGED <<pc[t], session[t]>>,
           status'[session[t].unit] = status[session[t].unit]
    PROVE  NearsTheClose(t)
  BY DEF NearsTheClose, Closing

(* Another task moves: neither t nor its unit does. *)
LEMMA OtherTask ==
    ASSUME Inv, NEW t \in Tasks, Closing(t), NEW u \in Tasks \ {t}, NEW next, NEW s, NEW outcome,
           Go(u, next) \/ UNCHANGED pc, Update(u, s) \/ UNCHANGED session,
           UNCHANGED status \/ (pc[u] # "idle" /\ status' = [status EXCEPT ![session[u].unit] = outcome])
    PROVE  NearsTheClose(t)
  <1>1. pc[t] # "idle"
    BY DEF Closing
  <1>2. UNCHANGED <<pc[t], session[t]>>
    BY Types DEF Go, Update
  <1>3. status'[session[t].unit] = status[session[t].unit]
    <2>1. CASE UNCHANGED status
      BY <2>1
    <2>2. CASE pc[u] # "idle" /\ status' = [status EXCEPT ![session[u].unit] = outcome]
      BY <1>1, <2>2, Facts, Types
    <2> QED BY <2>1, <2>2
  <1> QED BY <1>2, <1>3, OthersMove

LEMMA OwnCommit ==
    ASSUME Inv, NEW t \in Tasks, NEW e \in Engines, CommitConn(t, e)
    PROVE  NearsTheClose(t)
  <1>1. pc[t] = "commit" /\ pc'[t] = "commit" /\ session[t] \in Sessions /\ e \in session[t].conns \ session[t].done
    BY Types DEF CommitConn
  <1>2. /\ session'[t].conns = session[t].conns /\ session'[t].added = session[t].added
        /\ session'[t].done = session[t].done \cup {e} /\ session'[t].callbacks = session[t].callbacks
    BY <1>1, Types DEF CommitConn, Update, Sessions
  <1>3. Uncommitted(t, e)' = 0 /\ Uncommitted(t, e) = 1
    BY <1>1, <1>2 DEF Uncommitted
  <1>4. \A f \in Engines \ {e} : Uncommitted(t, f)' = Uncommitted(t, f)
    BY <1>2 DEF Uncommitted
  <1>5. /\ Uncommitted(t, "READ") \in 0..1 /\ Uncommitted(t, "WRITE") \in 0..1
        /\ session[t].callbacks \in Nat
    BY StepsLeftBound DEF Uncommitted
  <1>6. StepsLeft(t)' < StepsLeft(t)
    <2>1. CASE e = "READ"
      BY <1>1, <1>2, <1>3, <1>4, <1>5, <2>1 DEF StepsLeft, Engines
    <2>2. CASE e = "WRITE"
      BY <1>1, <1>2, <1>3, <1>4, <1>5, <2>2 DEF StepsLeft, Engines
    <2> QED BY <2>1, <2>2 DEF Engines
  <1> QED BY <1>1, <1>6 DEF NearsTheClose, Closing

LEMMA OwnExecute ==
    ASSUME Inv, NEW t \in Tasks, Closing(t), Execute(t)
    PROVE  NearsTheClose(t)
  <1>1. pc[t] = "wait" /\ session[t] \in Sessions /\ status[session[t].unit] = "ended" /\ session[t].op = "flush"
    BY Types, Facts DEF Execute, Closing, PhaseOK
  <1>2. pc'[t] = "commit"
    BY <1>1, Types DEF Execute, Go
  <1>3. session'[t].added = FALSE /\ session'[t].callbacks = session[t].callbacks
    <2>1. /\ session'[t].added = (session[t].added /\ session[t].op # "flush")
          /\ session'[t].callbacks = session[t].callbacks
      BY <1>1, Types DEF Execute, Update, Sessions
    <2> QED BY <1>1, <2>1
  <1>4. /\ Uncommitted(t, "READ")' \in 0..1 /\ Uncommitted(t, "WRITE")' \in 0..1
        /\ session[t].callbacks \in Nat
    BY StepsLeftBound DEF Uncommitted
  <1>5. StepsLeft(t)' < StepsLeft(t)
    BY <1>1, <1>2, <1>3, <1>4 DEF StepsLeft
  <1> QED BY <1>2, <1>5 DEF NearsTheClose, Closing

LEMMA OwnStatement ==
    ASSUME Inv, NEW t \in Tasks, NEW op \in Statements, Closing(t), Statement(t, op)
    PROVE  NearsTheClose(t)
  <1>1. pc[t] = "commit" /\ op = "flush" /\ session[t].added /\ session[t] \in Sessions
    BY Types DEF Statement, Closing
  <1>2. /\ pc'[t] = "wait" /\ session'[t].unit = session[t].unit /\ UNCHANGED status
        /\ session'[t].callbacks = session[t].callbacks
    BY <1>1, Types DEF Statement, Go, Update, Sessions, unit
  <1>3. status[session[t].unit] = "ended"
    BY <1>1, Facts DEF PhaseOK
  <1>4. /\ Uncommitted(t, "READ") \in 0..1 /\ Uncommitted(t, "WRITE") \in 0..1
        /\ session[t].callbacks \in Nat
    BY StepsLeftBound DEF Uncommitted
  <1>5. StepsLeft(t)' < StepsLeft(t)
    BY <1>1, <1>2, <1>4 DEF StepsLeft
  <1> QED BY <1>2, <1>3, <1>5 DEF NearsTheClose, Closing

(* The commit breaks, or the rollback is over. *)
LEMMA OwnEnd ==
    ASSUME Inv, NEW t \in Tasks, Closing(t), CommitRaises(t) \/ CommitCancelled(t) \/ Rollback(t)
    PROVE  NearsTheClose(t)
  <1>0. /\ Uncommitted(t, "READ") \in 0..1 /\ Uncommitted(t, "WRITE") \in 0..1
        /\ session[t].callbacks \in Nat
    BY StepsLeftBound DEF Uncommitted
  <1>1. \/ pc[t] \in {"wait", "commit"} /\ pc'[t] \in {"rollback", "close"}
        \/ pc[t] = "rollback" /\ pc'[t] = "close"
    BY Types DEF CommitRaises, CommitCancelled, CommitBreaks, Rollback, Go
  <1>2. StepsLeft(t)' < StepsLeft(t)
    BY <1>0, <1>1 DEF StepsLeft
  <1> QED BY <1>1, <1>2 DEF NearsTheClose, Closing

(* The commit is over; the callbacks are called one after the other. *)
LEMMA OwnNotify ==
    ASSUME Inv, NEW t \in Tasks, Committed(t) \/ Callback(t) \/ CallbackLogged(t) \/ Notified(t)
    PROVE  NearsTheClose(t)
  <1>0. /\ Uncommitted(t, "READ") \in 0..1 /\ Uncommitted(t, "WRITE") \in 0..1
        /\ session[t] \in Sessions /\ session[t].callbacks \in Nat
    BY Types, StepsLeftBound DEF Uncommitted
  <1>1. CASE Committed(t)
    <2>1. pc[t] = "commit" /\ pc'[t] = "notify" /\ session'[t].callbacks = session[t].callbacks
      BY <1>0, <1>1, Types DEF Committed, Go, Update, Sessions
    <2>2. StepsLeft(t)' < StepsLeft(t)
      BY <1>0, <2>1 DEF StepsLeft
    <2> QED BY <2>1, <2>2 DEF NearsTheClose, Closing
  <1>2. CASE Callback(t)
    <2>1. session'[t].callbacks = session[t].callbacks - 1
      BY <1>0, <1>2, Types DEF Callback, Update, Sessions
    <2>2. pc[t] = "notify" /\ pc'[t] \in {"notify", "raised"} /\ session[t].callbacks > 0
      BY <1>2, Types DEF Callback, Go
    <2>3. StepsLeft(t)' < StepsLeft(t)
      BY <1>0, <2>1, <2>2 DEF StepsLeft
    <2> QED BY <2>2, <2>3 DEF NearsTheClose, Closing
  <1>3. CASE CallbackLogged(t) \/ Notified(t)
    <2>1. /\ \/ pc[t] = "raised" /\ pc'[t] = "notify"
             \/ pc[t] = "notify" /\ pc'[t] = "close"
          /\ UNCHANGED session
      BY <1>3, Types DEF CallbackLogged, Notified, Go
    <2>2. StepsLeft(t)' < StepsLeft(t)
      BY <1>0, <2>1 DEF StepsLeft
    <2> QED BY <2>1, <2>2 DEF NearsTheClose, Closing
  <1> QED BY <1>1, <1>2, <1>3

LEMMA NearsNext == Inv /\ [Next]_vars => \A t \in Tasks : NearsTheClose(t)
  <1> SUFFICES ASSUME Inv, [Next]_vars, NEW t \in Tasks, Closing(t) PROVE NearsTheClose(t)
    BY DEF NearsTheClose
  <1>1. CASE UNCHANGED vars
    BY <1>1, OthersMove DEF vars, unit
  <1>2. ASSUME NEW n \in Units, Finalize(n) PROVE NearsTheClose(t)
    BY <1>2, OthersMove DEF Finalize, unit
  <1>3. ASSUME NEW u \in Tasks, NEW how \in OpenedAs, Open(u, how[1], how[2]) PROVE NearsTheClose(t)
    <2>1. u # t
      BY <1>3 DEF Open, Closing
    <2>2. PICK n \in Units : status[n] = "new" /\ status' = [status EXCEPT ![n] = "running"]
      BY <1>3 DEF Open
    <2>3. UNCHANGED <<pc[t], session[t]>>
      BY <1>3, <2>1, Types DEF Open, Go, Update
    <2>4. pc[t] # "idle" /\ session[t].unit \in Units /\ status[session[t].unit] # "new"
      BY Facts DEF PhaseOK, Closing
    <2>5. status'[session[t].unit] = status[session[t].unit]
      BY <2>2, <2>4, Types
    <2> QED BY <2>3, <2>5, OthersMove
  <1>4. ASSUME NEW u \in Tasks \ {t}, Add(u) \/ Register(u) \/ Execute(u) \/ Rollback(u)
        PROVE  NearsTheClose(t)
    BY <1>4, OtherTask DEF Add, Register, Execute, Rollback, unit
  <1>5. ASSUME NEW u \in Tasks \ {t}, \/ \E op \in Statements : Statement(u, op)
                                      \/ \E e \in Engines : CommitConn(u, e)
                                      \/ Callback(u) \/ CallbackLogged(u) \/ Notified(u)
        PROVE  NearsTheClose(t)
    BY <1>5, OtherTask DEF Statement, CommitConn, Callback, CallbackLogged, Notified, unit
  <1>6. ASSUME NEW u \in Tasks \ {t}, NEW next, BodyFails(u, next) PROVE NearsTheClose(t)
    BY <1>6, OtherTask DEF BodyFails, Abandon, Ends
  <1>7. ASSUME NEW u \in Tasks \ {t}, BodyEnds(u) PROVE NearsTheClose(t)
    BY <1>7, OtherTask DEF BodyEnds, Ends
  <1>8. ASSUME NEW u \in Tasks \ {t}, NEW next, CommitBreaks(u, next) PROVE NearsTheClose(t)
    BY <1>8, OtherTask DEF CommitBreaks, Ends
  <1>9. ASSUME NEW u \in Tasks \ {t}, Committed(u) PROVE NearsTheClose(t)
    BY <1>9, OtherTask DEF Committed, Ends
  <1>10. ASSUME NEW u \in Tasks \ {t}, Close(u) PROVE NearsTheClose(t)
    BY <1>10, OtherTask DEF Close
  <1>11. Close(t) => NearsTheClose(t)
    BY Types DEF Close, Go, NearsTheClose
  <1>12. ~Add(t) /\ ~Register(t) /\ ~BodyEnds(t)
    BY Facts DEF Add, Register, BodyEnds, Closing, PhaseOK
  <1>13. ~BodyRaises(t) /\ ~BodyCancelled(t)
    BY Facts DEF BodyRaises, BodyCancelled, BodyFails, Closing, PhaseOK
  <1>14. CASE \E u \in Tasks \ {t} :
                \/ \E how \in OpenedAs : Open(u, how[1], how[2])
                \/ Add(u) \/ Register(u)
                \/ \E op \in Statements : Statement(u, op)
                \/ Execute(u)
                \/ BodyEnds(u) \/ BodyRaises(u) \/ BodyCancelled(u)
                \/ \E e \in Engines : CommitConn(u, e)
                \/ Committed(u) \/ CommitRaises(u) \/ CommitCancelled(u)
                \/ Callback(u) \/ CallbackLogged(u) \/ Notified(u)
                \/ Rollback(u) \/ Close(u)
    BY <1>3, <1>4, <1>5, <1>6, <1>7, <1>8, <1>9, <1>10, <1>14
       DEF BodyRaises, BodyCancelled, CommitRaises, CommitCancelled
  <1>15. CASE \/ \E how \in OpenedAs : Open(t, how[1], how[2])
              \/ Add(t) \/ Register(t)
              \/ \E op \in Statements : Statement(t, op)
              \/ Execute(t)
              \/ BodyEnds(t) \/ BodyRaises(t) \/ BodyCancelled(t)
              \/ \E e \in Engines : CommitConn(t, e)
              \/ Committed(t) \/ CommitRaises(t) \/ CommitCancelled(t)
              \/ Callback(t) \/ CallbackLogged(t) \/ Notified(t)
              \/ Rollback(t) \/ Close(t)
    BY <1>3, <1>11, <1>12, <1>13, <1>15, OwnStatement, OwnExecute, OwnCommit, OwnEnd, OwnNotify
  <1>16. CASE Next
    <2>1. PICK u \in Tasks :
                \/ \E n \in Units : Finalize(n)
                \/ \E how \in OpenedAs : Open(u, how[1], how[2])
                \/ Add(u) \/ Register(u)
                \/ \E op \in Statements : Statement(u, op)
                \/ Execute(u)
                \/ BodyEnds(u) \/ BodyRaises(u) \/ BodyCancelled(u)
                \/ \E e \in Engines : CommitConn(u, e)
                \/ Committed(u) \/ CommitRaises(u) \/ CommitCancelled(u)
                \/ Callback(u) \/ CallbackLogged(u) \/ Notified(u)
                \/ Rollback(u) \/ Close(u)
      BY <1>16 DEF Next
    <2>2. CASE u = t
      BY <1>2, <1>15, <2>1, <2>2
    <2>3. CASE u # t
      BY <1>2, <1>14, <2>1, <2>3
    <2> QED BY <2>2, <2>3
  <1> QED BY <1>1, <1>16

(* A unit of work whose body is over is closed after at most eleven more steps of
   its own, and two for each callback, whatever fails and whatever the other tasks
   do: it never goes back to the body and repeats no step (managed_session 58-90).
   With the fairness of the databases this is why its connections come back. *)
THEOREM EndingsEnd ==
    Spec => /\ [](\A t \in Tasks : Closing(t) => StepsLeft(t) \in 1..(11 + 2 * session[t].callbacks))
            /\ [][\A t \in Tasks : NearsTheClose(t)]_vars
  <1>1. Inv => \A t \in Tasks : Closing(t) => StepsLeft(t) \in 1..(11 + 2 * session[t].callbacks)
    BY StepsLeftBound
  <1> QED BY <1>1, NearsNext, Invariant, PTL DEF Spec
=============================================================================
