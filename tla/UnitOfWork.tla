----------------------------- MODULE UnitOfWork -----------------------------
(***************************************************************************)
(* What a database session promises to the code that opens it, whichever   *)
(* factory it comes from: all of the unit's work is saved or none of it,   *)
(* only once its body has ended normally, and whoever waits for the commit *)
(* (the after-commit callbacks) hears of it only once the work is saved.   *)
(***************************************************************************)
CONSTANT Units

VARIABLES
    status, \* how far each unit of work is
    dirty,  \* the units that have something to save
    saved,  \* the units whose work the database has
    told    \* the units whose callbacks were called

vars == <<status, dirty, saved, told>>

Statuses == {"new", "running", "ended", "done", "failed"}

Move(u, from, to) == status[u] = from /\ status' = [status EXCEPT ![u] = to]

Init ==
    /\ status = [u \in Units |-> "new"]
    /\ dirty = {}
    /\ saved = {}
    /\ told = {}

Begin(u) == Move(u, "new", "running") /\ UNCHANGED <<dirty, saved, told>>

Work(u) ==
    /\ status[u] = "running"
    /\ dirty' = dirty \cup {u}
    /\ UNCHANGED <<status, saved, told>>

End(u) == Move(u, "running", "ended") /\ UNCHANGED <<dirty, saved, told>>

Save(u) ==
    /\ status[u] = "ended"
    /\ u \in dirty \ saved
    /\ saved' = saved \cup {u}
    /\ UNCHANGED <<status, dirty, told>>

(* The body raises: nothing of it is saved. *)
Fail(u) ==
    /\ Move(u, "running", "failed")
    /\ u \notin saved
    /\ UNCHANGED <<dirty, saved, told>>

(* The commit raises: the work may be saved or lost, and nobody is told. *)
Doubt(u) ==
    /\ Move(u, "ended", "failed")
    /\ saved' \in {saved, saved \cup ({u} \cap dirty)}
    /\ UNCHANGED <<dirty, told>>

Finish(u) ==
    /\ Move(u, "ended", "done")
    /\ u \in dirty => u \in saved
    /\ UNCHANGED <<dirty, saved, told>>

(* Whoever waits for the work hears of it. *)
Tell(u) ==
    /\ status[u] = "done"
    /\ told' = told \cup {u}
    /\ UNCHANGED <<status, dirty, saved>>

Next ==
    \E u \in Units :
        \/ Begin(u) \/ Work(u) \/ End(u) \/ Save(u)
        \/ Fail(u) \/ Doubt(u) \/ Finish(u) \/ Tell(u)

Spec == Init /\ [][Next]_vars
=============================================================================
