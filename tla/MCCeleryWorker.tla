--------------------------- MODULE MCCeleryWorker ---------------------------
EXTENDS CeleryWorker, TLC

(* The children are alike, and so are the tasks. *)
Alike == Permutations(Children) \cup Permutations(Tasks)
=============================================================================
