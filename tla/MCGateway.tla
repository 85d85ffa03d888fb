----------------------------- MODULE MCGateway -----------------------------
EXTENDS Gateway

Good == [redis |-> "url", limited |-> TRUE, config |-> TRUE,
         traced |-> TRUE, target |-> TRUE, size |-> MaxChannels]

(* A complete configuration; as committed; with Redis missing or misspelt; with
   a pool of no channels; without a target; with nothing but the base. *)
Several ==
    {Good, [Good EXCEPT !.config = FALSE],
     [Good EXCEPT !.redis = "none"], [Good EXCEPT !.redis = "bad"],
     [Good EXCEPT !.size = 0], [Good EXCEPT !.target = FALSE],
     [Good EXCEPT !.redis = "none", !.limited = FALSE, !.traced = FALSE]}
=============================================================================
