----------------------------- MODULE MCDbSession -----------------------------
(* Instances of DbSession for TLC. *)
EXTENDS DbSession, TLC

(* Every mode and every way: the mode and the way matter to different steps. *)
EveryWay == {<<"read", "managed">>, <<"write", "auto_scope">>, <<"auto", "db_session">>}
=============================================================================
