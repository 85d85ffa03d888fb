---------------------------- MODULE MCRequestLog ----------------------------
(* Instances of RequestLog for TLC. *)
EXTENDS RequestLog
=============================================================================
