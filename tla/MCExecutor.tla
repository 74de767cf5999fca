----------------------------- MODULE MCExecutor -----------------------------
(* Executor for TLC. *)
EXTENDS Executor
=============================================================================
