----------------------------- MODULE MCShutdown -----------------------------
(* Small instances of Shutdown for TLC. *)
EXTENDS Shutdown
CONSTANTS q1, t1, t2
=============================================================================
