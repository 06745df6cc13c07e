----------------------------- MODULE MCShutdown -----------------------------
(* Small instances of Shutdown. *)
EXTENDS Shutdown, TLC

CONSTANTS c1, c2
=============================================================================
