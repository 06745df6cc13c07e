------------------------- MODULE MCServerConnection -------------------------
(* Instances of ServerConnection for TLC. *)
EXTENDS ServerConnection

CONSTANTS k1, k2
=============================================================================
