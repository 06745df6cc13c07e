------------------------------ MODULE Exchange ------------------------------
(***************************************************************************)
(* What a server connection promises its clients, as an abstract           *)
(* specification: a client asks, is told the whole reply, in order and     *)
(* once, and nobody asks again before that, unless the connection is given *)
(* up for good.  ServerProtocol implements it.                             *)
(***************************************************************************)
EXTENDS Naturals, Sequences

CONSTANT Replies   \* the replies of Postgres, as sequences of messages

VARIABLES
  alive,   \* the connection can be used
  open,    \* a client waits for a reply, or for the rest of one
  reply,   \* that reply
  told     \* how many of its messages the client was told

vars == <<alive, open, reply, told>>

Closed == open' = FALSE /\ reply' = <<>> /\ told' = 0

Init == alive = FALSE /\ open = FALSE /\ reply = <<>> /\ told = 0

Ask ==
  /\ alive /\ ~open
  /\ open' = TRUE
  /\ reply' \in Replies
  /\ told' = 0
  /\ UNCHANGED alive

Tell ==
  /\ alive /\ open
  /\ told < told' /\ told' =< Len(reply)
  /\ UNCHANGED <<alive, open, reply>>

Finish ==
  /\ alive /\ open
  /\ told = Len(reply)
  /\ Closed
  /\ UNCHANGED alive

GiveUp == alive' = FALSE /\ Closed

Renew == ~alive /\ alive' = TRUE /\ UNCHANGED <<open, reply, told>>

Next == Ask \/ Tell \/ Finish \/ GiveUp \/ Renew

Spec == Init /\ [][Next]_vars
=============================================================================
