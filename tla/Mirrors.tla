------------------------------- MODULE Mirrors -------------------------------
(***************************************************************************)
(* Mirroring (mirrors.rs): a server connection copies what it sends to a   *)
(* task of its own, over a bounded channel, as best it can; a second       *)
(* channel tells the task to end when the connection is dropped.  The task *)
(* has its own pool of one connection to the mirror.                       *)
(*                                                                         *)
(* There is one mirror per connection.  The actions here say nothing of    *)
(* the variables of other modules.                                         *)
(***************************************************************************)
EXTENDS Naturals, Sequences

CONSTANT
  Capacity         \* of the channel of messages (10 in the code)

VARIABLE
  mirrors          \* the tasks ever spawned: [at, bytes, exit, last]

NewMirror ==
  [at |-> "get", bytes |-> <<>>, exit |-> FALSE, last |-> 0]

-----------------------------------------------------------------------------
(* What the connection does *)

\* from_addresses
spawn == mirrors' = Append(mirrors, NewMirror)

\* send: try_send, and a warning if the channel is full or closed.
mirror_send(t, m) ==
  mirrors' = [mirrors EXCEPT ![t].bytes =
                IF Len(@) < Capacity /\ mirrors[t].at # "done" THEN Append(@, m) ELSE @]

\* Mutation of mirror_disconnect: the signal is lost, and somebody holds the channels.
Mut_mirror_disconnect(t) == UNCHANGED mirrors

\* disconnect, and the senders go with the connection.
mirror_disconnect(t) == mirrors' = [mirrors EXCEPT ![t].exit = TRUE]

-----------------------------------------------------------------------------
(* The task: a connection from the pool, then whichever comes first.  A get that
   fails is tried again, without a look at the channels. *)

MirrorGet(t) ==
  /\ mirrors[t].at = "get"
  /\ mirrors' = [mirrors EXCEPT ![t].at = "select"]

\* Told to end; what is left in the channel is lost.
MirrorExit(t) ==
  /\ mirrors[t].at = "select"
  /\ mirrors[t].exit
  /\ mirrors' = [mirrors EXCEPT ![t] = [NewMirror EXCEPT !.at = "done", !.exit = TRUE]]

\* Something came from the mirror and is thrown away, or reading it failed and the
\* next get makes another connection.
MirrorRecv(t) ==
  /\ mirrors[t].at = "select"
  /\ mirrors' = [mirrors EXCEPT ![t].at = "get"]

\* Mutation of MirrorSend: a message that cannot be sent stays where it is, and so
\* does one that can.
Mut_MirrorSend(t) ==
  /\ mirrors[t].at = "select"
  /\ mirrors[t].bytes # <<>>
  /\ mirrors' = [mirrors EXCEPT ![t].at = "get", ![t].last = Head(mirrors[t].bytes)]

\* A message for the mirror: sent, or lost with the connection.
MirrorSend(t) ==
  /\ mirrors[t].at = "select"
  /\ mirrors[t].bytes # <<>>
  /\ \/ mirrors' = [mirrors EXCEPT ![t].at = "get", ![t].bytes = Tail(@),
                                   ![t].last = Head(mirrors[t].bytes)]
     \/ mirrors' = [mirrors EXCEPT ![t].at = "get", ![t].bytes = Tail(@)]

MirrorTask(t) == MirrorGet(t) \/ MirrorExit(t) \/ MirrorRecv(t) \/ MirrorSend(t)
=============================================================================
