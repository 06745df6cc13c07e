--------------------------- MODULE ClientSession ---------------------------
(***************************************************************************)
(* The connections of one bb8 pool (one shard, one server address) and the *)
(* client tasks that use them: checkout, claim, parameter sync, the        *)
(* transaction loop, check-in cleanup, release, and query cancellation     *)
(* through the ClientServerMap (client.rs, server.rs, pool.rs).            *)
(*                                                                         *)
(* A step is the code a task runs between two awaits.  A query is sent in  *)
(* one step and its response handled in a later one, so that other tasks,  *)
(* cancel requests in particular, act while the query runs.                *)
(***************************************************************************)
EXTENDS Naturals

CONSTANTS
  Clients,             \* client tasks, each with its own (process_id, secret_key)
  Conns,               \* the connection slots of the bb8 pool
  None,                \* "no connection"
  Closed,              \* the key of a server connection that no longer exists
  Workload,            \* the kinds of messages the clients send
  TransactionMode,     \* pool_mode = transaction (else session)
  CleanupConnections   \* cleanup_server_connections

VARIABLES
  pc,       \* where the client's task is inside Client::handle
  msg,      \* the client message being processed
  how,      \* how the current checkout ends
  conn,     \* the connection the client holds
  map,      \* ClientServerMap: the server a client may cancel
  cancel,   \* the CancelRequest being handled for a client's key
  slot,     \* bb8's view of a connection: empty, idle or held
  server,   \* pgcat's view of a connection: the fields of struct Server
  backend,  \* the state of the Postgres session behind it
  hit,      \* the query running on a connection was cancelled
  taint     \* history: what has happened to a connection since it was opened

taskVars == <<pc, msg, how, conn>>
vars == <<pc, msg, how, conn, map, cancel, slot, server, backend, hit, taint>>

-----------------------------------------------------------------------------
(* Messages, abstracted to what they do to the server.                     *)

\* Sent to the server and answered by it: a simple Query, or the buffered
\* extended-protocol messages followed by Sync.  "copytwice" is a Query with
\* two COPY FROM STDIN statements, "parse_named" a Parse that names its
\* statement while prepared statements are disabled in the pool.
Queries ==
  {"select", "begin", "commit", "rollback", "set", "prepare", "fail",
   "copyin", "begincopy", "copytwice", "parse_named"}

\* Handled without a round trip: buffered messages, a Bind or Describe of a
\* statement the client never prepared, a query a plugin answers, a Sync with
\* nothing to send; and CopyDone/CopyFail and Terminate.
Messages ==
  Queries \cup {"buffer", "unknown_statement", "plugin", "sync_only",
                "copydone", "terminate"}

ASSUME ConstantsAssumption ==
  /\ None \notin Conns
  /\ Closed \notin Conns
  /\ None # Closed
  /\ Workload \subseteq Messages
  /\ TransactionMode \in BOOLEAN
  /\ CleanupConnections \in BOOLEAN

\* A query is running on the connection the task holds.
Waiting  == {"health", "sync", "recv", "rollback", "reset"}
Holding  == Waiting \cup {"send", "txread", "release", "drop"}
PcValues == Holding \cup {"idle", "checkout", "returned", "gone"}

-----------------------------------------------------------------------------
(* The Postgres session behind a connection (external).                    *)

\* copy: COPY FROM STDIN statements still to be fed; set: "session" after a
\* SET outside a transaction block, "untracked" after one inside a block;
\* prep: the session holds prepared statements.
BackendState ==
  [tx: {"I", "T", "E"}, copy: 0..2,
   set: {"clean", "session", "untracked"}, prep: BOOLEAN]

FreshBackend == [tx |-> "I", copy |-> 0, set |-> "clean", prep |-> FALSE]

\* A statement fails: an open transaction block becomes a failed one.
Fail(b) ==
  [tx |-> IF b.tx = "T" THEN "E" ELSE b.tx, copy |-> 0, set |-> b.set, prep |-> b.prep]

\* What a query does to the session.  A query that arrives during COPY FROM
\* STDIN only makes the COPY fail, and in a failed block only the statements
\* that end it are executed.
Exec(b, k) ==
  IF k = "fail" \/ (b.copy > 0 /\ k # "copydone") THEN Fail(b)
  ELSE IF k \in {"commit", "rollback"} THEN [b EXCEPT !.tx = "I"]
  ELSE IF b.tx = "E" THEN b
  ELSE [tx   |-> IF k \in {"begin", "begincopy"} THEN "T" ELSE b.tx,
        copy |-> CASE k \in {"copyin", "begincopy"} -> 1
                   [] k = "copytwice" -> 2
                   [] k = "copydone" /\ b.copy > 0 -> b.copy - 1
                   [] OTHER -> b.copy,
        set  |-> CASE k = "set" /\ b.tx = "I" -> "session"
                   [] k = "set" /\ b.tx = "T" /\ b.set = "clean" -> "untracked"
                   [] OTHER -> b.set,
        prep |-> b.prep \/ k \in {"prepare", "parse_named"}]

-----------------------------------------------------------------------------
(* struct Server: the flags pgcat keeps about a connection.                *)

ServerState ==
  [in_transaction: BOOLEAN, in_copy_mode: BOOLEAN, bad: BOOLEAN,
   needs_cleanup_set: BOOLEAN, needs_cleanup_prepare: BOOLEAN]

FreshServer ==
  [in_transaction |-> FALSE, in_copy_mode |-> FALSE, bad |-> FALSE,
   needs_cleanup_set |-> FALSE, needs_cleanup_prepare |-> FALSE]

needs_cleanup(v) == v.needs_cleanup_set \/ v.needs_cleanup_prepare
mark_bad(v) == [v EXCEPT !.bad = TRUE]
mark_dirty(v) == [v EXCEPT !.needs_cleanup_set = TRUE, !.needs_cleanup_prepare = TRUE]
ResetCleanup(v) == [v EXCEPT !.needs_cleanup_set = FALSE, !.needs_cleanup_prepare = FALSE]

\* Mutation of Recv: ReadyForQuery 'E' is not taken for a transaction.
Mut_Recv(v, b, b2, k) ==
  [in_transaction |-> IF b2.copy > 0 THEN v.in_transaction ELSE b2.tx = "T",
   in_copy_mode |-> b2.copy > 0,
   bad |-> v.bad,
   needs_cleanup_set |-> v.needs_cleanup_set \/ (k = "set" /\ ~v.in_transaction),
   needs_cleanup_prepare |-> v.needs_cleanup_prepare \/ k = "prepare"]

\* Server::recv of the answer to query k, which took the session from b to
\* b2.  CopyInResponse ends recv before the ReadyForQuery that carries the
\* transaction state; the command tags SET and PREPARE mark the connection.
Recv(v, b, b2, k) ==
  LET completed == b.tx # "E" /\ b.copy = 0
  IN  [in_transaction |-> IF b2.copy > 0 THEN v.in_transaction ELSE b2.tx # "I",
       in_copy_mode |-> b2.copy > 0,
       bad |-> v.bad,
       needs_cleanup_set |->
         v.needs_cleanup_set \/ (k = "set" /\ completed /\ ~v.in_transaction),
       needs_cleanup_prepare |->
         v.needs_cleanup_prepare \/ (k = "prepare" /\ completed)]

\* The statements of the RESET string that checkin_cleanup puts together.
ExecReset(b, v) ==
  IF b.tx = "E" \/ b.copy > 0 THEN Fail(b)
  ELSE [tx |-> b.tx, copy |-> b.copy,
        set |-> IF v.needs_cleanup_set THEN "clean" ELSE b.set,
        prep |-> b.prep /\ ~v.needs_cleanup_prepare]

\* The query that is answered: the one that was sent, or a failure if it was
\* cancelled while it ran.
Effective(s, k) == IF hit[s] THEN "fail" ELSE k
Executed(s, k) == Exec(backend[s], Effective(s, k))
Received(s, k) == Recv(server[s], backend[s], Executed(s, k), Effective(s, k))

-----------------------------------------------------------------------------
(* Pieces the actions share.                                               *)

Init ==
  /\ pc = [c \in Clients |-> "idle"]
  /\ msg = [c \in Clients |-> "none"]
  /\ how = [c \in Clients |-> "none"]
  /\ conn = [c \in Clients |-> None]
  /\ map = [c \in Clients |-> None]
  /\ cancel = [c \in Clients |-> None]
  /\ slot = [s \in Conns |-> "empty"]
  /\ server = [s \in Conns |-> FreshServer]
  /\ backend = [s \in Conns |-> FreshBackend]
  /\ hit = [s \in Conns |-> FALSE]
  /\ taint = [s \in Conns |-> {}]

\* Connection s is gone, and with it the backend key the map and the cancel
\* requests under way hold.
Forget(s, f) == [c \in Clients |-> IF f[c] = s THEN Closed ELSE f[c]]

CloseConn(s) ==
  /\ slot' = [slot EXCEPT ![s] = "empty"]
  /\ server' = [server EXCEPT ![s] = FreshServer]
  /\ backend' = [backend EXCEPT ![s] = FreshBackend]
  /\ hit' = [hit EXCEPT ![s] = FALSE]
  /\ taint' = [taint EXCEPT ![s] = {}]
  /\ map' = Forget(s, map)
  /\ cancel' = Forget(s, cancel)

\* The connection's session no longer agrees with pgcat's expectations
\* because one of pgcat's own queries was cancelled.
OwnQueryTaint(s) == IF hit[s] THEN taint[s] \cup {"cancel"} ELSE taint[s]

\* Server::checkin_cleanup up to its first await, on a connection whose flags
\* are v: where the task goes.  h is how the checkout ends.
AfterReset(h) == IF h = "error" THEN "drop" ELSE "release"
\* Mutation of AfterRollback: a PREPARE does not count.
Mut_AfterRollback(v, h) ==
  IF v.needs_cleanup_set /\ CleanupConnections THEN "reset" ELSE AfterReset(h)
AfterRollback(v, h) ==
  IF needs_cleanup(v) /\ CleanupConnections THEN "reset" ELSE AfterReset(h)
checkin_cleanup(v, h) ==
  IF v.in_transaction THEN "rollback" ELSE AfterRollback(v, h)

\* COPY mode is only warned about at check-in.
CopyTaint(s, v) == IF v.in_copy_mode THEN taint[s] \cup {"copy"} ELSE taint[s]

\* Mutation of Breaks: COPY mode is not looked at.
Mut_Breaks(v, k) == TransactionMode /\ ~v.in_transaction

\* The transaction loop breaks after the answer to message k.
Breaks(v, k) ==
  TransactionMode /\ ~v.in_transaction /\ (k = "copydone" \/ ~v.in_copy_mode)

\* The iteration of the transaction loop for message k ends with flags v.
EndIteration(c, s, v, k) ==
  /\ msg' = [msg EXCEPT ![c] = "none"]
  /\ pc' = [pc EXCEPT ![c] = IF Breaks(v, k) THEN checkin_cleanup(v, "loop") ELSE "txread"]
  /\ how' = [how EXCEPT ![c] = IF Breaks(v, k) THEN "loop" ELSE @]
  /\ taint' = [taint EXCEPT ![s] = IF Breaks(v, k) THEN CopyTaint(s, v) ELSE @]

\* An error is propagated with `?': the connection is dropped as it is.
ReturnErr(c) ==
  /\ msg' = [msg EXCEPT ![c] = "none"]
  /\ pc' = [pc EXCEPT ![c] = "drop"]
  /\ how' = [how EXCEPT ![c] = "error"]

-----------------------------------------------------------------------------
(* bb8 (external).                                                         *)

\* Postgres accepts a new connection of the pool.
OpenConn(s) ==
  /\ slot[s] = "empty"
  /\ slot' = [slot EXCEPT ![s] = "idle"]
  /\ UNCHANGED <<taskVars, map, cancel, server, backend, hit, taint>>

\* idle_timeout or server_lifetime expires.
ReapConn(s) ==
  /\ slot[s] = "idle"
  /\ CloseConn(s)
  /\ UNCHANGED taskVars

-----------------------------------------------------------------------------
(* Client::handle outside the transaction loop.                            *)

\* A message that needs a server, or that only the transaction loop looks at: a
\* Sync whose Parse a plugin intercepted, a message of unknown code.
StartQuery(c, k) ==
  /\ pc[c] = "idle"
  /\ k \in Workload \cap (Queries \cup {"sync_only", "plugin"})
  /\ pc' = [pc EXCEPT ![c] = "checkout"]
  /\ msg' = [msg EXCEPT ![c] = k]
  /\ UNCHANGED <<how, conn, map, cancel, slot, server, backend, hit, taint>>

\* Terminate, a read error, the shutdown broadcast, or an unknown statement.
LeaveIdle(c) ==
  /\ pc[c] = "idle"
  /\ pc' = [pc EXCEPT ![c] = "returned"]
  /\ how' = [how EXCEPT ![c] = "exit"]
  /\ UNCHANGED <<msg, conn, map, cancel, slot, server, backend, hit, taint>>

\* ConnectionPool::get fails.  The client is told and stays, or it cannot be
\* told or has reached checkout_failure_limit and is disconnected.
FailCheckout(c) ==
  /\ \E p \in {"idle", "returned"} :
       /\ pc' = [pc EXCEPT ![c] = p]
       /\ how' = [how EXCEPT ![c] = IF p = "returned" THEN "error" ELSE "none"]
  /\ msg' = [msg EXCEPT ![c] = "none"]

\* No connection within connect_timeout.
CheckoutFailed(c) ==
  /\ pc[c] = "checkout"
  /\ FailCheckout(c)
  /\ UNCHANGED <<conn, map, cancel, slot, server, backend, hit, taint>>

\* ConnectionPool::get returns: Server::claim, then sync_parameters, which
\* sends a query unless the parameters already agree.
Claim(c, s) ==
  /\ map' = [map EXCEPT ![c] = s]
  /\ \E p \in {"sync", "send"} : pc' = [pc EXCEPT ![c] = p]

\* bb8 hands out an idle connection, which is given to the client at once or
\* after a health check.
Checkout(c, s) ==
  /\ pc[c] = "checkout"
  /\ slot[s] = "idle"
  /\ slot' = [slot EXCEPT ![s] = "held"]
  /\ conn' = [conn EXCEPT ![c] = s]
  /\ \/ Claim(c, s)
     \/ /\ pc' = [pc EXCEPT ![c] = "health"]
        /\ UNCHANGED map
  /\ UNCHANGED <<msg, how, cancel, server, backend, hit, taint>>

\* run_health_check: its query is answered in time, with or without error.
HealthCheckOk(c) ==
  LET s == conn[c] IN
  /\ pc[c] = "health"
  /\ backend' = [backend EXCEPT ![s] = Executed(s, "health_check")]
  /\ server' = [server EXCEPT ![s] = Received(s, "health_check")]
  /\ taint' = [taint EXCEPT ![s] = OwnQueryTaint(s)]
  /\ hit' = [hit EXCEPT ![s] = FALSE]
  /\ Claim(c, s)
  /\ UNCHANGED <<msg, how, conn, cancel, slot>>

\* It times out or the connection breaks: the connection is marked bad and
\* dropped, and no other server is left to try.
HealthCheckFailed(c) ==
  /\ pc[c] = "health"
  /\ CloseConn(conn[c])
  /\ conn' = [conn EXCEPT ![c] = None]
  /\ FailCheckout(c)

\* sync_parameters forgets what cleanup the connection needs.
SyncParameters(c) ==
  LET s == conn[c] IN
  /\ pc[c] = "sync"
  /\ backend' = [backend EXCEPT ![s] = Executed(s, "set_parameters")]
  /\ server' = [server EXCEPT ![s] = ResetCleanup(Received(s, "set_parameters"))]
  /\ taint' = [taint EXCEPT ![s] = OwnQueryTaint(s)]
  /\ hit' = [hit EXCEPT ![s] = FALSE]
  /\ pc' = [pc EXCEPT ![c] = "send"]
  /\ UNCHANGED <<msg, how, conn, map, cancel, slot>>

-----------------------------------------------------------------------------
(* The transaction loop.                                                   *)

\* The message of this iteration: the one the checkout was made for, or one
\* read now.  Clients send CopyDone and CopyFail only during a COPY.
Reads(c, k) ==
  \/ pc[c] = "send" /\ k = msg[c]
  \/ pc[c] = "txread" /\ k \in Workload

SendQuery(c, k) ==
  LET s == conn[c] IN
  /\ Reads(c, k)
  /\ k \in Queries \/ (k = "copydone" /\ server[s].in_copy_mode)
  /\ server' = [server EXCEPT ![s] = IF k = "parse_named" THEN mark_dirty(@) ELSE @]
  /\ msg' = [msg EXCEPT ![c] = k]
  /\ pc' = [pc EXCEPT ![c] = "recv"]
  /\ UNCHANGED <<how, conn, map, cancel, slot, backend, hit, taint>>

\* The answer is received and forwarded to the client.
ReceiveAnswer(c) ==
  LET s == conn[c] IN
  /\ pc[c] = "recv"
  /\ backend' = [backend EXCEPT ![s] = Executed(s, msg[c])]
  /\ hit' = [hit EXCEPT ![s] = FALSE]
  /\ server' = [server EXCEPT ![s] = Received(s, msg[c])]
  /\ EndIteration(c, s, Received(s, msg[c]), msg[c])
  /\ UNCHANGED <<conn, map, cancel, slot>>

\* The answer, or a part of it, cannot be forwarded to the client.
ForwardFails(c) ==
  LET s == conn[c] IN
  /\ pc[c] = "recv"
  /\ server' = [server EXCEPT ![s] = mark_bad(@)]
  /\ ReturnErr(c)
  /\ UNCHANGED <<conn, map, cancel, slot, backend, hit, taint>>

\* Sync with nothing to send to the server is answered by pgcat.
SyncOnly(c) ==
  LET s == conn[c] IN
  /\ Reads(c, "sync_only")
  /\ \/ /\ EndIteration(c, s, server[s], "sync_only")
        /\ UNCHANGED server
     \/ /\ server' = [server EXCEPT ![s] = mark_bad(@)]
        /\ ReturnErr(c)
        /\ UNCHANGED taint
  /\ UNCHANGED <<conn, map, cancel, slot, backend, hit>>

\* A plugin answers, or the code is unknown: nothing is sent to the server and
\* the loop goes on, so that a client whose transaction loop began with this
\* message keeps a connection without a transaction.
PluginAnswers(c) ==
  /\ Reads(c, "plugin")
  /\ pc' = [pc EXCEPT ![c] = "txread"]
  /\ msg' = [msg EXCEPT ![c] = "none"]
  /\ UNCHANGED <<how, conn, map, cancel, slot, server, backend, hit, taint>>

\* Messages that are only buffered leave the loop where it is (no step).
\* What ends the task on the spot: a Bind or Describe of an
\* unknown statement, a message that does not parse, a reply that cannot be
\* written (a plugin's, or the idle transaction timeout's).
AbortTransaction(c) ==
  LET s == conn[c] IN
  /\ \E k \in {"unknown_statement", "plugin"} : Reads(c, k)
  /\ taint' = [taint EXCEPT ![s] = @ \cup {"abort"}]
  /\ ReturnErr(c)
  /\ UNCHANGED <<conn, map, cancel, slot, server, backend, hit>>

\* Terminate: clean up, release, return.  Read error: clean up, return.  Idle
\* timeout (the client is told): break, that is clean up, release, go on.
EndTransaction(c, h) ==
  LET s == conn[c] IN
  /\ pc[c] = "txread"
  /\ h = "exit" => "terminate" \in Workload
  /\ pc' = [pc EXCEPT ![c] = checkin_cleanup(server[s], h)]
  /\ how' = [how EXCEPT ![c] = h]
  /\ taint' = [taint EXCEPT ![s] = CopyTaint(s, server[s])]
  /\ UNCHANGED <<msg, conn, map, cancel, slot, server, backend, hit>>

-----------------------------------------------------------------------------
(* Check-in.                                                               *)

\* The connection fails under a query, or the query times out.
ConnectionError(c) ==
  LET s == conn[c] IN
  /\ pc[c] \in Waiting \ {"health"}
  /\ server' = [server EXCEPT ![s] = mark_bad(@)]
  /\ ReturnErr(c)
  /\ UNCHANGED <<conn, map, cancel, slot, backend, hit, taint>>

RollbackDone(c) ==
  LET s == conn[c] IN
  /\ pc[c] = "rollback"
  /\ backend' = [backend EXCEPT ![s] = Executed(s, "rollback")]
  /\ server' = [server EXCEPT ![s] = Received(s, "rollback")]
  /\ taint' = [taint EXCEPT ![s] = OwnQueryTaint(s)]
  /\ hit' = [hit EXCEPT ![s] = FALSE]
  /\ pc' = [pc EXCEPT ![c] = AfterRollback(server[s], how[c])]
  /\ UNCHANGED <<msg, how, conn, map, cancel, slot>>

ResetDone(c) ==
  LET s  == conn[c]
      b2 == IF hit[s] THEN Fail(backend[s]) ELSE ExecReset(backend[s], server[s])
  IN
  /\ pc[c] = "reset"
  /\ backend' = [backend EXCEPT ![s] = b2]
  /\ server' = [server EXCEPT ![s] = ResetCleanup(Recv(@, backend[s], b2, "RESET"))]
  /\ taint' = [taint EXCEPT ![s] = OwnQueryTaint(s)]
  /\ hit' = [hit EXCEPT ![s] = FALSE]
  /\ pc' = [pc EXCEPT ![c] = AfterReset(how[c])]
  /\ UNCHANGED <<msg, how, conn, map, cancel, slot>>

\* Client::release
Release(c) ==
  /\ pc[c] = "release"
  /\ map' = [map EXCEPT ![c] = None]
  /\ pc' = [pc EXCEPT ![c] = "drop"]
  /\ UNCHANGED <<msg, how, conn, cancel, slot, server, backend, hit, taint>>

\* The PooledConnection goes out of scope and bb8 takes it back unless
\* has_broken: it is bad, or its address has changed in DNS.
DropConn(c) ==
  LET s == conn[c] IN
  /\ pc[c] = "drop"
  /\ \/ /\ ~server[s].bad
        /\ slot' = [slot EXCEPT ![s] = "idle"]
        /\ UNCHANGED <<map, cancel, server, backend, hit, taint>>
     \/ CloseConn(s)
  /\ conn' = [conn EXCEPT ![c] = None]
  /\ pc' = [pc EXCEPT ![c] = IF how[c] = "loop" THEN "idle" ELSE "returned"]
  /\ how' = [how EXCEPT ![c] = IF @ = "loop" THEN "none" ELSE @]
  /\ UNCHANGED msg

\* Mutation of DropClient: the entry stays in the map.
Mut_DropClient(c) ==
  /\ pc[c] = "returned"
  /\ pc' = [pc EXCEPT ![c] = "gone"]
  /\ UNCHANGED <<msg, how, conn, map, cancel, slot, server, backend, hit, taint>>

\* impl Drop for Client, after handle has returned and client_entrypoint has
\* waited to report the disconnection.
DropClient(c) ==
  /\ pc[c] = "returned"
  /\ map' = [map EXCEPT ![c] = None]
  /\ pc' = [pc EXCEPT ![c] = "gone"]
  /\ UNCHANGED <<msg, how, conn, cancel, slot, server, backend, hit, taint>>

-----------------------------------------------------------------------------
(* Query cancellation: a separate task with cancel_mode set, whose Client  *)
(* carries the process_id and secret_key of the client to cancel.          *)

\* The lookup in the ClientServerMap.
CancelLookup(c) ==
  /\ cancel[c] = None
  /\ cancel' = [cancel EXCEPT ![c] = IF map[c] \in Conns THEN map[c] ELSE Closed]
  /\ UNCHANGED <<taskVars, map, slot, server, backend, hit, taint>>

\* Server::cancel.  Postgres ignores the request when no query is running.
CancelSend(c) ==
  LET s == cancel[c] IN
  /\ s \in Conns
  /\ hit' = [hit EXCEPT ![s] = @ \/ \E d \in Clients : conn[d] = s /\ pc[d] \in Waiting]
  /\ cancel' = [cancel EXCEPT ![c] = Closed]
  /\ UNCHANGED <<taskVars, map, slot, server, backend, taint>>

\* The cancel-mode Client is dropped, and with it the key it carries.
CancelDrop(c) ==
  /\ cancel[c] = Closed
  /\ cancel' = [cancel EXCEPT ![c] = None]
  /\ map' = [map EXCEPT ![c] = None]
  /\ UNCHANGED <<taskVars, slot, server, backend, hit, taint>>

-----------------------------------------------------------------------------
\* A step of pgcat's own that needs neither the client nor a long query.
CheckinStep(c) ==
  \/ RollbackDone(c) \/ ResetDone(c)
  \/ Release(c) \/ DropConn(c) \/ DropClient(c)

Next ==
  \/ \E s \in Conns : OpenConn(s) \/ ReapConn(s)
  \/ \E c \in Clients :
       \/ \E k \in Messages : StartQuery(c, k) \/ SendQuery(c, k)
       \/ \E s \in Conns : Checkout(c, s)
       \/ \E h \in {"exit", "error", "loop"} : EndTransaction(c, h)
       \/ LeaveIdle(c) \/ CheckoutFailed(c)
       \/ HealthCheckOk(c) \/ HealthCheckFailed(c) \/ SyncParameters(c)
       \/ ReceiveAnswer(c) \/ ForwardFails(c) \/ SyncOnly(c)
       \/ PluginAnswers(c) \/ AbortTransaction(c) \/ ConnectionError(c)
       \/ CheckinStep(c)
       \/ CancelLookup(c) \/ CancelSend(c) \/ CancelDrop(c)

Spec == Init /\ [][Next]_vars

\* Check-in proceeds: its queries are short, and Postgres answers them or the
\* connection breaks.
FairSpec == Spec /\ \A c \in Clients : WF_vars(CheckinStep(c))

-----------------------------------------------------------------------------
(* Properties.                                                             *)

TypeOK ==
  /\ pc \in [Clients -> PcValues]
  /\ msg \in [Clients -> Messages \cup {"none"}]
  /\ how \in [Clients -> {"none", "loop", "exit", "error"}]
  /\ conn \in [Clients -> Conns \cup {None}]
  /\ map \in [Clients -> Conns \cup {None, Closed}]
  /\ cancel \in [Clients -> Conns \cup {None, Closed}]
  /\ slot \in [Conns -> {"empty", "idle", "held"}]
  /\ server \in [Conns -> ServerState]
  /\ backend \in [Conns -> BackendState]
  /\ hit \in [Conns -> BOOLEAN]
  /\ taint \in [Conns -> SUBSET {"abort", "cancel", "copy"}]

\* The session is as a new client expects it: no transaction, no COPY, and
\* (with cleanup on) nothing left of what pgcat tracks.
Clean(b) ==
  /\ b.tx = "I"
  /\ b.copy = 0
  /\ CleanupConnections => b.set # "session" /\ ~b.prep

CleanDespite(T) ==
  \A s \in Conns : slot[s] = "idle" /\ taint[s] \subseteq T => Clean(backend[s])

\* A connection waiting in the pool carries no transaction, COPY or tracked
\* session state of an earlier client (checkin_cleanup, server.rs:1324), as
\* long as no client task ended on the spot in a transaction, no cancel hit
\* one of pgcat's own queries and the connection was not returned in COPY mode.
IdleClean == CleanDespite({})

\* ... and even after a client task ended on the spot.
CleanDespiteAbort == CleanDespite({"abort"})

\* ... and even after a cancel request hit one of pgcat's own queries.
CleanDespiteCancel == CleanDespite({"cancel"})

\* ... and even after a client left in the middle of a COPY FROM STDIN.
CleanDespiteCopy == CleanDespite({"copy"})

\* A client can only be mapped to a server it holds, or, once its task has
\* returned, to the last one it held until the task is dropped (claim
\* server.rs:1288, release and Drop client.rs:1971, 2089).
MapSound ==
  \A c \in Clients :
    map[c] \in Conns => conn[c] = map[c] \/ pc[c] = "returned"

\* The flags of a good connection say what state the session is in, except
\* that during a COPY the transaction state is not known yet.
Tracks(v, b) ==
  /\ v.in_copy_mode <=> b.copy > 0
  /\ b.copy = 0 => (v.in_transaction <=> b.tx # "I")

\* They cover all the session state that pgcat cleans up.
Covers(v, b) ==
  CleanupConnections =>
    /\ b.set = "session" => v.needs_cleanup_set
    /\ b.prep => v.needs_cleanup_prepare

\* What holds of a connection with flags v, session b and history t while the
\* task that holds it is at p with message m.
Stage(p, m, v, b, t) ==
  /\ v.bad => p = "drop"
  /\ p = "recv" /\ m = "parse_named" => v.needs_cleanup_prepare
  /\ ~v.bad /\ t = {} =>
       /\ p \in {"health", "sync", "release", "drop"} => Clean(b)
       /\ p \in {"rollback", "reset"} => b.copy = 0
       /\ p = "reset" => b.tx = "I"

\* A task holds a connection exactly while it is between checkout and drop,
\* and no two tasks hold the same one.
HeldOnce ==
  /\ \A c \in Clients : pc[c] \in Holding <=> conn[c] # None
  /\ \A c \in Clients : conn[c] # None => slot[conn[c]] = "held"
  /\ \A c, d \in Clients : conn[c] = conn[d] /\ conn[c] # None => c = d

\* Connections nobody holds are good, and slots without one are as new.
Unheld ==
  \A s \in Conns :
    /\ slot[s] # "held" => ~server[s].bad
    /\ slot[s] = "empty" => server[s] = FreshServer /\ backend[s] = FreshBackend

FlagsRight ==
  \A s \in Conns :
    ~server[s].bad =>
      /\ Tracks(server[s], backend[s])
      /\ taint[s] = {} => Covers(server[s], backend[s])

StagesRight ==
  \A c \in Clients :
    conn[c] # None =>
      Stage(pc[c], msg[c], server[conn[c]], backend[conn[c]], taint[conn[c]])

\* A task that goes on gives up its entry in the map before its connection.
ReleasedFirst ==
  \A c \in Clients : pc[c] = "drop" /\ how[c] = "loop" => map[c] \notin Conns

\* The inductive invariant behind IdleClean and MapSound: pgcat's flags never
\* lose track of the session (recv, server.rs:905), so that the steps of
\* check-in decided from them (server.rs:1324) leave the session clean.
SessionInv ==
  /\ TypeOK
  /\ HeldOnce
  /\ Unheld
  /\ FlagsRight
  /\ StagesRight
  /\ IdleClean
  /\ ReleasedFirst
  /\ MapSound

\* A client is mapped to the server it uses as long as it uses it
\* (client.rs:73), so that its queries can be cancelled.
MappedWhileUsing ==
  \A c \in Clients : pc[c] \in {"send", "recv", "txread"} => map[c] = conn[c]

\* A cancel request interrupts a query on a server that the client it is for
\* is using (client.rs:840).
CancelsOwnQuery ==
  [][\A s \in Conns :
       hit'[s] /\ ~hit[s] => \E c \in Clients : cancel[c] = s /\ conn[c] = s]_vars

\* In transaction mode the answer to a client's message makes the client give
\* up its connection only when the transaction is over (client.rs:1166).
KeptUntilOver ==
  [][\A c \in Clients :
       pc[c] = "recv" /\ pc'[c] \in {"rollback", "reset", "release"} =>
         backend'[conn[c]].tx = "I" /\ backend'[conn[c]].copy = 0]_vars

\* No Query asks for two COPY FROM STDIN.
SingleCopies == "copytwice" \notin Workload

\* What KeptUntilOver needs of a session: at most one COPY to be fed, and none in a
\* failed block, so that the answer to a CopyDone ends COPY mode (client.rs:1568).
OneCopy(b) == b.copy <= 1 /\ (b.tx = "E" => b.copy = 0)
CopyInv ==
  /\ \A c \in Clients : msg[c] # "copytwice"
  /\ \A s \in Conns : OneCopy(backend[s])

\* A client that leaves is forgotten: its task ends, its connection is given
\* back and its entry leaves the map (client.rs:1971, 2089).
LeaverForgotten ==
  \A c \in Clients :
    how[c] \in {"exit", "error"} ~>
      pc[c] = "gone" /\ conn[c] = None /\ map[c] = None
=============================================================================
