--------------------------- MODULE ServerProtocol ---------------------------
(***************************************************************************)
(* One server connection and the clients that take turns on it, message by *)
(* message: Server::recv reads one message at a time and returns a chunk,  *)
(* the client task forwards it and calls recv again while data_available   *)
(* says so (server.rs, client.rs).  pgcat's own queries, which sync the    *)
(* tracked parameters at checkout and clean up at check-in, run over the   *)
(* same loop but are not forwarded.  Transaction mode; the tracked         *)
(* parameters are one value, Default after RESET ALL.  A connection that   *)
(* broke is replaced by a new one, which logs in first (ServerStartup).    *)
(***************************************************************************)
EXTENDS ServerStartup

CONSTANTS
  Clients,
  Replies      \* what Postgres answers to a client's message

\* A message is [k, v]: its code, with the tag of a CommandComplete and the
\* status of a ReadyForQuery in it, and the value of a ParameterStatus.
Codes ==
  {"D",                   \* DataRow
   "C", "CSET",           \* CommandComplete; with the tag SET
   "E", "S",              \* ErrorResponse, ParameterStatus
   "G", "H", "d", "c",    \* CopyInResponse, CopyOutResponse, CopyData, CopyDone
   "T",                   \* RowDescription, and whatever else is passed through
   "ZI", "ZT", "ZE"}      \* ReadyForQuery
Message == [k: Codes, v: Params]
Ready == {"ZI", "ZT", "ZE"}
CopyEnds == {"E", "C", "CSET"}

\* How Postgres replies (external): ReadyForQuery is last and only there, CopyData
\* follows a CopyOutResponse, and a COPY succeeds or fails before that.
WellFormed(r) ==
  /\ r \in Seq(Message)
  /\ Len(r) > 0
  /\ \A i \in 1..Len(r) : r[i].k \in Ready <=> i = Len(r)
  /\ \A i \in 1..Len(r) : r[i].k = "d" => \E j \in 1..i : r[j].k = "H"
  /\ \A i \in 1..Len(r) :
       r[i].k \in {"G", "H"} => \E j \in (i + 1)..Len(r) : r[j].k \in CopyEnds

\* No rows before or after a COPY FROM STDIN in one query string, and no other
\* COPY there: pgcat does not cope with those.
Simple(r) ==
  \A i \in 1..Len(r), j \in 1..Len(r) :
    r[i].k = "G" /\ i # j => r[j].k \notin {"D", "G", "H", "d"}

SimpleReplies == \A r \in Replies : Simple(r)

ASSUME ConstantsAssumption ==
  /\ None \notin Clients
  /\ Default \in Params /\ Guess \in Params
  /\ \A r \in Replies : WellFormed(r)

VARIABLES
  pc,         \* pool, held, recv, chunk, told or dead
  ex,         \* the exchange: query, copydone, sync, rollback or reset
  holder,     \* the client that has the connection
  stream,     \* external: the reply Postgres is giving
  sent,       \* external: how many of its messages it has sent
  rd,         \* how many recv has read
  fw,         \* how many the client was given
  in_transaction, in_copy_mode, data_available, needs_set,  \* struct Server
  server_parameters,  \* Server::server_parameters
  session,    \* external: the parameters of the Postgres session
  mine,       \* Client::server_parameters
  refused     \* history: Postgres refused the parameters of the holder

flags == <<in_transaction, in_copy_mode, data_available, needs_set>>
params == <<server_parameters, session, mine, refused>>
vars == <<pc, ex, holder, stream, sent, rd, fw, in_transaction, in_copy_mode,
          data_available, needs_set, server_parameters, session, mine, refused,
          startupVars>>

-----------------------------------------------------------------------------
(* Postgres (external).                                                    *)

\* It stops at a CopyInResponse until the client ends the COPY.
Stops(r, from) ==
  IF \E i \in (from + 1)..Len(r) : r[i].k = "G"
  THEN CHOOSE i \in (from + 1)..Len(r) :
         r[i].k = "G" /\ \A j \in (from + 1)..(i - 1) : r[j].k # "G"
  ELSE Len(r)

\* The parameters are what the last ParameterStatus said.
Reported(r, v) ==
  LET at == {i \in 1..Len(r) : r[i].k = "S"} IN
  IF at = {} THEN v ELSE r[CHOOSE i \in at : \A j \in at : j =< i].v

Msg(k) == [k |-> k, v |-> Default]
Setting(v) == [k |-> "S", v |-> v]

\* A message goes to the server, which answers with r.
Send(e, r) ==
  /\ pc' = "recv"
  /\ ex' = e
  /\ stream' = r
  /\ sent' = Stops(r, 0)
  /\ rd' = 0 /\ fw' = 0
  /\ session' = Reported(r, session)

-----------------------------------------------------------------------------
(* The client task.                                                        *)

\* Checkout and sync_parameters: SET what differs, or nothing to do.  SET of
\* a value Postgres does not accept fails.
Checkout(c) ==
  /\ pc = "pool"
  /\ holder' = c
  /\ refused' = FALSE
  /\ \/ /\ server_parameters = mine[c]
        /\ pc' = "held"
        /\ UNCHANGED <<ex, stream, sent, rd, fw, session>>
     \/ /\ server_parameters # mine[c]
        /\ Send("sync", <<Setting(mine[c]), Msg("CSET"), Msg("ZI")>>)
     \/ /\ server_parameters # mine[c]
        /\ Send("sync", <<Msg("E"), Msg("ZI")>>)
  /\ UNCHANGED <<flags, server_parameters, mine, startupVars>>

\* send_and_receive_loop: a Query, or the buffered messages and Sync.
Query ==
  /\ pc = "held" /\ ~in_copy_mode
  /\ \E r \in Replies : Send("query", r)
  /\ UNCHANGED <<holder, flags, server_parameters, mine, refused, startupVars>>

\* The 'c' | 'f' arm: the end of COPY FROM STDIN, and one call of recv.
CopyDone ==
  /\ pc = "held" /\ in_copy_mode
  /\ pc' = "recv"
  /\ ex' = "copydone"
  /\ sent' = Stops(stream, sent)
  /\ UNCHANGED <<holder, stream, rd, fw, flags, params, startupVars>>

\* Mutations of more_data: CopyOutResponse does not announce more data;
\* ReadyForQuery does not end it.
Mut_more_data(m) == m.k \notin Ready /\ (m.k = "D" \/ data_available)
Mut_more_data_stuck(m) == m.k \in {"D", "H"} \/ data_available

\* data_available after a message.
more_data(m) == m.k \notin Ready /\ (m.k \in {"D", "H"} \/ data_available)

\* What recv makes of a message.
recv_flags(m) ==
  /\ in_transaction' = IF m.k \in Ready THEN m.k # "ZI" ELSE in_transaction
  /\ in_copy_mode' = IF m.k \in {"G", "H"} THEN TRUE
                     ELSE IF m.k \in CopyEnds THEN FALSE ELSE in_copy_mode
  /\ data_available' = more_data(m)
  /\ needs_set' = (needs_set \/ (m.k = "CSET" /\ ~in_transaction))

\* Mutation of ParameterStatus: pgcat's own queries are not tracked.
Mut_ParameterStatus(m) ==
  /\ server_parameters' = IF m.k = "S" /\ ex \in {"query", "copydone"} THEN m.v
                          ELSE server_parameters
  /\ mine' = IF m.k = "S" /\ ex \in {"query", "copydone"}
             THEN [mine EXCEPT ![holder] = m.v] ELSE mine

\* 'S': the server's parameters follow, and the client's if it gets the reply.
ParameterStatus(m) ==
  /\ server_parameters' = IF m.k = "S" THEN m.v ELSE server_parameters
  /\ mine' = IF m.k = "S" /\ ex \in {"query", "copydone"}
             THEN [mine EXCEPT ![holder] = m.v] ELSE mine

\* The loop of recv, one message.  It returns at ReadyForQuery and at the
\* start of a COPY, and at a row or CopyData when its buffer holds 8196 bytes.
Read ==
  /\ pc = "recv"
  /\ rd < sent
  /\ rd' = rd + 1
  /\ LET m == stream[rd + 1] IN
     /\ recv_flags(m)
     /\ ParameterStatus(m)
     /\ refused' = (refused \/ (ex = "sync" /\ m.k = "E"))
     /\ \/ /\ m.k \in Ready \cup {"G", "H", "D", "d"}
           /\ pc' = "chunk"
        \/ /\ m.k \notin Ready \cup {"G", "H"}
           /\ pc' = "recv"
  /\ UNCHANGED <<ex, holder, stream, sent, fw, session, startupVars>>

\* The chunk is written to the client; the answers to pgcat are dropped.
Forward ==
  /\ pc = "chunk"
  /\ pc' = "told"
  /\ fw' = rd
  /\ UNCHANGED <<ex, holder, stream, sent, rd, flags, params, startupVars>>

\* checkin_cleanup and the return to the pool.
Checkin ==
  IF in_transaction
  THEN /\ \E v \in Params : Send("rollback", <<Setting(v), Msg("C"), Msg("ZI")>>)
       /\ UNCHANGED <<holder, needs_set>>
  ELSE IF needs_set
  THEN /\ Send("reset", <<Setting(Default), Msg("C"), Msg("ZI")>>)
       /\ UNCHANGED <<holder, needs_set>>
  ELSE /\ pc' = "pool"
       /\ holder' = None
       /\ UNCHANGED <<ex, stream, sent, rd, fw, session, needs_set>>

Stays ==
  /\ pc' = "held"
  /\ UNCHANGED <<ex, holder, stream, sent, rd, fw, session, needs_set>>

\* The callers of recv go on while there is data, except for the 'c' arm.
More == data_available /\ ex # "copydone"

\* After recv: again, or what follows the exchange.
After ==
  /\ pc = "told"
  /\ \/ /\ More
        /\ pc' = "recv"
        /\ UNCHANGED <<ex, holder, stream, sent, rd, fw, session, needs_set>>
     \/ /\ ~More /\ ex = "query"
        /\ IF ~in_transaction /\ ~in_copy_mode THEN Checkin ELSE Stays
     \/ /\ ~More /\ ex = "copydone"
        /\ IF ~in_transaction THEN Checkin ELSE Stays
     \/ /\ ~More /\ ex = "sync"
        /\ pc' = "held"
        /\ needs_set' = FALSE
        /\ UNCHANGED <<ex, holder, stream, sent, rd, fw, session>>
     \/ /\ ~More /\ ex = "rollback"
        /\ Checkin
     \/ /\ ~More /\ ex = "reset"
        /\ pc' = "pool"
        /\ holder' = None
        /\ needs_set' = FALSE
        /\ UNCHANGED <<ex, stream, sent, rd, fw, session>>
  /\ UNCHANGED <<in_transaction, in_copy_mode, data_available, server_parameters, mine, refused,
                 startupVars>>

\* Terminate between two exchanges.
Terminate ==
  /\ pc = "held" /\ ~in_copy_mode
  /\ Checkin
  /\ UNCHANGED <<in_transaction, in_copy_mode, data_available, server_parameters, mine, refused,
                 startupVars>>

\* The statement timeout, a broken socket on either side: mark_bad, and the
\* task ends.  The Server is dropped, and what is left of the reply with it.
Fails ==
  /\ pc \in {"recv", "chunk"}
  /\ pc' = "dead" /\ ex' = "query" /\ holder' = None
  /\ stream' = <<>> /\ sent' = 0 /\ rd' = 0 /\ fw' = 0
  /\ in_transaction' = FALSE /\ in_copy_mode' = FALSE
  /\ data_available' = FALSE /\ needs_set' = FALSE
  /\ server_parameters' = Default /\ session' = Default /\ refused' = FALSE
  /\ Closes
  /\ UNCHANGED mine

\* bb8 opens a new connection for the broken one.
Startup ==
  /\ pc = "dead"
  /\ Begins \/ BackendHello \/ BackendReply \/ Login \/ StartupBroken
  /\ UNCHANGED <<pc, ex, holder, stream, sent, rd, fw, flags, params>>

\* The Server that startup returns goes to the pool.
Reconnect ==
  /\ pc = "dead" /\ login = "ready"
  /\ pc' = "pool"
  /\ server_parameters' = parameters["tracked"]
  /\ UNCHANGED <<ex, holder, stream, sent, rd, fw, flags, session, mine, refused, startupVars>>

-----------------------------------------------------------------------------
\* Nothing was connected yet.
Init ==
  /\ pc = "dead" /\ ex = "query" /\ holder = None
  /\ stream = <<>> /\ sent = 0 /\ rd = 0 /\ fw = 0
  /\ in_transaction = FALSE /\ in_copy_mode = FALSE
  /\ data_available = FALSE /\ needs_set = FALSE
  /\ server_parameters = Default /\ session = Default
  /\ mine \in [Clients -> Params]
  /\ refused = FALSE
  /\ login = "none" /\ cred = None /\ wire = <<>> /\ reply = None
  /\ parameters = [tracked |-> Guess, version |-> None] /\ process_id = 0
  /\ backend = "closed" /\ pid \in Pids

Next ==
  \/ \E c \in Clients : Checkout(c)
  \/ Query \/ CopyDone \/ Read \/ Forward \/ After \/ Terminate \/ Fails
  \/ Startup \/ Reconnect

Spec == Init /\ [][Next]_vars

\* The task runs, and Postgres answers what it is asked.
Fairness ==
  /\ WF_vars(Read) /\ WF_vars(Forward) /\ WF_vars(After)
  /\ WF_vars(Startup /\ (BackendHello \/ BackendReply \/ Login))
FairSpec == Spec /\ Fairness

-----------------------------------------------------------------------------
(* Properties.                                                             *)

\* "This method must be called multiple times while is_data_available() is true
\* in order to receive all data the server has to offer" (server.rs): between two
\* exchanges, and in the pool, no message of the last reply is left unread.
NothingLeft ==
  pc = "pool" \/ (pc = "held" /\ ~in_copy_mode) => rd = Len(stream) /\ fw = rd

\* What the client knows of the session is true when it may send a query: pgcat's
\* record of the tracked parameters is exact, and they are the client's own unless
\* Postgres refused them (sync_parameters, recv 'S', checkin_cleanup).
ParamsFollow ==
  /\ pc = "pool" => server_parameters = session
  /\ pc = "held" /\ ~in_copy_mode =>
       /\ server_parameters = session
       /\ mine[holder] = session \/ refused

\* The inductive invariant behind it: the last ParameterStatus that was not read yet
\* says what the session has, and without one pgcat knows it; the client learns
\* what pgcat learns, and after the SET at checkout both have the client's value.
LastStatus(i) == stream[i].k = "S" /\ \A j \in (i + 1)..Len(stream) : stream[j].k # "S"
ParamsInv ==
  /\ \A i \in (rd + 1)..Len(stream) : LastStatus(i) => session = stream[i].v
  /\ (\A i \in (rd + 1)..Len(stream) : stream[i].k # "S") => server_parameters = session
  /\ pc = "dead" => session = Default
  /\ pc = "held" \/ (pc \in {"recv", "chunk", "told"} /\ ex \in {"query", "copydone"}) =>
       holder \in Clients /\ (mine[holder] = server_parameters \/ refused)
  /\ pc \in {"recv", "chunk", "told"} /\ ex = "sync" =>
       /\ holder \in Clients
       /\ \/ /\ stream = <<Setting(mine[holder]), Msg("CSET"), Msg("ZI")>>
             /\ rd > 0 => mine[holder] = server_parameters
          \/ /\ stream = <<Msg("E"), Msg("ZI")>>
             /\ rd > 0 => refused

TypeOK ==
  /\ pc \in {"pool", "held", "recv", "chunk", "told", "dead"}
  /\ ex \in {"query", "copydone", "sync", "rollback", "reset"}
  /\ holder \in Clients \cup {None}
  /\ stream \in Seq(Message)
  /\ sent \in Nat /\ rd \in Nat /\ fw \in Nat
  /\ in_transaction \in BOOLEAN /\ in_copy_mode \in BOOLEAN
  /\ data_available \in BOOLEAN
  /\ mine \in [Clients -> Params]

\* The flags say of the part of the reply that was read what recv's callers take
\* them to mean: in_copy_mode, that a COPY began and did not end; data_available,
\* that there were rows or a COPY TO STDOUT and that there is more.
CopyOpen(n) ==
  \E i \in 1..n : /\ stream[i].k \in {"G", "H"}
                  /\ \A j \in (i + 1)..n : stream[j].k \notin CopyEnds
FlagsRight ==
  /\ in_copy_mode <=> CopyOpen(rd)
  /\ data_available <=> rd < Len(stream) /\ \E i \in 1..rd : stream[i].k \in {"D", "H"}

\* A reply of one chunk.
Bare(r) == \A i \in 1..Len(r) : r[i].k \notin {"G", "H", "D", "d"}

\* The inductive invariant behind NothingLeft and ImplementsExchange, for simple
\* replies: how far the reply was sent, read and forwarded in each state, and that
\* recv gives control back in the middle of a reply only when data_available or a
\* COPY FROM STDIN makes its caller come back.
ProtocolInv ==
  /\ TypeOK
  /\ stream # <<>> => WellFormed(stream) /\ Simple(stream)
  /\ fw =< rd /\ rd =< sent /\ sent =< Len(stream)
  /\ FlagsRight
  /\ ex \notin {"query", "copydone"} => Bare(stream)
  /\ pc = "dead" => stream = <<>>
  /\ pc = "pool" => rd = Len(stream) /\ fw = rd
  /\ pc = "held" => fw = rd /\ (rd = Len(stream) \/ (rd > 0 /\ stream[rd].k = "G"))
  /\ pc \in {"chunk", "told"} => rd > 0 /\ stream[rd].k \in Ready \cup {"G", "H", "D", "d"}
  /\ pc = "chunk" => fw < rd
  /\ pc = "told" => fw = rd
  /\ ex = "copydone" => \E i \in 1..rd : /\ stream[i].k = "G"
                                         /\ pc \in {"chunk", "told"} => i < rd

\* The chunked delivery implements the exchange of whole replies (Exchange).
busy == pc \in {"recv", "chunk", "told"} \/ (pc = "held" /\ in_copy_mode)
open == busy /\ ex \in {"query", "copydone"}
E == INSTANCE Exchange WITH
       alive <- pc # "dead",
       open  <- open,
       reply <- IF open THEN stream ELSE <<>>,
       told  <- IF open THEN fw ELSE 0
ImplementsExchange == E!Spec

\* A connection in the pool or with a client has every parameter that its backend
\* announced and the key of that backend, and nothing of the startup is left to be
\* taken for the answer to a query.  After SCRAM its server has shown that it
\* knows the password.
LoginComplete ==
  pc # "dead" =>
    /\ login = "ready"
    /\ backend # "stranger"
    /\ process_id = pid
    /\ parameters = [n \in Names |-> Default]
    /\ wire = <<>>

\* The inductive invariant behind it: what is still to be read of the greeting, and
\* what was made of the part before it.
AllKnown == parameters = [n \in Names |-> Default]
Remaining ==
  \/ /\ backend # "session"
     /\ wire = <<>> \/ \E m \in StartupMessage : wire = <<m>> /\ m.code \in {"R", "E", "N"}
  \/ \E m \in StartupMessage : wire = <<m>> \o Greeting /\ m.code = "R" /\ m.auth = "final"
  \/ wire = Greeting
  \/ wire = <<Status("version"), Status("tracked"), Plainly("K"), Plainly("Z")>>
  \/ wire = <<Status("tracked"), Plainly("K"), Plainly("Z")>> /\ parameters["version"] = Default
  \/ wire = <<Plainly("K"), Plainly("Z")>> /\ AllKnown
  \/ wire = <<Plainly("Z")>> /\ AllKnown /\ process_id = pid
Strangers ==
  backend = "stranger" =>
    /\ login # "ready"
    /\ login = "login" =>
         \E m \in StartupMessage :
           wire = <<m>> \o Greeting /\ m.code = "R" /\ m.auth = "final" /\ m.verifier = <<>>
LoginInv ==
  /\ Strangers
  /\ pc # "dead" => login = "ready"
  /\ login \in {"none", "login", "ready"}
  /\ pid \in Pids
  /\ parameters \in [Names -> Params \cup {None}]
  /\ login = "login" => Remaining
  /\ login = "ready" => process_id = pid /\ AllKnown /\ wire = <<>>

\* Every login comes to an end, also with no password or the wrong one, a method
\* that pgcat does not know, or a refusal: no wait is for a message that will
\* not come.
LoginEnds == login = "login" ~> login # "login"

\* Every exchange comes to an end: recv is not called again once Postgres has
\* said all it will say.
ExchangeEnds == pc \in {"recv", "chunk", "told"} ~> pc \in {"pool", "held", "dead"}
=============================================================================
