------------------------- MODULE PreparedStatements -------------------------
(***************************************************************************)
(* Prepared statements in transaction mode (client.rs, server.rs, pool.rs, *)
(* messages.rs).  A client's Parse is renamed to PGCAT_n through the cache *)
(* of the pool; Parse, Bind and Close are buffered until Sync; the buffer  *)
(* is then drained against the statement cache of the server that was      *)
(* checked out, and what is left is sent.                                  *)
(*                                                                         *)
(* Describe of a statement is rewritten and ensured exactly as Bind is, so *)
(* Bind stands for both; Execute and portal messages are passed through.   *)
(***************************************************************************)
EXTENDS Naturals, Sequences

CONSTANTS
  Clients,      \* client tasks with prepared statements enabled
  Names,        \* the statement names the clients use
  Texts,        \* statements: query text and parameter types
  BadTexts,     \* the statements Postgres refuses to parse
  Servers,      \* server connections of the pool
  None,         \* "nothing": no server, no statement under a name
  CacheSize,    \* prepared_statements_cache_size, of the pool and of a server
  MaxBuffered,  \* bound: messages a client sends between two Syncs
  MaxCounter    \* bound: statements named PGCAT_n over the run

ASSUME ConstantsAssumption ==
  /\ BadTexts \subseteq Texts
  /\ None \notin Servers
  /\ CacheSize \in Nat \ {0}
  /\ MaxBuffered \in Nat /\ MaxCounter \in Nat

VARIABLES
  counter,   \* PREPARED_STATEMENT_COUNTER
  pool,      \* ConnectionPool::prepared_statement_cache, most recent first
  mine,      \* Client::prepared_statements
  ebuf,      \* Client::extended_protocol_data_buffer
  out,       \* Client::buffer: what goes to the server at Sync
  pc,        \* idle, drain (of ebuf), exchange (of out), txread or gone
  conn,      \* the server the client holds
  failed,    \* Postgres skips the messages up to Sync after an error
  cache,     \* Server::prepared_statement_cache: names, most recent first
  reg,       \* Server::registering_prepared_statement
  needs,     \* Server::cleanup_state.needs_cleanup_prepare
  stmts,     \* external: the statements the Postgres session holds
  tx,        \* external: its transaction status
  born,      \* history: the text a number was given for
  said,      \* history: the text a client last gave a name
  ran,       \* history: what was executed for a client, and what it meant
  lost,      \* history: a Bind of a valid statement that the server did not
             \* have: the taint of the server, and was it this one that was ensured
  taint      \* history: why a server's cache may have gone wrong

clientVars == <<mine, ebuf, out, pc, conn, failed, said, ran, lost>>
serverVars == <<cache, reg, needs, stmts, tx, taint>>
vars == <<counter, born, pool, mine, ebuf, out, pc, conn, failed, cache, reg, needs,
          stmts, tx, said, ran, lost, taint>>

-----------------------------------------------------------------------------
(* The lru crate: a sequence without repetitions, most recent first.       *)

Elems(q) == {q[i] : i \in DOMAIN q}
Without(q, i) == [j \in 1..(Len(q) - 1) |-> IF j < i THEN q[j] ELSE q[j + 1]]
At(q, x) == CHOOSE i \in DOMAIN q : q[i] = x
Popped(q, x) == IF x \in Elems(q) THEN Without(q, At(q, x)) ELSE q
Promoted(q, x) == IF x \in Elems(q) THEN <<x>> \o Without(q, At(q, x)) ELSE q

\* A push of a new element evicts the least recent one when the cache is full.
Full(q) == Len(q) >= CacheSize
Pushed(q, x) == <<x>> \o (IF Full(q) THEN Without(q, Len(q)) ELSE q)
Evicted(q) == IF Full(q) THEN {q[Len(q)]} ELSE {}

-----------------------------------------------------------------------------
(* A rewritten Parse is [name, text]; the pool keys it by the hash of the  *)
(* text, taken to tell the texts apart.                                    *)

Parses == [name: Nat, text: Texts]

InPool(t) == \E p \in Elems(pool) : p.text = t
Cached(t) == CHOOSE p \in Elems(pool) : p.text = t

\* Mutation of Rewritten: statements are named after their place in the cache.
Mut_Rewritten(t) == [name |-> IF Full(pool) THEN 0 ELSE Len(pool), text |-> t]

\* Parse::rewrite
Rewritten(t) == [name |-> counter, text |-> t]

\* PreparedStatementCache::get_or_insert
get_or_insert(t) ==
  IF InPool(t)
  THEN /\ pool' = Promoted(pool, Cached(t))
       /\ UNCHANGED <<counter, born>>
  ELSE /\ counter < MaxCounter
       /\ counter' = counter + 1
       /\ born' = [k \in 0..counter |-> IF k = counter THEN t ELSE born[k]]
       /\ pool' = Pushed(pool, Rewritten(t))

\* ConnectionPool::promote_prepared_statement_hash
promote(p) == pool' = IF InPool(p.text) THEN Promoted(pool, Cached(p.text)) ELSE pool

-----------------------------------------------------------------------------
(* The Postgres session (external).                                        *)

HasStmt(s, k) == \E p \in stmts[s] : p.name = k
ParseFails(s, p) == tx[s] = "E" \/ p.text \in BadTexts \/ HasStmt(s, p.name)
AfterError(s) == IF tx[s] = "T" THEN "E" ELSE tx[s]
Deallocated(set, gone) == {p \in set : p.name \notin gone}

-----------------------------------------------------------------------------
(* The client: messages before Sync.                                       *)

Reads(c) == pc[c] \in {"idle", "txread"} /\ Len(ebuf[c]) < MaxBuffered

\* buffer_parse: the statement is renamed and the client's map updated now.
Parse(c, n, t) ==
  /\ Reads(c)
  /\ get_or_insert(t)
  /\ LET p == IF InPool(t) THEN Cached(t) ELSE Rewritten(t) IN
     /\ mine' = [mine EXCEPT ![c][n] = p]
     /\ ebuf' = [ebuf EXCEPT ![c] = Append(@, [op |-> "parse", n |-> n, p |-> p, want |-> t])]
  /\ said' = [said EXCEPT ![c][n] = t]
  /\ UNCHANGED <<out, pc, conn, failed, ran, lost, serverVars>>

\* buffer_bind, buffer_describe: renamed now, ensured when Sync drains it.
Bind(c, n) ==
  /\ Reads(c)
  /\ mine[c][n] # None
  /\ ebuf' = [ebuf EXCEPT ![c] =
                Append(@, [op |-> "bind", n |-> n, p |-> mine[c][n], want |-> said[c][n]])]
  /\ UNCHANGED <<counter, born, pool, mine, out, pc, conn, failed, said, ran, lost, serverVars>>

\* The 'C' arms: a Close is buffered as it is.
Close(c, n) ==
  /\ Reads(c)
  /\ mine[c][n] # None
  /\ ebuf' = [ebuf EXCEPT ![c] =
                Append(@, [op |-> "close", n |-> n, p |-> mine[c][n], want |-> said[c][n]])]
  /\ UNCHANGED <<counter, born, pool, mine, out, pc, conn, failed, said, ran, lost, serverVars>>

\* A task that ends with an error gives its connection back as it is.
Gone(c) ==
  /\ pc' = [pc EXCEPT ![c] = "gone"]
  /\ conn' = [conn EXCEPT ![c] = None]
  /\ ebuf' = [ebuf EXCEPT ![c] = <<>>]
  /\ out' = [out EXCEPT ![c] = <<>>]
  /\ mine' = [mine EXCEPT ![c] = [n \in Names |-> None]]
  /\ said' = [said EXCEPT ![c] = [n \in Names |-> None]]
  /\ taint' = [s \in Servers |->
                 IF s = conn[c] /\ reg[s] # <<>> THEN taint[s] \cup {"unsent"} ELSE taint[s]]

\* buffer_bind, buffer_describe of a name the client never prepared.
BindUnknown(c, n) ==
  /\ Reads(c)
  /\ mine[c][n] = None
  /\ Gone(c)
  /\ UNCHANGED <<counter, born, pool, failed, cache, reg, needs, stmts, tx, ran, lost>>

Free == {s \in Servers : \A c \in Clients : conn[c] # s}

\* Sync: a server is checked out unless the client is inside a transaction.
Sync(c) ==
  /\ ebuf[c] # <<>>
  /\ \/ /\ pc[c] = "idle"
        /\ \E s \in Free : conn' = [conn EXCEPT ![c] = s]
     \/ /\ pc[c] = "txread"
        /\ UNCHANGED conn
  /\ pc' = [pc EXCEPT ![c] = "drain"]
  /\ UNCHANGED <<counter, born, pool, mine, ebuf, out, failed, said, ran, lost, serverVars>>

\* Sync, but the checkout fails: reset_buffered_state.
SyncFails(c) ==
  /\ ebuf[c] # <<>>
  /\ pc[c] = "idle"
  /\ ebuf' = [ebuf EXCEPT ![c] = <<>>]
  /\ UNCHANGED <<counter, born, pool, mine, out, pc, conn, failed, said, ran, lost, serverVars>>

-----------------------------------------------------------------------------
(* The drain at Sync.                                                      *)

\* Names whose Parse, or whose use by a Bind, waits in the client's buffer.
Pending(c, op) == {m.p.name : m \in {x \in Elems(out[c]) : x.op = op}}

\* Server::register_prepared_statement for a name that is not in the cache:
\* queue the name, add it to the cache, close what was evicted, and send the
\* Parse if pgcat initiates it.  The answer pops the front of the queue; an
\* error also drops that name from the cache, and Postgres skips the Close.
Register(c, s, p, send) ==
  LET gone   == Evicted(cache[s])
      added  == Pushed(cache[s], p.name)
      queue  == Append(reg[s], p.name)
      error  == send /\ ParseFails(s, p)
  IN
  /\ cache' = [cache EXCEPT ![s] = IF error THEN Popped(added, Head(queue)) ELSE added]
  /\ reg' = [reg EXCEPT ![s] = IF send THEN Tail(queue) ELSE queue]
  /\ stmts' = [stmts EXCEPT ![s] = IF error THEN @
                                   ELSE Deallocated(IF send THEN @ \cup {p} ELSE @, gone)]
  /\ tx' = [tx EXCEPT ![s] = IF error THEN AfterError(s) ELSE @]
  /\ taint' = [taint EXCEPT ![s] =
       @ \cup (IF send /\ reg[s] # <<>> THEN {"overlap"} ELSE {})
         \cup (IF gone \cap Pending(c, "parse") # {} THEN {"evicted"} ELSE {})
         \cup (IF gone \cap Pending(c, "bind") # {} THEN {"missed"} ELSE {})
         \cup (IF error /\ gone # {} THEN {"unclosed"} ELSE {})]

\* Server::has_prepared_statement (the lookup promotes the name).
Has(s, p) == p.name \in Elems(cache[s])
Hit(s, p) ==
  /\ cache' = [cache EXCEPT ![s] = Promoted(@, p.name)]
  /\ UNCHANGED <<reg, stmts, tx, taint>>

Drains(c, op) == pc[c] = "drain" /\ ebuf[c] # <<>> /\ Head(ebuf[c]).op = op
Drops(c) == ebuf' = [ebuf EXCEPT ![c] = Tail(@)]

\* The message goes to the server; k is the statement that was seen to.
Sends(c, k) ==
  LET m == Head(ebuf[c]) IN
  out' = [out EXCEPT ![c] =
            Append(@, [op |-> m.op, p |-> m.p, want |-> m.want, ensured |-> k])]

\* ExtendedProtocolData::Parse: answered by pgcat if the server has it.
DrainParse(c) ==
  /\ Drains(c, "parse")
  /\ LET p == Head(ebuf[c]).p IN
     \/ /\ Has(conn[c], p)
        /\ Hit(conn[c], p)
        /\ UNCHANGED <<out, pool>>
     \/ /\ ~Has(conn[c], p)
        /\ promote(p)
        /\ Register(c, conn[c], p, FALSE)
        /\ Sends(c, p.name)
  /\ Drops(c)
  /\ UNCHANGED <<counter, born, mine, pc, conn, failed, needs, said, ran, lost>>

\* ensure_prepared_statement_is_on_server, with the client's map of now; a
\* statement the server refuses is forgotten, and the Bind sent all the same.
DrainBind(c) ==
  /\ Drains(c, "bind")
  /\ LET n == Head(ebuf[c]).n
         p == mine[c][n]
         s == conn[c]
     IN
     /\ p # None
     /\ promote(p)
     /\ \/ /\ Has(s, p)
           /\ Hit(s, p)
           /\ UNCHANGED mine
        \/ /\ ~Has(s, p)
           /\ Register(c, s, p, TRUE)
           /\ mine' = IF p.name \in Elems(cache'[s]) THEN mine ELSE [mine EXCEPT ![c][n] = None]
     /\ Sends(c, p.name)
  /\ Drops(c)
  /\ UNCHANGED <<counter, born, pc, conn, failed, needs, said, ran, lost>>

\* The same when the client's map lost the name since the Bind was buffered.
DrainBindUnknown(c) ==
  /\ Drains(c, "bind")
  /\ mine[c][Head(ebuf[c]).n] = None
  /\ Gone(c)
  /\ UNCHANGED <<counter, born, pool, failed, cache, reg, needs, stmts, tx, ran, lost>>

\* ExtendedProtocolData::Close: the client's map forgets the name.
DrainClose(c) ==
  /\ Drains(c, "close")
  /\ mine' = [mine EXCEPT ![c][Head(ebuf[c]).n] = None]
  /\ Drops(c)
  /\ UNCHANGED <<counter, born, pool, out, pc, conn, failed, said, ran, lost, serverVars>>

\* The buffer is sent.  A Sync alone is answered by pgcat; both ways the
\* exchange ends in Done.
Drained(c) ==
  /\ pc[c] = "drain"
  /\ ebuf[c] = <<>>
  /\ pc' = [pc EXCEPT ![c] = "exchange"]
  /\ UNCHANGED <<counter, born, pool, mine, ebuf, out, conn, failed, said, ran, lost, serverVars>>

-----------------------------------------------------------------------------
(* The exchange: Postgres takes the messages in order, and recv what it    *)
(* answers.                                                                *)

Exchanges(c, op) == pc[c] = "exchange" /\ out[c] # <<>> /\ Head(out[c]).op = op
Took(c) == out' = [out EXCEPT ![c] = Tail(@)]

\* Mutation of ErrorResponse: the failed statement stays in the cache.
Mut_ErrorResponse(s) ==
  /\ reg' = [reg EXCEPT ![s] = IF @ = <<>> THEN @ ELSE Tail(@)]
  /\ tx' = [tx EXCEPT ![s] = AfterError(s)]
  /\ UNCHANGED cache

\* recv, 'E': the front of the queue leaves the queue and the cache.
ErrorResponse(s) ==
  /\ reg' = [reg EXCEPT ![s] = IF @ = <<>> THEN @ ELSE Tail(@)]
  /\ cache' = [cache EXCEPT ![s] = IF reg[s] = <<>> THEN @ ELSE Popped(@, Head(reg[s]))]
  /\ tx' = [tx EXCEPT ![s] = AfterError(s)]

\* recv, '1' (ParseComplete).
ParseComplete(s) == reg' = [reg EXCEPT ![s] = IF @ = <<>> THEN @ ELSE Tail(@)]

\* Skipped messages are not answered at all.
AnswerSkipped(c) ==
  /\ pc[c] = "exchange" /\ out[c] # <<>>
  /\ failed[c]
  /\ Took(c)
  /\ UNCHANGED <<counter, born, pool, mine, ebuf, pc, conn, failed, said, ran, lost, serverVars>>

AnswerParse(c) ==
  /\ Exchanges(c, "parse")
  /\ ~failed[c]
  /\ Took(c)
  /\ LET s == conn[c]
         p == Head(out[c]).p
     IN IF ParseFails(s, p)
        THEN /\ ErrorResponse(s)
             /\ failed' = [failed EXCEPT ![c] = TRUE]
             /\ UNCHANGED stmts
        ELSE /\ ParseComplete(s)
             /\ stmts' = [stmts EXCEPT ![s] = @ \cup {p}]
             /\ UNCHANGED <<cache, tx, failed>>
  /\ UNCHANGED <<counter, born, pool, mine, ebuf, pc, conn, needs, said, ran, lost, taint>>

\* A Bind runs the statement the session has under the name, or is refused:
\* there is none, the transaction has failed, or the plan is out of date,
\* which makes pgcat deallocate everything at check-in.
AnswerBind(c) ==
  /\ Exchanges(c, "bind")
  /\ ~failed[c]
  /\ Took(c)
  /\ LET s == conn[c]
         m == Head(out[c])
     IN \/ /\ HasStmt(s, m.p.name) /\ tx[s] # "E"
           /\ \E p \in stmts[s] :
                /\ p.name = m.p.name
                /\ ran' = [ran EXCEPT ![c] = [text |-> p.text, want |-> m.want]]
           /\ UNCHANGED <<failed, cache, reg, tx, needs, lost>>
        \/ /\ HasStmt(s, m.p.name) /\ tx[s] # "E"
           /\ needs' = [needs EXCEPT ![s] = TRUE]
           /\ ErrorResponse(s)
           /\ failed' = [failed EXCEPT ![c] = TRUE]
           /\ UNCHANGED <<ran, lost>>
        \/ /\ ~HasStmt(s, m.p.name) \/ tx[s] = "E"
           /\ ErrorResponse(s)
           /\ failed' = [failed EXCEPT ![c] = TRUE]
           /\ lost' = IF tx[s] # "E" /\ m.p.text \notin BadTexts
                      THEN [lost EXCEPT ![c] = [why |-> taint[s], ensured |-> m.ensured = m.p.name]]
                      ELSE lost
           /\ UNCHANGED <<ran, needs>>
  /\ UNCHANGED <<counter, born, pool, mine, ebuf, pc, conn, stmts, said, taint>>

\* Mutation of Cleaned: the cache is not cleared with the session.
Mut_Cleaned(s) ==
  /\ stmts' = [stmts EXCEPT ![s] = IF needs[s] THEN {} ELSE @]
  /\ needs' = [needs EXCEPT ![s] = FALSE]
  /\ UNCHANGED cache

\* checkin_cleanup after a PREPARE or an outdated plan: DEALLOCATE ALL.
Cleaned(s) ==
  /\ cache' = [cache EXCEPT ![s] = IF needs[s] THEN <<>> ELSE @]
  /\ stmts' = [stmts EXCEPT ![s] = IF needs[s] THEN {} ELSE @]
  /\ needs' = [needs EXCEPT ![s] = FALSE]

\* ReadyForQuery: outside a transaction the connection is checked in.
Done(c) ==
  /\ pc[c] = "exchange" /\ out[c] = <<>>
  /\ LET s == conn[c] IN
     /\ taint' = [taint EXCEPT ![s] = IF reg[s] # <<>> THEN @ \cup {"skipped"} ELSE @]
     /\ IF tx[s] = "I"
        THEN /\ pc' = [pc EXCEPT ![c] = "idle"]
             /\ conn' = [conn EXCEPT ![c] = None]
             /\ Cleaned(s)
        ELSE /\ pc' = [pc EXCEPT ![c] = "txread"]
             /\ UNCHANGED <<conn, cache, stmts, needs>>
  /\ failed' = [failed EXCEPT ![c] = FALSE]
  /\ ran' = [ran EXCEPT ![c] = None]
  /\ lost' = [lost EXCEPT ![c] = None]
  /\ UNCHANGED <<counter, born, pool, mine, ebuf, out, reg, tx, said>>

-----------------------------------------------------------------------------
(* Simple queries that matter here, and the end of a connection.           *)

\* BEGIN on a fresh checkout.
Begin(c) ==
  /\ pc[c] = "idle" /\ ebuf[c] = <<>>
  /\ \E s \in Free :
       /\ conn' = [conn EXCEPT ![c] = s]
       /\ tx' = [tx EXCEPT ![s] = IF @ = "I" THEN "T" ELSE @]
  /\ pc' = [pc EXCEPT ![c] = "txread"]
  /\ UNCHANGED <<counter, born, pool, mine, ebuf, out, failed, cache, reg, needs, stmts,
                 said, ran, lost, taint>>

\* COMMIT or ROLLBACK, then the check-in.
End(c) ==
  /\ pc[c] = "txread" /\ ebuf[c] = <<>>
  /\ tx' = [tx EXCEPT ![conn[c]] = "I"]
  /\ Cleaned(conn[c])
  /\ pc' = [pc EXCEPT ![c] = "idle"]
  /\ conn' = [conn EXCEPT ![c] = None]
  /\ UNCHANGED <<counter, born, pool, mine, ebuf, out, failed, reg, said, ran, lost, taint>>

\* PREPARE outside a transaction: its tag asks for DEALLOCATE ALL at check-in.
\* The statement has a name of the client's own and is gone with the check-in.
PrepareQuery(c) ==
  /\ pc[c] = "idle" /\ ebuf[c] = <<>>
  /\ \E s \in Free :
       /\ tx[s] = "I"
       /\ cache' = [cache EXCEPT ![s] = <<>>]
       /\ stmts' = [stmts EXCEPT ![s] = {}]
  /\ UNCHANGED <<counter, born, pool, clientVars, reg, needs, tx, taint>>

\* DEALLOCATE ALL or DISCARD ALL by a client: pgcat does not look for it.
Discard(c) ==
  /\ pc[c] = "idle" /\ ebuf[c] = <<>>
  /\ \E s \in Free :
       /\ tx[s] = "I"
       /\ stmts' = [stmts EXCEPT ![s] = {}]
       /\ taint' = [taint EXCEPT ![s] = @ \cup {"discarded"}]
  /\ UNCHANGED <<counter, born, pool, clientVars, cache, reg, needs, tx>>

\* bb8 replaces an idle connection.
Reconnect(s) ==
  /\ s \in Free
  /\ cache' = [cache EXCEPT ![s] = <<>>]
  /\ reg' = [reg EXCEPT ![s] = <<>>]
  /\ needs' = [needs EXCEPT ![s] = FALSE]
  /\ stmts' = [stmts EXCEPT ![s] = {}]
  /\ tx' = [tx EXCEPT ![s] = "I"]
  /\ taint' = [taint EXCEPT ![s] = {}]
  /\ UNCHANGED <<counter, born, pool, clientVars>>

-----------------------------------------------------------------------------
Init ==
  /\ counter = 0 /\ born = <<>> /\ pool = <<>>
  /\ mine = [c \in Clients |-> [n \in Names |-> None]]
  /\ ebuf = [c \in Clients |-> <<>>]
  /\ out = [c \in Clients |-> <<>>]
  /\ pc = [c \in Clients |-> "idle"]
  /\ conn = [c \in Clients |-> None]
  /\ failed = [c \in Clients |-> FALSE]
  /\ cache = [s \in Servers |-> <<>>]
  /\ reg = [s \in Servers |-> <<>>]
  /\ needs = [s \in Servers |-> FALSE]
  /\ stmts = [s \in Servers |-> {}]
  /\ tx = [s \in Servers |-> "I"]
  /\ said = [c \in Clients |-> [n \in Names |-> None]]
  /\ ran = [c \in Clients |-> None]
  /\ lost = [c \in Clients |-> None]
  /\ taint = [s \in Servers |-> {}]

Next ==
  \/ \E c \in Clients, n \in Names, t \in Texts : Parse(c, n, t)
  \/ \E c \in Clients, n \in Names : Bind(c, n) \/ Close(c, n) \/ BindUnknown(c, n)
  \/ \E c \in Clients : Sync(c) \/ SyncFails(c)
  \/ \E c \in Clients : DrainParse(c) \/ DrainBind(c) \/ DrainBindUnknown(c) \/ DrainClose(c)
  \/ \E c \in Clients : Drained(c) \/ AnswerSkipped(c) \/ AnswerParse(c) \/ AnswerBind(c)
  \/ \E c \in Clients : Done(c) \/ Begin(c) \/ End(c) \/ PrepareQuery(c) \/ Discard(c)
  \/ \E s \in Servers : Reconnect(s)

Spec == Init /\ [][Next]_vars

-----------------------------------------------------------------------------
(* Properties.                                                             *)

Messages == [op: {"parse", "bind", "close"}, n: Names, p: Parses, want: Texts]
Sent == [op: {"parse", "bind"}, p: Parses, want: Texts, ensured: Nat]
Causes == {"overlap", "evicted", "missed", "unclosed", "skipped", "unsent", "discarded"}

TypeOK ==
  /\ counter \in Nat
  /\ born \in [0..(counter - 1) -> Texts]
  /\ pool \in Seq(Parses)
  /\ mine \in [Clients -> [Names -> Parses \cup {None}]]
  /\ ebuf \in [Clients -> Seq(Messages)]
  /\ out \in [Clients -> Seq(Sent)]
  /\ pc \in [Clients -> {"idle", "drain", "exchange", "txread", "gone"}]
  /\ conn \in [Clients -> Servers \cup {None}]
  /\ failed \in [Clients -> BOOLEAN]
  /\ cache \in [Servers -> Seq(Nat)]
  /\ reg \in [Servers -> Seq(Nat)]
  /\ needs \in [Servers -> BOOLEAN]
  /\ stmts \in [Servers -> SUBSET Parses]
  /\ tx \in [Servers -> {"I", "T", "E"}]
  /\ said \in [Clients -> [Names -> Texts \cup {None}]]
  /\ ran \in [Clients -> [text: Texts, want: Texts] \cup {None}]
  /\ lost \in [Clients -> [why: SUBSET Causes, ensured: BOOLEAN] \cup {None}]
  /\ taint \in [Servers -> SUBSET Causes]

\* A Bind that Postgres executes runs the text its client had last prepared
\* under the name when it sent the Bind, whatever the other clients prepared,
\* evicted or closed in between (Parse::rewrite, get_or_insert, Bind::rename).
RightText == \A c \in Clients : ran[c] # None => ran[c].text = ran[c].want

\* Why it does: a number stands for one text wherever it is stored, in the cache
\* of the pool, a client's map, a buffered message or a Postgres session; and a
\* client's map holds the text it last gave the name.
Numbered(p) == p.name < counter /\ p.text = born[p.name]

\* The inductive invariant behind RightText: every number that is stored or under way
\* is one the counter gave out (messages.rs), with the text it was given out for.
StatementInv ==
  /\ TypeOK
  /\ \A p \in Elems(pool) : Numbered(p)
  /\ \A s \in Servers : \A p \in stmts[s] : Numbered(p)
  /\ \A c \in Clients :
       /\ \A n \in Names : mine[c][n] # None =>
            Numbered(mine[c][n]) /\ said[c][n] = mine[c][n].text
       /\ \A i \in DOMAIN ebuf[c] : Numbered(ebuf[c][i].p) /\ ebuf[c][i].want = ebuf[c][i].p.text
       /\ \A i \in DOMAIN out[c] : Numbered(out[c][i].p) /\ out[c][i].want = out[c][i].p.text
       /\ pc[c] \in {"drain", "exchange", "txread"} => conn[c] \in Servers
  /\ RightText

\* The statement cache of an idle connection is exact (register_prepared_statement,
\* recv 'E' and '1', checkin_cleanup) unless one of the known causes struck:
\* a registration while another was queued, the eviction of a statement not yet
\* parsed, an error that left an evicted one unclosed or more than one queued, a
\* client that ended before its Parse was sent, a DEALLOCATE ALL by a client.
CacheExact ==
  \A s \in Free :
    taint[s] \subseteq {"missed"} =>
      /\ Elems(cache[s]) = {p.name : p \in stmts[s]}
      /\ reg[s] = <<>>

\* ensure_prepared_statement_is_on_server does what it says on a connection none
\* of the causes struck: a Bind of the statement it ensured finds it there.
EnsuredFound == \A c \in Clients : lost[c] # None => lost[c].why # {} \/ ~lost[c].ensured

\* The Parses under way to a server, and the names queued for their answers: the
\* same, in the same order, each once.
Distinct(q) == \A i, j \in DOMAIN q : q[i] = q[j] => i = j
ParsesIn(o) == {o[i].p.name : i \in {j \in DOMAIN o : o[j].op = "parse"}}
InOrder(o, r) ==
  /\ Distinct(r)
  /\ Elems(r) = ParsesIn(o)
  /\ \A i, j \in DOMAIN o :
       o[i].op = "parse" /\ o[j].op = "parse" /\ i < j =>
         /\ o[i].p.name # o[j].p.name
         /\ \A a, b \in DOMAIN r : r[a] = o[i].p.name /\ r[b] = o[j].p.name => a < b

\* What a cache holds: the statements of the session and those on their way to it;
\* after an error, the statements of the session unless more is queued.
Exact(ca, r, names, o, f) ==
  IF f THEN r = <<>> => Elems(ca) = names
  ELSE InOrder(o, r) /\ Elems(ca) = names \cup ParsesIn(o) /\ names \cap ParsesIn(o) = {}

\* Every Bind under way whose statement was seen to finds it, or Postgres has refused it.
Found(o, names) ==
  \A i \in DOMAIN o :
    o[i].op = "bind" /\ o[i].ensured = o[i].p.name =>
      \/ o[i].p.name \in names
      \/ o[i].p.text \in BadTexts
      \/ \E j \in 1..(i - 1) : o[j].op = "parse" /\ o[j].p.name = o[i].p.name

NamesOf(s) == {p.name : p \in stmts[s]}
Good(s) == taint[s] \subseteq {"missed"}
ExactFor(s, o, f) == Good(s) => Exact(cache[s], reg[s], NamesOf(s), o, f)
FoundFor(s, o, f) == taint[s] = {} /\ ~f /\ tx[s] # "E" => Found(o, NamesOf(s))

\* A client holds a connection from its checkout on; what is sent is answered, and an
\* error over, before the next message is read.
PhaseOK(c) ==
  /\ pc[c] \in {"idle", "gone"} => conn[c] = None
  /\ pc[c] \in {"idle", "gone", "txread"} => out[c] = <<>>
  /\ pc[c] # "exchange" => ~failed[c]

\* The inductive invariant behind CacheExact and EnsuredFound: a connection has one
\* holder, its cache is exact up to the Parses the holder has under way
\* (register_prepared_statement), and so is that of a connection nobody holds.
CacheInv ==
  /\ StatementInv
  /\ \A c, d \in Clients : conn[c] = conn[d] /\ conn[c] # None => c = d
  /\ \A c \in Clients :
       /\ PhaseOK(c)
       /\ conn[c] # None =>
            ExactFor(conn[c], out[c], failed[c]) /\ FoundFor(conn[c], out[c], failed[c])
  /\ \A s \in Servers : Distinct(cache[s])
  /\ \A s \in Free : ExactFor(s, <<>>, FALSE)
  /\ EnsuredFound

\* "Makes sure the the checked out server has the prepared statement and sends
\* it to the server if it doesn't" (client.rs): every Bind of a valid statement
\* the client prepared finds it on the server.
EveryBindFinds == \A c \in Clients : lost[c] = None
=============================================================================
