---------------------------- MODULE QueryRouter ----------------------------
(***************************************************************************)
(* Where a message goes: the QueryRouter of each client (query_router.rs)  *)
(* and the part of Client::handle that drives it between transactions      *)
(* (client.rs).  The routers share two process-wide caches, the activity   *)
(* of the database and the tables written lately, which other client       *)
(* tasks, a timer and their expiry change in between.                      *)
(*                                                                         *)
(* A statement is abstracted to what routing looks at: its kind, its       *)
(* tables and the comparisons of its conditions.  Only messages that       *)
(* arrive outside a transaction are here: inside one nothing is routed.    *)
(***************************************************************************)
EXTENDS Naturals, Sequences, FiniteSets, SequencesExt

CONSTANTS
  Clients,
  Keys,        \* the integers statements compare columns with
  HashOf,      \* [Keys -> Nat]: the sharding function before its modulo
  None,        \* Option::None
  Settings,    \* the PoolSettings the pool may have
  Reloads,     \* bound: which settings a reload may replace by which
  Queries,     \* what a client sends in Query: [hint, parses, ast] each
  Parses,      \* what it sends in Parse
  Bindings,    \* the parameters it sends in Bind
  Commands,    \* the custom commands it sends
  MaxTimers    \* bound: activity timers running at once

ASSUME ConstantsAssumption ==
  /\ HashOf \in [Keys -> Nat]
  /\ \A s \in Settings : s.shards \in Nat \ {0}
  /\ Reloads \subseteq Settings \X Settings
  /\ \A c \in Clients : \A m \in Parses[c] : Len(m.ast) = 1
  /\ MaxTimers \in Nat

VARIABLES
  settings,   \* the settings of the current pool
  router,     \* [Clients -> Router]: struct QueryRouter
  pc,         \* idle, infer, known, unknown, ready or dead
  cur,        \* the message being handled: its code and its statements
  batch,      \* Parse and Bind messages buffered until Sync: [s, params]
  denied,     \* plugin_output is Some(Deny)
  activity,   \* DATABASE_ACTIVITY_CACHE of the database: none, init or active
  timers,     \* the tasks that will set it to active
  mutated,    \* TABLE_MUTATIONS_CACHE
  pin,        \* history: what SET SERVER ROLE last chose
  noted,      \* history: how the routing of the current message went
  sent        \* history: what this step sent to a server, and where

caches == <<activity, timers, mutated>>
vars == <<settings, router, pc, cur, batch, denied, activity, timers, mutated, pin,
          noted, sent>>

Roles == {"primary", "replica"}
Nothing == [code |-> "", ast |-> <<>>]
Unnoted == [ok |-> TRUE, shard |-> FALSE, recent |-> FALSE]
\* What was noted of a batch no longer holds once another message was routed.
Kept(c) == [Unnoted EXCEPT !.ok = batch[c] = <<>>]

-----------------------------------------------------------------------------
(* Settings and overrides *)

Sharder(k, n) == HashOf[k] % n

query_parser_enabled(q) ==
  IF q.parser = None THEN q.settings.query_parser_enabled ELSE q.parser

primary_reads_enabled(q) ==
  IF q.reads = None THEN q.settings.primary_reads_enabled ELSE q.reads

set_sharding_key(q, k) == [q EXCEPT !.shard = Sharder(k, q.settings.shards)]

\* A comment that names a shard or a key is looked for in Query and Parse.
hinted(q, hint) ==
  CASE "shard" \in DOMAIN hint /\ q.settings.shard_id_regex ->
         [q EXCEPT !.shard = hint.shard]
    [] "key" \in DOMAIN hint /\ q.settings.sharding_key_regex ->
         set_sharding_key(q, hint.key)
    [] OTHER -> q

-----------------------------------------------------------------------------
(* Sharding keys.  An expression is a BinaryOp [op, l, r], a column        *)
(* [col, of], a number [num] or a placeholder [ph].                        *)

IsOp(e) == "op" \in DOMAIN e

\* Is this column, in a query on these tables, the sharding key?
IsKey(e, key, tables) ==
  /\ "col" \in DOMAIN e
  /\ e.col = key.col
  /\ \/ key.of = "*"
     \/ IF e.of = None THEN tables = {key.of} ELSE e.of = key.of

\* The numbers compared with the key, and every placeholder compared with anything.
RECURSIVE selection_parser(_, _, _)
selection_parser(e, key, tables) ==
  LET side(x) == IF IsOp(x) THEN selection_parser(x, key, tables) ELSE {}
      value == IF "ph" \in DOMAIN e.r \/ ("num" \in DOMAIN e.r /\ IsKey(e.l, key, tables))
               THEN {e.r} ELSE {}
  IN  IF e.op \in {"=", "AND", "OR"} THEN side(e.l) \cup side(e.r) \cup value ELSE {}

\* The tables a statement names; of a DELETE, only those of its USING clause.
table_names(s) ==
  IF s.kind \in {"insert", "update"} THEN {s.target} \cup s.from
  ELSE IF s.kind \in {"query", "delete"} THEN s.from ELSE {}

sharding_keys(s, key) ==
  UNION {selection_parser(e, key, table_names(s)) : e \in s.exprs}

\* The one shard of all the numbers found, if it is one.
OneOf(S) == IF Cardinality(S) = 1 THEN CHOOSE x \in S : TRUE ELSE None

-----------------------------------------------------------------------------
(* infer, a loop over the statements of a message.  Its local variables:   *)
(* q the router, mut the mutation cache, prev the shard inferred before,   *)
(* hit and wrote the two flags, end how the loop was left.                 *)

\* Mutation of infer_shard: the shard of an earlier statement is forgotten.
Mut_infer_shard(a, s) ==
  LET key == a.q.settings.automatic_sharding_key
      keys == sharding_keys(s, key)
      found == OneOf({Sharder(e.num, a.q.settings.shards) : e \in {k \in keys : "num" \in DOMAIN k}})
      b == [a EXCEPT !.q.placeholders = @ \cup {e.ph : e \in {k \in keys : "ph" \in DOMAIN k}}]
  IN  IF key = None THEN a
      ELSE IF found = None THEN b ELSE [b EXCEPT !.prev = found, !.q.shard = found]

\* infer_shard or infer_shard_on_write, then handle_inferred_shard.
infer_shard(a, s) ==
  LET key == a.q.settings.automatic_sharding_key
      keys == sharding_keys(s, key)
      found == OneOf({Sharder(e.num, a.q.settings.shards) : e \in {k \in keys : "num" \in DOMAIN k}})
      b == [a EXCEPT !.q.placeholders = @ \cup {e.ph : e \in {k \in keys : "ph" \in DOMAIN k}}]
  IN  CASE key = None -> a
        [] key # None /\ s.kind = "update" /\ key.of = "*" /\ key.col \in s.sets ->
             [a EXCEPT !.end = "err"]
        [] OTHER ->
             IF found = None THEN b
             ELSE IF a.prev \notin {None, found} THEN [b EXCEPT !.end = "err"]
             ELSE [b EXCEPT !.prev = found, !.q.shard = found]

\* Mutation of infer_read: a read sends the whole message to a replica.
Mut_infer_read(a, s) ==
  IF s.locks \/ s.mutation THEN [a EXCEPT !.q.role = "primary"]
  ELSE [a EXCEPT !.q.role = IF primary_reads_enabled(a.q) THEN None ELSE "replica"]

infer_read(a, s) ==
  IF s.locks \/ s.mutation THEN [a EXCEPT !.q.role = "primary"]
  ELSE IF a.wrote THEN a
  ELSE [a EXCEPT !.q.role = IF primary_reads_enabled(a.q) THEN None ELSE "replica"]

\* Mutation of infer_query: a hit does not end the search for a role.
Mut_infer_query(a, s) ==
  LET hit == a.q.settings.db_activity_based_routing /\ table_names(s) \cap a.mut # {}
      b == infer_shard(a, s)
  IN  IF hit THEN [a EXCEPT !.q.role = "primary"]
      ELSE IF b.end = "err" THEN b ELSE infer_read(b, s)

infer_query(a, s) ==
  LET hit == a.q.settings.db_activity_based_routing /\ table_names(s) \cap a.mut # {}
      b == infer_shard(a, s)
  IN  IF a.hit THEN a
      ELSE IF hit THEN [a EXCEPT !.q.role = "primary", !.hit = TRUE]
      ELSE IF b.end = "err" THEN b ELSE infer_read(b, s)

infer_write(a, s) ==
  LET m == IF a.q.settings.db_activity_based_routing THEN table_names(s) ELSE {}
      b == infer_shard([a EXCEPT !.mut = @ \cup m], s)
  IN  IF b.end = "err" THEN b ELSE [b EXCEPT !.wrote = TRUE, !.q.role = "primary"]

infer_statement(a, s) ==
  CASE a.end # ""        -> a
    [] a.end = "" /\ s.kind = "begin" -> [a EXCEPT !.q.role = "primary", !.end = "break"]
    [] a.end = "" /\ s.kind = "query" -> infer_query(a, s)
    [] OTHER             -> infer_write(a, s)

\* init: the database was found to be initializing.
infer(q, ast, init) ==
  LET a == [q |-> IF init THEN [q EXCEPT !.role = "primary"] ELSE q, mut |-> mutated,
            prev |-> None, hit |-> init, wrote |-> FALSE, end |-> ""]
  IN  IF ast = <<>> THEN [a EXCEPT !.q.role = "primary", !.end = "err"]
      ELSE FoldLeft(infer_statement, a, ast)

-----------------------------------------------------------------------------
(* Plugins: table_access denies, intercept answers itself.                 *)

Denies(q, ast) ==
  \E i \in DOMAIN ast : (table_names(ast[i]) \cup {ast[i].target}) \cap q.settings.denied # {}
Intercepts(q, ast) == \E i \in DOMAIN ast : ast[i] \in q.settings.intercepted

execute_plugins(q, ast) ==
  IF Intercepts(q, ast) THEN "intercept" ELSE IF Denies(q, ast) THEN "deny" ELSE "allow"

-----------------------------------------------------------------------------
NewRouter(s) ==
  [settings |-> s, role |-> s.default_role, shard |-> None, parser |-> None,
   reads |-> None, placeholders |-> {}]

Init ==
  /\ settings \in Settings
  /\ router = [c \in Clients |-> NewRouter(settings)]
  /\ pc = [c \in Clients |-> "idle"]
  /\ cur = [c \in Clients |-> Nothing]
  /\ batch = [c \in Clients |-> <<>>]
  /\ denied = [c \in Clients |-> FALSE]
  /\ activity = "none" /\ timers = 0 /\ mutated = {}
  /\ pin = [c \in Clients |-> None]
  /\ noted = [c \in Clients |-> Unnoted]
  /\ sent = None

\* Mutation of set_role: the query parser stays on under an explicit role.
Mut_set_role(q, v) ==
  CASE v \in Roles   -> [q EXCEPT !.role = v]
    [] v = "any"     -> [q EXCEPT !.parser = FALSE, !.role = None]
    [] v = "auto"    -> [q EXCEPT !.parser = TRUE, !.role = None]
    [] v = "default" -> [q EXCEPT !.parser = None, !.role = q.settings.default_role]

set_role(q, v) ==
  CASE v \in Roles   -> [q EXCEPT !.parser = FALSE, !.role = v]
    [] v = "any"     -> [q EXCEPT !.parser = FALSE, !.role = None]
    [] v = "auto"    -> [q EXCEPT !.parser = TRUE, !.role = None]
    [] v = "default" -> [q EXCEPT !.parser = None, !.role = q.settings.default_role]

set_reads(q, v) == [q EXCEPT !.reads = IF v = "default" THEN None ELSE v = "on"]

\* SET SHARD to a shard that is not configured keeps the old one.
set_shard(q, v) == IF v < q.settings.shards THEN [q EXCEPT !.shard = v] ELSE q

\* The SET commands; the SHOW commands change nothing.  The key of a SET
\* SHARDING KEY is taken to fit an i64.
Command(c) ==
  /\ pc[c] = "idle"
  /\ \E x \in Commands[c], any \in 0..(router[c].settings.shards - 1) :
       /\ router' = [router EXCEPT ![c] =
            CASE x.set = "role"  -> set_role(@, x.to)
              [] x.set = "reads" -> set_reads(@, x.to)
              [] x.set = "key"   -> set_sharding_key(@, x.to)
              [] x.set = "shard" -> set_shard(@, IF x.to = None THEN any ELSE x.to)]
       /\ pin' = IF x.set = "role" THEN [pin EXCEPT ![c] = x.to] ELSE pin
  /\ noted' = [noted EXCEPT ![c] = Kept(c)]
  /\ sent' = None
  /\ UNCHANGED <<settings, pc, cur, batch, denied, caches>>

-----------------------------------------------------------------------------
(* Messages *)

Parsed(q, m) == query_parser_enabled(q) /\ m.parses
Routed(q, m) == Parsed(q, m) /\ q.settings.query_parser_read_write_splitting

\* Query: the shard comment, then the plugins, then infer.
Query(c) ==
  /\ pc[c] = "idle"
  /\ \E m \in Queries[c] :
       LET q == hinted(router[c], m.hint) IN
       /\ router' = [router EXCEPT ![c] = q]
       /\ IF Parsed(q, m) /\ execute_plugins(q, m.ast) # "allow"
          THEN /\ noted' = [noted EXCEPT ![c] = Kept(c)]
               /\ UNCHANGED <<pc, cur>>
          ELSE /\ pc' = [pc EXCEPT ![c] = IF Routed(q, m) THEN "infer" ELSE "ready"]
               /\ cur' = [cur EXCEPT ![c] = [code |-> "Q", ast |-> m.ast]]
               /\ noted' = [noted EXCEPT ![c] = [Unnoted EXCEPT !.ok = Routed(q, m)]]
  /\ sent' = None
  /\ UNCHANGED <<settings, batch, denied, caches, pin>>

\* Parse: the same, but what a plugin says is kept for later and the message
\* is buffered.
Parse(c) ==
  /\ pc[c] = "idle" /\ batch[c] = <<>>
  /\ \E m \in Parses[c] :
       LET q == hinted(router[c], m.hint) IN
       /\ router' = [router EXCEPT ![c] = q]
       /\ denied' = IF Parsed(q, m)
                    THEN [denied EXCEPT ![c] = execute_plugins(q, m.ast) = "deny"] ELSE denied
       /\ pc' = [pc EXCEPT ![c] = IF Routed(q, m) THEN "infer" ELSE "idle"]
       /\ cur' = [cur EXCEPT ![c] =
            IF Routed(q, m) THEN [code |-> "P", ast |-> m.ast] ELSE Nothing]
       /\ batch' = [batch EXCEPT ![c] = <<[s |-> m.ast[1], params |-> <<>>]>>]
       /\ noted' = [noted EXCEPT ![c] =
            [Unnoted EXCEPT !.ok = Routed(q, m) /\ q.placeholders = {}]]
  /\ sent' = None
  /\ UNCHANGED <<settings, caches, pin>>

\* infer has run for the message at hand.
Inferred(c, init) ==
  LET a == infer(router[c], cur[c].ast, init)
      reads == UNION {table_names(cur[c].ast[i]) : i \in
                        {j \in DOMAIN cur[c].ast : cur[c].ast[j].kind = "query"}}
  IN  /\ router' = [router EXCEPT ![c] = a.q]
      /\ mutated' = a.mut
      /\ noted' = [noted EXCEPT ![c] =
           [@ EXCEPT !.ok = @ /\ a.end # "err", !.shard = a.prev # None,
                     !.recent = /\ router[c].settings.db_activity_based_routing
                                /\ reads \cap mutated # {}]]
      /\ pc' = [pc EXCEPT ![c] = IF cur[c].code = "Q" THEN "ready" ELSE "idle"]
      /\ cur' = IF cur[c].code = "Q" THEN cur ELSE [cur EXCEPT ![c] = Nothing]
      /\ sent' = None
      /\ UNCHANGED <<settings, batch, denied, pin>>

Infer(c) ==
  /\ pc[c] = "infer"
  /\ ~router[c].settings.db_activity_based_routing \/ cur[c].ast = <<>>
  /\ Inferred(c, FALSE)
  /\ UNCHANGED <<activity, timers>>

\* database_activity_state: contains_key, then get(..).unwrap() or insert.
ContainsKey(c) ==
  /\ pc[c] = "infer"
  /\ router[c].settings.db_activity_based_routing /\ cur[c].ast # <<>>
  /\ pc' = [pc EXCEPT ![c] = IF activity = "none" THEN "unknown" ELSE "known"]
  /\ sent' = None
  /\ UNCHANGED <<settings, router, cur, batch, denied, caches, pin, noted>>

GetActivity(c) ==
  /\ pc[c] = "known" /\ activity # "none"
  /\ Inferred(c, activity = "init")
  /\ UNCHANGED <<activity, timers>>

\* The entry expired after contains_key: the unwrap panics and the task ends.
GetExpired(c) ==
  /\ pc[c] = "known" /\ activity = "none"
  /\ pc' = [pc EXCEPT ![c] = "dead"]
  /\ cur' = [cur EXCEPT ![c] = Nothing]
  /\ batch' = [batch EXCEPT ![c] = <<>>]
  /\ noted' = [noted EXCEPT ![c] = Unnoted]
  /\ sent' = None
  /\ UNCHANGED <<settings, router, denied, caches, pin>>

\* Mutation of AddActivity: the timer is started for the first client only.
Mut_AddActivity(c) ==
  /\ pc[c] = "unknown" /\ timers < MaxTimers
  /\ activity' = "init"
  /\ timers' = IF activity = "none" THEN timers + 1 ELSE timers
  /\ Inferred(c, TRUE)

AddActivity(c) ==
  /\ pc[c] = "unknown" /\ timers < MaxTimers
  /\ activity' = "init" /\ timers' = timers + 1
  /\ Inferred(c, TRUE)

-----------------------------------------------------------------------------
\* A parameter that is no key is not skipped, so what follows it is misread.
Misread(ph, params) ==
  \E i \in DOMAIN params, j \in DOMAIN params : i < j /\ i \notin ph /\ j \in ph

Misreads(q, params) ==
  /\ query_parser_enabled(q) /\ q.settings.query_parser_read_write_splitting
  /\ Misread(q.placeholders, params)

infer_shard_from_bind(q, params) ==
  LET bound == OneOf({Sharder(params[i], q.settings.shards) : i \in
                        {j \in DOMAIN params : j \in q.placeholders}})
  IN  IF ~q.settings.query_parser_read_write_splitting \/ q.placeholders = {} THEN q
      ELSE [q EXCEPT !.placeholders = {}, !.shard = IF bound = None THEN @ ELSE bound]

Bind(c) ==
  /\ pc[c] = "idle" /\ Len(batch[c]) = 1 /\ batch[c][1].params = <<>>
  /\ \E params \in Bindings[c] :
       LET q == router[c] IN
       /\ ~Misreads(q, params)
       /\ router' = [router EXCEPT ![c] =
            IF query_parser_enabled(q) THEN infer_shard_from_bind(q, params) ELSE q]
       /\ batch' = [batch EXCEPT ![c][1].params = params]
       /\ noted' = [noted EXCEPT ![c].shard = @ \/ router'[c].placeholders # q.placeholders]
  /\ sent' = None
  /\ UNCHANGED <<settings, pc, cur, denied, caches, pin>>

\* Misread lengths and values lead to any shard, or past the end of the
\* message: a panic.
BindMisread(c) ==
  /\ pc[c] = "idle" /\ Len(batch[c]) = 1 /\ batch[c][1].params = <<>>
  /\ \E params \in Bindings[c] :
       /\ Misreads(router[c], params)
       /\ \/ /\ pc' = [pc EXCEPT ![c] = "dead"]
             /\ batch' = [batch EXCEPT ![c] = <<>>]
             /\ UNCHANGED router
          \/ /\ \E s \in (0..(router[c].settings.shards - 1)) \cup {router[c].shard} :
                  router' = [router EXCEPT ![c] = [@ EXCEPT !.shard = s, !.placeholders = {}]]
             /\ batch' = [batch EXCEPT ![c][1].params = params]
             /\ UNCHANGED pc
  /\ noted' = [noted EXCEPT ![c].ok = FALSE]
  /\ sent' = None
  /\ UNCHANGED <<settings, cur, denied, caches, pin>>

\* Bind of a statement that was prepared in an earlier batch comes next.
Again(c) ==
  /\ pc[c] = "idle" /\ batch[c] = <<>>
  /\ \E m \in Parses[c] :
       /\ batch' = [batch EXCEPT ![c] = <<[s |-> m.ast[1], params |-> <<>>]>>]
  /\ noted' = [noted EXCEPT ![c].ok = FALSE]
  /\ sent' = None
  /\ UNCHANGED <<settings, router, pc, cur, denied, caches, pin>>

Sync(c) ==
  /\ pc[c] = "idle" /\ batch[c] # <<>>
  /\ pc' = [pc EXCEPT ![c] = "ready"]
  /\ cur' = [cur EXCEPT ![c] = [code |-> "S", ast |-> <<>>]]
  /\ sent' = None
  /\ UNCHANGED <<settings, router, batch, denied, caches, pin, noted>>

-----------------------------------------------------------------------------
(* The rest of the loop: a denial kept from a Parse, the refresh of the    *)
(* pool, the checkout.                                                     *)

Deny(c) ==
  /\ pc[c] = "ready" /\ denied[c]
  /\ denied' = [denied EXCEPT ![c] = FALSE]
  /\ batch' = [batch EXCEPT ![c] = <<>>]
  /\ pc' = [pc EXCEPT ![c] = "idle"]
  /\ cur' = [cur EXCEPT ![c] = Nothing]
  /\ noted' = [noted EXCEPT ![c] = Unnoted]
  /\ sent' = None
  /\ UNCHANGED <<settings, router, caches, pin>>

\* The shard pool.get settles on; None: not one that the pool has.
Effective(s, shard) ==
  IF settings.shards = 1 THEN s = 0
  ELSE IF shard # None THEN s = shard /\ s < settings.shards
  ELSE settings.default_shard \in {None, s} /\ s < settings.shards

Refreshed(c) == [router EXCEPT ![c].settings = settings]

Settled(c) ==
  /\ router' = Refreshed(c)
  /\ pc' = [pc EXCEPT ![c] = "idle"]
  /\ cur' = [cur EXCEPT ![c] = Nothing]
  /\ batch' = IF cur[c].code = "S" THEN [batch EXCEPT ![c] = <<>>] ELSE batch
  /\ noted' = [noted EXCEPT ![c] = IF cur[c].code = "S" THEN Unnoted ELSE Kept(c)]
  /\ UNCHANGED <<settings, denied, caches, pin>>

Checkout(c) ==
  /\ pc[c] = "ready" /\ ~denied[c]
  /\ \E s \in 0..(settings.shards - 1) :
       /\ Effective(s, router[c].shard)
       /\ sent' = [c |-> c, role |-> router[c].role, shard |-> s, noted |-> noted[c],
                   same |-> router[c].settings = settings,
                   stmts |-> IF cur[c].code = "S" THEN batch[c]
                             ELSE [i \in DOMAIN cur[c].ast |->
                                     [s |-> cur[c].ast[i], params |-> <<>>]]]
  /\ Settled(c)

CheckoutFails(c) ==
  /\ pc[c] = "ready" /\ ~denied[c]
  /\ sent' = None
  /\ Settled(c)

-----------------------------------------------------------------------------
(* Around the clients *)

Reload ==
  /\ \E r \in Reloads : r[1] = settings /\ settings' = r[2]
  /\ sent' = None
  /\ UNCHANGED <<router, pc, cur, batch, denied, caches, pin, noted>>

Timer ==
  /\ timers > 0
  /\ timers' = timers - 1 /\ activity' = "active"
  /\ sent' = None
  /\ UNCHANGED <<settings, router, pc, cur, batch, denied, mutated, pin, noted>>

\* time_to_idle of the activity, time_to_live of a table; external: moka.
ActivityExpires ==
  /\ activity # "none"
  /\ activity' = "none"
  /\ sent' = None
  /\ UNCHANGED <<settings, router, pc, cur, batch, denied, timers, mutated, pin, noted>>

TableExpires ==
  /\ \E t \in mutated : mutated' = mutated \ {t}
  /\ sent' = None
  /\ UNCHANGED <<settings, router, pc, cur, batch, denied, activity, timers, pin, noted>>

ClientStep(c) ==
  \/ Command(c) \/ Query(c) \/ Parse(c) \/ Bind(c) \/ BindMisread(c) \/ Again(c) \/ Sync(c)
  \/ Infer(c) \/ ContainsKey(c) \/ GetActivity(c) \/ GetExpired(c) \/ AddActivity(c)
  \/ Deny(c) \/ Checkout(c) \/ CheckoutFails(c)

Next ==
  \/ \E c \in Clients : ClientStep(c)
  \/ Reload \/ Timer \/ ActivityExpires \/ TableExpires

Spec == Init /\ [][Next]_vars

-----------------------------------------------------------------------------
(* Properties *)

\* As long as the database counts as initializing, and all its traffic is sent
\* to the primary, a task is on its way that ends this: also when two clients
\* found it unknown at once, when the first timer fired between the two, and when
\* the entry expired meanwhile (database_activity_state).
InitializingEnds ==
  /\ activity \in {"none", "init", "active"} /\ timers \in 0..MaxTimers
  /\ activity = "init" => timers > 0

\* An explicit SET SERVER ROLE holds for every message until the next one,
\* whatever is parsed, prepared, refused or reloaded in between.
RolePinned ==
  sent # None /\ pin[sent.c] \in Roles \cup {"any"} =>
    sent.role = IF pin[sent.c] = "any" THEN None ELSE pin[sent.c]

\* A message that was parsed and whose inference did not fail goes to the primary
\* if one of its statements writes or opens a transaction, wherever in the message
\* that is and whatever reads surround it (infer).
WritesToPrimary ==
  sent # None /\ sent.noted.ok =>
    ((\E i \in DOMAIN sent.stmts : sent.stmts[i].s.kind # "query") => sent.role = "primary")

\* A read of a table that a routed write of any client put in the mutation cache,
\* and that has not expired when the read is routed, goes to the primary, wherever
\* in its message it stands.
RecentReadsPrimary ==
  sent # None /\ sent.noted.ok /\ sent.noted.recent => sent.role = "primary"

\* The reference for selection_parser: does a row satisfy an expression?
RECURSIVE Sat(_, _, _)
Sat(e, row, params) ==
  LET val(x) == IF "col" \in DOMAIN x THEN row[x.col]
                ELSE IF "num" \in DOMAIN x THEN x.num ELSE params[x.ph]
  IN  CASE e.op = "AND" -> Sat(e.l, row, params) /\ Sat(e.r, row, params)
        [] e.op = "OR"  -> Sat(e.l, row, params) \/ Sat(e.r, row, params)
        [] e.op = "="   -> val(e.l) = val(e.r)
        [] e.op = "<"   -> val(e.l) < val(e.r)
Rows == [{"id", "c"} -> Keys]

\* When a shard was inferred for a message, every row that a statement with a
\* sharding key in it selects, changes or inserts lives on the shard the message
\* was sent to (selection_parser, infer_shard_from_exprs, handle_inferred_shard,
\* infer_shard_from_bind).
RowsOnShard ==
  sent # None /\ sent.noted.ok /\ sent.noted.shard /\ sent.same =>
    \A i \in DOMAIN sent.stmts :
      LET s == sent.stmts[i].s
          params == sent.stmts[i].params
          keys == sharding_keys(s, settings.automatic_sharding_key)
      IN  keys # {} /\ (\A k \in keys : "ph" \in DOMAIN k => k.ph \in DOMAIN params) =>
            \A row \in Rows :
              (\A e \in s.exprs : Sat(e, row, params)) =>
                Sharder(row["id"], settings.shards) = sent.shard
=============================================================================
