---------------------------- MODULE ClientStartup ----------------------------
(***************************************************************************)
(* How a client gets in (client.rs: client_entrypoint, startup), with what *)
(* it depends on: the configuration and its reload (config.rs), the pool   *)
(* that from_config builds and validate connects (pool.rs), the password   *)
(* hash of the pool, which several tasks fetch from the servers and cache  *)
(* (auth_passthrough.rs), and servers whose password changes meanwhile.    *)
(*                                                                         *)
(* There is one pool name and one user.  A connection built by from_config *)
(* keeps its place in pools; POOLS holds the current one.  A login to a    *)
(* server is one step here.  The salt of a challenge is the client.        *)
(***************************************************************************)
EXTENDS Config

CONSTANTS
  Clients,
  Hosts,
  Passwords,
  AdminPassword,
  Initial,         \* the password of the user at every server, to begin with
  Asks,            \* what each client may ask for: pairs of a database and a password
  Candidates,      \* the configuration files there are
  First,           \* the one pgcat starts with
  MaxChanges,      \* bound: password changes at the servers
  MaxPools         \* bound: pools built

VARIABLES
  config,          \* CONFIG
  pools,           \* every ConnectionPool built: [cfg, hash, validated, params, pending, ever]
  current,         \* POOLS: the place of the current one
  building,        \* from_config under way: [cfg, at, hash, ever], or None
  secret,          \* external: the password of the user at each server
  changes,
  pc, db, pw,      \* of each client: where it is, what it asks for, its password
  pool,            \* get_pool, as the startup got it
  fetched,         \* what refetch_auth_hash returned
  todo,            \* the servers its validate has yet to hear of
  params,          \* the parameters it was greeted with
  why,             \* why it was refused
  due              \* history: it must not be refused for its password

server == <<config, pools, current, building, secret, changes>>
client == <<pc, db, pw, pool, fetched, todo, params, why, due>>
vars == <<server, client>>

-----------------------------------------------------------------------------
(* md5 is free of collisions, and a hash of a hash is not the hash of a password. *)

md5_hash_first_pass(p) == <<"md5", p>>

md5_hash_second_pass(h, salt) == <<"md5", h, salt>>

md5_hash_password(p, salt) == md5_hash_second_pass(md5_hash_first_pass(p), salt)

\* What the client sends as its PasswordMessage.
Response(c) == md5_hash_password(pw[c], c)

-----------------------------------------------------------------------------
(* The pool of a client *)

\* A server is known by its shard and its place there.
Places(cfg) ==
  UNION {{i} \X DOMAIN Addresses(cfg.pool)[i] : i \in DOMAIN Addresses(cfg.pool)}
HostAt(cfg, at) == Addresses(cfg.pool)[at[1]][at[2]].host
SecretsOf(cfg) == {secret[HostAt(cfg, at)] : at \in Places(cfg)}
Mine(c) == pools[pool[c]]
PoolOf(c) == Mine(c).cfg.pool

\* refetch_auth_hash asks pool.address(0, 0).
Asked(cfg) == HostAt(cfg, <<1, 1>>)

\* Every pool has a server that can be asked; it starts with one that can be built.
ASSUME FilesAssumption ==
  /\ \A raw \in Candidates :
       LET cfg == fill_up_auth_query_config(raw)
       IN  Valid(cfg) => /\ <<1, 1>> \in Places(cfg)
                         /\ \A at \in Places(cfg) : HostAt(cfg, at) \in Hosts
  /\ First \in Candidates
  /\ fill_up_auth_query_config(First) = First
  /\ Valid(First)
  /\ is_auth_query_configured(First.pool) => First.pool.auth_query # None

ASSUME PasswordsAssumption ==
  /\ Initial \in Passwords
  /\ None \notin {"pool", "password", "impossible"}

\* Server::startup as the user of the pool: the password of the configuration, or
\* else the cached hash.
LogsIn(p, host) ==
  IF p.cfg.pool.password # None
  THEN p.cfg.pool.password = secret[host]
  ELSE p.hash # None /\ p.hash = md5_hash_first_pass(secret[host])

\* The hash at a host, or None for everything that makes fetch_hash fail.
fetch_hash(host) == {md5_hash_first_pass(secret[host]), None}

NewPool(cfg, hash, ever) ==
  [cfg |-> cfg, hash |-> hash, validated |-> FALSE, params |-> None, ever |-> ever,
   pending |-> IF cfg.general.validate_config THEN Places(cfg) ELSE {}]

Init ==
  /\ config = First
  /\ secret = [h \in Hosts |-> Initial]
  /\ pools = <<>>
  /\ current = 0
  /\ building = [cfg |-> First, at |-> <<1, 1>>, hash |-> None, ever |-> SecretsOf(First)]
  /\ changes = 0
  /\ pc = [c \in Clients |-> "new"]
  /\ db = [c \in Clients |-> None]
  /\ pw = [c \in Clients |-> None]
  /\ pool = [c \in Clients |-> 0]
  /\ fetched = [c \in Clients |-> None]
  /\ todo = [c \in Clients |-> {}]
  /\ params = [c \in Clients |-> None]
  /\ why = [c \in Clients |-> None]
  /\ due = [c \in Clients |-> FALSE]

-----------------------------------------------------------------------------
(* client_entrypoint and startup *)

Refuse(c, reason) ==
  /\ pc' = [pc EXCEPT ![c] = "out"]
  /\ why' = [why EXCEPT ![c] = reason]
  /\ UNCHANGED params

\* auth_ok, the parameters, the key data and ReadyForQuery.
Greet(c, parameters) ==
  /\ pc' = [pc EXCEPT ![c] = "in"]
  /\ params' = [params EXCEPT ![c] = parameters]
  /\ UNCHANGED why

Goes(c, next) ==
  /\ pc' = [pc EXCEPT ![c] = next]
  /\ UNCHANGED <<why, params>>

\* TLS is negotiated, or refused with 'N', before the startup message; whatever else
\* comes ends the task (a cancel request is served by ClientSession, and Shutdown
\* has the startup during a shutdown).
Unwanted(c) ==
  /\ pc[c] = "new"
  /\ current # 0
  /\ Refuse(c, "gone")
  /\ UNCHANGED <<server, db, pw, pool, fetched, todo, due>>

\* The startup message.  An administrator is authenticated against the
\* configuration of this moment.  The listener runs once the pools are there.
Startup(c) ==
  /\ pc[c] = "new"
  /\ current # 0
  /\ \E d \in {"pool", "pgcat", "other"}, p \in Passwords :
       /\ <<d, p>> \in Asks[c]
       /\ db' = [db EXCEPT ![c] = d]
       /\ pw' = [pw EXCEPT ![c] = p]
       /\ \/ /\ d = "pgcat"
             /\ IF p = AdminPassword THEN Greet(c, "admin") ELSE Refuse(c, "admin")
             /\ UNCHANGED pool
          \/ /\ d = "other"
             /\ Refuse(c, "no pool")
             /\ UNCHANGED pool
          \/ /\ d = "pool"
             /\ pool' = [pool EXCEPT ![c] = current]
             /\ Goes(c, IF pools[current].cfg.pool.auth_type = "trust"
                        THEN "authenticated" ELSE "challenged")
  /\ UNCHANGED <<server, fetched, todo, due>>

\* Mutation of Compare: the cached hash has the last word.
Mut_Compare(c, hash) ==
  IF md5_hash_second_pass(hash, c) = Response(c)
  THEN Goes(c, "authenticated")
  ELSE Refuse(c, "password")

\* Compare what the client sent with what the hash gives.
Compare(c, hash) ==
  Goes(c, IF md5_hash_second_pass(hash, c) = Response(c) THEN "authenticated" ELSE "refetch")

\* The client answers the challenge: the password of the configuration first, then
\* the cached hash, then a fetch.
Password(c) ==
  /\ pc[c] = "challenged"
  /\ due' = [due EXCEPT ![c] = is_auth_query_configured(PoolOf(c))
                               /\ pw[c] = secret[Asked(Mine(c).cfg)]]
  /\ IF PoolOf(c).password # None
     THEN Compare(c, md5_hash_first_pass(PoolOf(c).password))
     ELSE IF ~is_auth_query_configured(config.pool)
     THEN Refuse(c, "impossible")
     ELSE IF Mine(c).hash = None
     THEN Goes(c, "fetch")
     ELSE Compare(c, Mine(c).hash)
  /\ UNCHANGED <<server, db, pw, pool, fetched, todo>>

\* It may also go away.
HangsUp(c) ==
  /\ pc[c] = "challenged"
  /\ Refuse(c, "gone")
  /\ UNCHANGED <<server, db, pw, pool, fetched, todo, due>>

-----------------------------------------------------------------------------
(* refetch_auth_hash, while other tasks go on.  A pool that was built has the query
   if it has the user and the password. *)

Fetch(c) ==
  /\ pc[c] \in {"fetch", "refetch"}
  /\ LET answers == IF is_auth_query_configured(PoolOf(c))
                    THEN fetch_hash(Asked(Mine(c).cfg)) ELSE {None}
     IN  \E a \in answers :
           /\ fetched' = [fetched EXCEPT ![c] = a]
           /\ due' = [due EXCEPT ![c] = @ /\ a # None]
           /\ pc' = [pc EXCEPT ![c] = IF @ = "fetch" THEN "fetched" ELSE "refetched"]
  /\ UNCHANGED <<server, db, pw, pool, todo, params, why>>

Store(c) == pools' = [pools EXCEPT ![pool[c]].hash = fetched[c]]

\* There was no hash: whatever came is cached.
Fetched(c) ==
  /\ pc[c] = "fetched"
  /\ IF fetched[c] = None
     THEN Refuse(c, "password") /\ UNCHANGED pools
     ELSE Store(c) /\ Compare(c, fetched[c])
  /\ fetched' = [fetched EXCEPT ![c] = None]
  /\ UNCHANGED <<config, current, building, secret, changes,
                 db, pw, pool, todo, due>>

\* Mutation of Refetched: the client is let in, the cached hash is left alone.
Mut_Refetched(c) ==
  /\ pc[c] = "refetched"
  /\ IF fetched[c] # None /\ md5_hash_second_pass(fetched[c], c) = Response(c)
     THEN Goes(c, "authenticated")
     ELSE Refuse(c, "password")
  /\ fetched' = [fetched EXCEPT ![c] = None]
  /\ UNCHANGED <<server, db, pw, pool, todo, due>>

\* The cached hash did not match: the new one is cached only if it does.
Refetched(c) ==
  /\ pc[c] = "refetched"
  /\ IF fetched[c] # None /\ md5_hash_second_pass(fetched[c], c) = Response(c)
     THEN Store(c) /\ Goes(c, "authenticated")
     ELSE Refuse(c, "password") /\ UNCHANGED pools
  /\ fetched' = [fetched EXCEPT ![c] = None]
  /\ UNCHANGED <<config, current, building, secret, changes,
                 db, pw, pool, todo, due>>

-----------------------------------------------------------------------------
(* validate: a task for every server; the last one that connects leaves its parameters. *)

\* Mutation of Connected: the pool counts as validated before any server answered.
Mut_Connected(p, host) ==
  {[p EXCEPT !.validated = TRUE]}
  \cup IF LogsIn(p, host) THEN {[p EXCEPT !.params = host, !.validated = TRUE]} ELSE {}

\* What becomes of a pool when one of its servers is asked for a connection.
Connected(p, host) ==
  {p} \cup IF LogsIn(p, host) THEN {[p EXCEPT !.params = host, !.validated = TRUE]} ELSE {}

Authenticated(c) ==
  /\ pc[c] = "authenticated"
  /\ IF Mine(c).validated
     THEN Greet(c, Mine(c).params) /\ UNCHANGED todo
     ELSE /\ todo' = [todo EXCEPT ![c] = Places(Mine(c).cfg)]
          /\ Goes(c, "validate")
  /\ UNCHANGED <<server, db, pw, pool, fetched, due>>

Validate(c) ==
  /\ pc[c] = "validate"
  /\ \E at \in todo[c] :
       /\ todo' = [todo EXCEPT ![c] = @ \ {at}]
       /\ \E p \in Connected(Mine(c), HostAt(Mine(c).cfg, at)) :
            pools' = [pools EXCEPT ![pool[c]] = p]
  /\ UNCHANGED <<config, current, building, secret, changes,
                 pc, db, pw, pool, fetched, params, why, due>>

\* All tasks are joined.
Validated(c) ==
  /\ pc[c] = "validate"
  /\ todo[c] = {}
  /\ IF Mine(c).validated THEN Greet(c, Mine(c).params) ELSE Refuse(c, "pool down")
  /\ UNCHANGED <<server, db, pw, pool, fetched, todo, due>>

\* The validation that from_config spawns under validate_config.
ValidatePending(g) ==
  /\ \E at \in pools[g].pending :
       \E p \in Connected(pools[g], HostAt(pools[g].cfg, at)) :
         pools' = [pools EXCEPT ![g] = [p EXCEPT !.pending = @ \ {at}]]
  /\ UNCHANGED <<config, current, building, secret, changes, client>>

\* The client is gone, and another takes its place.
Leave(c) ==
  /\ pc[c] \in {"in", "out"}
  /\ pc' = [pc EXCEPT ![c] = "new"]
  /\ db' = [db EXCEPT ![c] = None]
  /\ pw' = [pw EXCEPT ![c] = None]
  /\ pool' = [pool EXCEPT ![c] = 0]
  /\ params' = [params EXCEPT ![c] = None]
  /\ why' = [why EXCEPT ![c] = None]
  /\ due' = [due EXCEPT ![c] = FALSE]
  /\ UNCHANGED <<server, fetched, todo>>

-----------------------------------------------------------------------------
(* reload_config and from_config *)

\* Mutation of Started: the hash of the current pool is taken over.
Mut_Started(cfg) ==
  [cfg |-> cfg, at |-> <<1, 1>>, hash |-> pools[current].hash, ever |-> SecretsOf(cfg)]

\* Every server's password since this moment may end up as the hash of the new pool.
Started(cfg) ==
  [cfg |-> cfg, at |-> <<1, 1>>, hash |-> None, ever |-> SecretsOf(cfg)]

\* parse: what becomes of the files that are valid.
Accepted ==
  {cfg \in {fill_up_auth_query_config(raw) : raw \in Candidates} : Valid(cfg)}

\* A file that is not valid changes nothing; a pool that did not change is kept.
Reload ==
  /\ building = None
  /\ \E cfg \in Accepted :
       /\ cfg # config
       /\ cfg.pool # pools[current].cfg.pool => Len(pools) < MaxPools
       /\ config' = cfg
       /\ building' = IF cfg.pool = pools[current].cfg.pool THEN None ELSE Started(cfg)
  /\ UNCHANGED <<pools, current, secret, changes, client>>

\* The loops over the shards and over the servers of a shard.
NextPlace(cfg, at) ==
  IF <<at[1], at[2] + 1>> \in Places(cfg) THEN <<at[1], at[2] + 1>> ELSE <<at[1] + 1, 1>>

\* from_pool_config unwraps the query: a pool with a user and a password for it and
\* none to run passes validate and ends the task that reloads.  CONFIG stays the new one.
BuildPanics ==
  /\ building # None
  /\ building.at \in Places(building.cfg)
  /\ is_auth_query_configured(building.cfg.pool)
  /\ building.cfg.pool.auth_query = None
  /\ building' = None
  /\ UNCHANGED <<config, pools, current, secret, changes, client>>

\* The servers are asked in turn; a failure is ignored.
BuildFetch ==
  /\ building # None
  /\ building.at \in Places(building.cfg)
  /\ is_auth_query_configured(building.cfg.pool) => building.cfg.pool.auth_query # None
  /\ LET answers == IF is_auth_query_configured(building.cfg.pool)
                    THEN fetch_hash(HostAt(building.cfg, building.at)) ELSE {None}
     IN  \E a \in answers :
           building' = [building EXCEPT !.at = NextPlace(building.cfg, @), !.hash = Or(a, @)]
  /\ UNCHANGED <<config, pools, current, secret, changes, client>>

BuildDone ==
  /\ building # None
  /\ building.at \notin Places(building.cfg)
  /\ pools' = Append(pools, NewPool(building.cfg, building.hash, building.ever))
  /\ current' = Len(pools) + 1
  /\ building' = None
  /\ UNCHANGED <<config, secret, changes, client>>

-----------------------------------------------------------------------------
(* Around it *)

\* The password is one that a server of this pool had.
Noted(p, h, password) ==
  [p EXCEPT !.ever = IF \E at \in Places(p.cfg) : HostAt(p.cfg, at) = h
                     THEN @ \cup {password} ELSE @]

\* ALTER ROLE ... PASSWORD at a server.
ChangePassword(h) ==
  /\ changes < MaxChanges
  /\ changes' = changes + 1
  /\ \E p \in Passwords \ {secret[h]} :
       /\ secret' = [secret EXCEPT ![h] = p]
       /\ pools' = [g \in DOMAIN pools |-> Noted(pools[g], h, p)]
       /\ building' = IF building = None THEN None ELSE Noted(building, h, p)
  /\ due' = [c \in Clients |-> due[c] /\ Asked(Mine(c).cfg) # h]
  /\ UNCHANGED <<config, current,
                 pc, db, pw, pool, fetched, todo, params, why>>

\* What a startup does by itself, once the client has said what it wants.
Step(c) ==
  \/ Fetch(c)
  \/ Fetched(c)
  \/ Refetched(c)
  \/ Authenticated(c)
  \/ Validate(c)
  \/ Validated(c)

Next ==
  \/ \E c \in Clients :
       \/ Unwanted(c)
       \/ Startup(c)
       \/ Password(c)
       \/ HangsUp(c)
       \/ Step(c)
       \/ Leave(c)
  \/ \E g \in DOMAIN pools : ValidatePending(g)
  \/ Reload
  \/ BuildPanics
  \/ BuildFetch
  \/ BuildDone
  \/ \E h \in Hosts : ChangePassword(h)

Spec == Init /\ [][Next]_vars

-----------------------------------------------------------------------------
(* Properties *)

\* A client that shows the password of the server asked, throughout its startup and
\* with the servers answering, is not refused for it: a stale cached hash costs a
\* refetch, whoever else is fetching, storing or reloading.
NotWronglyRefused ==
  \A c \in Clients : why[c] = "password" => ~due[c]

\* Whoever is let in by password showed the one of its pool's configuration, or one
\* that a server had at some time since that pool was begun: a reload that
\* rebuilds the pool leaves older passwords behind.
AdmittedKnown ==
  \A c \in Clients :
    /\ pc[c] = "in"
    /\ db[c] = "pool"
    /\ PoolOf(c).auth_type = "md5"
    => pw[c] \in Mine(c).ever \cup {PoolOf(c).password}

\* A client is greeted with the parameters of a server of its pool, also when it
\* found the pool validated by another task.
ParamsKnown ==
  \A c \in Clients :
    pc[c] = "in" /\ db[c] = "pool"
    => \E at \in Places(Mine(c).cfg) : params[c] = HostAt(Mine(c).cfg, at)

\* The servers of the configurations that Reload accepts, and their hashes.
AllPlaces == UNION {Places(cfg) : cfg \in Accepted}
Hashes == {md5_hash_first_pass(p) : p \in Passwords}

ServerTypeOK ==
  /\ config \in Accepted
  /\ pools \in Seq([cfg : Accepted, hash : Hashes \cup {None}, validated : BOOLEAN,
                    params : Hosts \cup {None}, ever : SUBSET Passwords,
                    pending : SUBSET AllPlaces])
  /\ current \in 0..Len(pools)
  /\ building \in [cfg : Accepted, at : Nat \X Nat, hash : Hashes \cup {None},
                   ever : SUBSET Passwords] \cup {None}
  /\ secret \in [Hosts -> Passwords]

ClientTypeOK ==
  /\ pc \in [Clients -> {"new", "challenged", "fetch", "refetch", "fetched", "refetched",
                        "authenticated", "validate", "in", "out"}]
  /\ db \in [Clients -> {None, "pool", "pgcat", "other"}]
  /\ pw \in [Clients -> Passwords \cup {None}]
  /\ pool \in [Clients -> Nat]
  /\ fetched \in [Clients -> Hashes \cup {None}]
  /\ todo \in [Clients -> SUBSET AllPlaces]
  /\ params \in [Clients -> Hosts \cup {None, "admin"}]
  /\ why \in [Clients -> {None, "gone", "admin", "no pool", "impossible", "password", "pool down"}]
  /\ due \in [Clients -> BOOLEAN]

TypeOK == ServerTypeOK /\ ClientTypeOK

\* Of a pool, or one under way: it has been told of every password of its servers,
\* and its hash is the hash of one of them.
Informed(p) ==
  /\ \A at \in Places(p.cfg) : secret[HostAt(p.cfg, at)] \in p.ever
  /\ p.hash # None => \E x \in p.ever : p.hash = md5_hash_first_pass(x)

PoolsInv ==
  /\ building # None => Informed(building)
  /\ \A g \in DOMAIN pools :
       /\ Informed(pools[g])
       /\ pools[g].pending \subseteq Places(pools[g].cfg)
       /\ pools[g].validated =>
            \E at \in Places(pools[g].cfg) : pools[g].params = HostAt(pools[g].cfg, at)

\* Where each client is, and what it holds meanwhile.
ClientInv(c) ==
  /\ pc[c] \notin {"new", "in", "out"} => db[c] = "pool"
  /\ db[c] = "pool" => pool[c] \in DOMAIN pools
  /\ pc[c] = "new" => db[c] # "pool"
  /\ why[c] # None => pc[c] = "out"
  /\ why[c] = "password" => ~due[c]
  /\ pc[c] \in {"new", "challenged"} => ~due[c]
  /\ due[c] => /\ db[c] = "pool"
               /\ is_auth_query_configured(PoolOf(c))
               /\ pw[c] = secret[Asked(Mine(c).cfg)]
  /\ pc[c] \in {"fetched", "refetched"} =>
       /\ fetched[c] # None => \E x \in Mine(c).ever : fetched[c] = md5_hash_first_pass(x)
       /\ due[c] => fetched[c] # None /\ fetched[c] = md5_hash_first_pass(pw[c])
  /\ pc[c] \in {"authenticated", "validate", "in"} /\ db[c] = "pool"
     /\ PoolOf(c).auth_type = "md5" => pw[c] \in Mine(c).ever \cup {PoolOf(c).password}
  /\ pc[c] = "validate" => todo[c] \subseteq Places(Mine(c).cfg)
  /\ pc[c] = "in" /\ db[c] = "pool" =>
       \E at \in Places(Mine(c).cfg) : params[c] = HostAt(Mine(c).cfg, at)

\* What the three rest on.
StartupInv ==
  /\ TypeOK
  /\ PoolsInv
  /\ \A c \in Clients : ClientInv(c)

\* Nobody is told that authentication is impossible while the pool and the
\* configuration are of the same file: what validate accepted has a way in.
AuthPossible ==
  [][\A c \in Clients :
       why'[c] = "impossible" /\ why[c] # "impossible" => config.pool # PoolOf(c)]_vars

\* "If any of required values is not set, None is returned" (from_pool_config,
\* auth_passthrough.rs:25): a configuration that validate accepted is built.
AcceptedIsBuilt == [][building # None /\ building' = None => Len(pools') = Len(pools) + 1]_vars

\* The cached hash of the current pool heals: if clients with the right password keep
\* coming and are let in, it ends up as the server's, for good, and so
\* the connections that log in with it succeed.
ByHash(p) ==
  /\ p.cfg.pool.auth_type = "md5"
  /\ p.cfg.pool.password = None

LetInRightly(c) ==
  /\ pc[c] = "in"
  /\ db[c] = "pool"
  /\ pool[c] = current
  /\ pw[c] = secret[Asked(Mine(c).cfg)]

HashHeals ==
  (\E c \in Clients : []<>LetInRightly(c) /\ []<>(pc[c] = "new"))
  => <>[](current # 0 /\ ByHash(pools[current])
          => pools[current].hash = md5_hash_first_pass(secret[Asked(pools[current].cfg)]))
=============================================================================
