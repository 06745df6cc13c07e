------------------------- MODULE ClientStartupProofs -------------------------
(***************************************************************************)
(* Who is let in, and with what, for every number of clients, servers,     *)
(* passwords and configuration files, and any number of reloads and of     *)
(* changes of passwords.                                                   *)
(***************************************************************************)
EXTENDS ClientStartup, TLAPS

\* The records of pools and of building.
PoolRec ==
  [cfg : Accepted, hash : Hashes \cup {None}, validated : BOOLEAN, params : Hosts \cup {None},
   ever : SUBSET Passwords, pending : SUBSET AllPlaces]

BuildRec ==
  [cfg : Accepted, at : Nat \X Nat, hash : Hashes \cup {None}, ever : SUBSET Passwords]

-----------------------------------------------------------------------------
(* Constants *)

\* Different passwords have different hashes, and different hashes different answers.
LEMMA Md5Injective ==
  ASSUME NEW p, NEW q, NEW c
  PROVE  /\ md5_hash_first_pass(p) = md5_hash_first_pass(q) => p = q
         /\ md5_hash_second_pass(p, c) = md5_hash_second_pass(q, c) => p = q
  BY Zenon DEF md5_hash_first_pass, md5_hash_second_pass

\* What validate accepted has servers, a first one among them.
LEMMA AcceptedHosts ==
  ASSUME NEW cfg \in Accepted
  PROVE  /\ Valid(cfg)
         /\ <<1, 1>> \in Places(cfg)
         /\ \A at \in Places(cfg) : HostAt(cfg, at) \in Hosts
         /\ Asked(cfg) \in Hosts
         /\ Places(cfg) \subseteq AllPlaces
  <1>1. PICK raw \in Candidates : cfg = fill_up_auth_query_config(raw) /\ Valid(cfg)
    BY Zenon DEF Accepted
  <1>2. /\ <<1, 1>> \in Places(cfg)
        /\ \A at \in Places(cfg) : HostAt(cfg, at) \in Hosts
    BY Zenon, <1>1, FilesAssumption
  <1>3. Places(cfg) \subseteq AllPlaces
    BY Zenon DEF AllPlaces
  <1> QED
    BY Zenon, <1>1, <1>2, <1>3 DEF Asked

\* pgcat starts with such a configuration.
LEMMA FirstAccepted == First \in Accepted
  BY Zenon, FilesAssumption DEF Accepted

\* A pool of a configuration that was accepted starts out informed.
LEMMA BegunInformed ==
  ASSUME secret \in [Hosts -> Passwords], NEW cfg \in Accepted
  PROVE  LET b == [cfg |-> cfg, at |-> <<1, 1>>, hash |-> None, ever |-> SecretsOf(cfg)]
         IN  b \in BuildRec /\ Informed(b)
  <1>1. SecretsOf(cfg) \in SUBSET Passwords
    BY Zenon, AcceptedHosts DEF SecretsOf
  <1>2. \A at \in Places(cfg) : secret[HostAt(cfg, at)] \in SecretsOf(cfg)
    BY Zenon DEF SecretsOf
  <1> QED
    BY Zenon, <1>1, <1>2 DEF BuildRec, Informed

-----------------------------------------------------------------------------
(* Pools and clients *)

\* No pool goes away, keeps another configuration or forgets a password.
Grows ==
  /\ DOMAIN pools \subseteq DOMAIN pools'
  /\ \A g \in DOMAIN pools : pools'[g].cfg = pools[g].cfg /\ pools[g].ever \subseteq pools'[g].ever

\* One pool changes, and not in these respects.
LEMMA PoolChanged ==
  ASSUME pools \in Seq(PoolRec), NEW g \in DOMAIN pools, NEW r \in PoolRec,
         r.cfg = pools[g].cfg, r.ever = pools[g].ever, pools' = [pools EXCEPT ![g] = r]
  PROVE  /\ pools' \in Seq(PoolRec)
         /\ Len(pools') = Len(pools)
         /\ DOMAIN pools' = DOMAIN pools
         /\ pools'[g] = r
         /\ \A h \in DOMAIN pools : h # g => pools'[h] = pools[h]
         /\ Grows
  <1>1. /\ pools' \in Seq(PoolRec)
        /\ Len(pools') = Len(pools)
        /\ DOMAIN pools' = DOMAIN pools
        /\ pools'[g] = r
        /\ \A h \in DOMAIN pools : h # g => pools'[h] = pools[h]
    OBVIOUS
  <1>2. Grows
    BY Zenon, <1>1 DEF Grows
  <1> QED
    BY Zenon, <1>1, <1>2

\* So it is when no pool changes.
LEMMA PoolsUnchanged == ASSUME UNCHANGED pools PROVE Grows
  BY Zenon DEF Grows

\* What a client in a startup may become.
LEMMA ClientStep ==
  ASSUME StartupInv, NEW c \in Clients, Grows, UNCHANGED secret, db[c] = "pool",
         pool'[c] = pool[c], db'[c] = db[c], pw'[c] = pw[c],
         pc'[c] # "new",
         why'[c] # None => pc'[c] = "out",
         why'[c] = "password" => ~due'[c],
         pc'[c] = "challenged" => ~due'[c],
         due'[c] => is_auth_query_configured(PoolOf(c)) /\ pw[c] = secret[Asked(Mine(c).cfg)],
         pc'[c] \in {"fetched", "refetched"} =>
           /\ fetched'[c] # None => \E x \in Mine(c).ever : fetched'[c] = md5_hash_first_pass(x)
           /\ due'[c] => fetched'[c] # None /\ fetched'[c] = md5_hash_first_pass(pw[c]),
         pc'[c] \in {"authenticated", "validate", "in"} /\ PoolOf(c).auth_type = "md5" =>
           pw[c] \in Mine(c).ever \cup {PoolOf(c).password},
         pc'[c] = "validate" => todo'[c] \subseteq Places(Mine(c).cfg),
         pc'[c] = "in" => \E at \in Places(Mine(c).cfg) : params'[c] = HostAt(Mine(c).cfg, at)
  PROVE  ClientInv(c)'
  <1>1. pool[c] \in DOMAIN pools
    BY Zenon DEF StartupInv, ClientInv
  <1>2. pool'[c] \in DOMAIN pools'
    BY Zenon, <1>1 DEF Grows
  <1>3. Mine(c)'.cfg = Mine(c).cfg /\ Mine(c).ever \subseteq Mine(c)'.ever
    BY Zenon, <1>1 DEF Grows, Mine
  <1>4. PoolOf(c)' = PoolOf(c)
    BY Zenon, <1>3 DEF PoolOf
  <1>5. pc'[c] \in {"fetched", "refetched"} =>
          /\ fetched'[c] # None => \E x \in Mine(c)'.ever : fetched'[c] = md5_hash_first_pass(x)
          /\ due'[c] => fetched'[c] # None /\ fetched'[c] = md5_hash_first_pass(pw'[c])
    BY Zenon, <1>3
  <1>6. pc'[c] \in {"authenticated", "validate", "in"} /\ PoolOf(c)'.auth_type = "md5" =>
          pw'[c] \in Mine(c)'.ever \cup {PoolOf(c)'.password}
    BY Zenon, <1>3, <1>4
  <1>7. due'[c] => /\ is_auth_query_configured(PoolOf(c)')
                   /\ pw'[c] = secret'[Asked(Mine(c)'.cfg)]
    BY Zenon, <1>3, <1>4
  <1>8. pc'[c] = "validate" => todo'[c] \subseteq Places(Mine(c)'.cfg)
    BY Zenon, <1>3
  <1>9. pc'[c] = "in" => \E at \in Places(Mine(c)'.cfg) : params'[c] = HostAt(Mine(c)'.cfg, at)
    BY Zenon, <1>3
  <1> QED
    BY Zenon, <1>2, <1>5, <1>6, <1>7, <1>8, <1>9 DEF ClientInv

\* A client of which nothing changes.
LEMMA ClientStays ==
  ASSUME StartupInv, NEW c \in Clients, Grows, UNCHANGED secret,
         pool'[c] = pool[c], db'[c] = db[c], pw'[c] = pw[c], pc'[c] = pc[c], why'[c] = why[c],
         due'[c] = due[c], fetched'[c] = fetched[c], todo'[c] = todo[c], params'[c] = params[c]
  PROVE  ClientInv(c)'
  <1>1. ClientInv(c)
    BY Zenon DEF StartupInv
  <1>2. CASE db[c] = "pool"
    BY ZenonT(60), <1>1, <1>2, ClientStep DEF ClientInv
  <1>3. CASE db[c] # "pool"
    BY Zenon, <1>1, <1>3 DEF ClientInv
  <1> QED
    BY Zenon, <1>2, <1>3

\* The types of the two parts.
LEMMA Types ==
  ASSUME StartupInv
  PROVE  /\ config \in Accepted
         /\ pools \in Seq(PoolRec)
         /\ current \in 0..Len(pools)
         /\ building \in BuildRec \cup {None}
         /\ secret \in [Hosts -> Passwords]
         /\ ClientTypeOK
         /\ ServerTypeOK
  BY Zenon DEF StartupInv, TypeOK, ServerTypeOK, PoolRec, BuildRec

\* A step of client c that leaves the server side alone.
LEMMA ClientOnly ==
  ASSUME StartupInv, NEW c \in Clients, UNCHANGED server, ClientTypeOK', ClientInv(c)',
         \A d \in Clients \ {c} :
           /\ pool'[d] = pool[d] /\ db'[d] = db[d] /\ pw'[d] = pw[d] /\ pc'[d] = pc[d]
           /\ why'[d] = why[d] /\ due'[d] = due[d] /\ fetched'[d] = fetched[d]
           /\ todo'[d] = todo[d] /\ params'[d] = params[d]
  PROVE  StartupInv'
  <1>1. UNCHANGED <<config, pools, current, building, secret>>
    BY Zenon DEF server
  <1>2. ServerTypeOK'
    BY Zenon, <1>1 DEF StartupInv, TypeOK, ServerTypeOK
  <1>3. PoolsInv'
    BY Zenon, <1>1 DEF StartupInv, PoolsInv, Informed
  <1>4. \A d \in Clients : ClientInv(d)'
    BY Zenon, <1>1, PoolsUnchanged, ClientStays
  <1> QED
    BY Zenon, <1>2, <1>3, <1>4 DEF StartupInv, TypeOK

-----------------------------------------------------------------------------
(* Steps of clients *)

\* What is not a startup message ends the task.
LEMMA UnwantedInv ==
  ASSUME StartupInv, NEW c \in Clients, Unwanted(c)
  PROVE  StartupInv'
  <1> USE DEF Unwanted, Refuse
  <1>1. ClientTypeOK /\ ClientInv(c)
    BY Zenon, Types DEF StartupInv
  <1>2. ClientTypeOK'
    BY Zenon, <1>1 DEF ClientTypeOK
  <1>3. ClientInv(c)'
    <2>1. db[c] # "pool" /\ ~due[c] /\ pc'[c] = "out" /\ why'[c] = "gone"
      BY Zenon, <1>1 DEF ClientInv, ClientTypeOK
    <2> QED
      BY Zenon, <1>1, <2>1 DEF ClientInv
  <1> QED
    BY Zenon, <1>1, <1>2, <1>3, ClientOnly DEF ClientTypeOK

\* The startup message: a client without a password to show has none to be refused for.
LEMMA StartupStep ==
  ASSUME StartupInv, NEW c \in Clients, Startup(c)
  PROVE  StartupInv'
  <1>1. ClientTypeOK /\ ClientInv(c) /\ current \in 0..Len(pools) /\ pools \in Seq(PoolRec)
    BY Zenon, Types DEF StartupInv
  <1>2. UNCHANGED <<server, fetched, todo, due>> /\ pc[c] = "new" /\ current # 0
    BY Zenon DEF Startup
  <1>3. PICK d \in {"pool", "pgcat", "other"}, p \in Passwords :
          /\ db' = [db EXCEPT ![c] = d]
          /\ pw' = [pw EXCEPT ![c] = p]
          /\ \/ /\ d = "pgcat"
                /\ IF p = AdminPassword THEN Greet(c, "admin") ELSE Refuse(c, "admin")
                /\ UNCHANGED pool
             \/ /\ d = "other"
                /\ Refuse(c, "no pool")
                /\ UNCHANGED pool
             \/ /\ d = "pool"
                /\ pool' = [pool EXCEPT ![c] = current]
                /\ Goes(c, IF pools[current].cfg.pool.auth_type = "trust"
                           THEN "authenticated" ELSE "challenged")
    BY Zenon DEF Startup
  <1>4. current \in DOMAIN pools /\ current \in Nat
    BY <1>1, <1>2
  <1>5. ClientTypeOK'
    BY ZenonT(60), <1>1, <1>2, <1>3, <1>4 DEF ClientTypeOK, Greet, Refuse, Goes
  <1>6. ~due'[c] /\ db'[c] = d /\ why[c] = None
    BY Zenon, <1>1, <1>2, <1>3 DEF ClientInv, ClientTypeOK
  <1>7. ClientInv(c)'
    <2>1. CASE d = "pool"
      <3>1. pool'[c] = current /\ DOMAIN pools' = DOMAIN pools /\ UNCHANGED why
            /\ pc'[c] \in {"authenticated", "challenged"}
            /\ (pc'[c] = "authenticated" => pools[current].cfg.pool.auth_type = "trust")
        BY Zenon, <1>1, <1>2, <1>3, <2>1 DEF Goes, ClientTypeOK, server
      <3>2. pc'[c] = "authenticated" => PoolOf(c)'.auth_type = "trust"
        BY Zenon, <1>2, <3>1 DEF PoolOf, Mine, server
      <3> QED
        BY Zenon, <1>4, <1>6, <2>1, <3>1, <3>2 DEF ClientInv
    <2>2. CASE d # "pool"
      <3>1. pc'[c] \in {"in", "out"} /\ (why'[c] # None => pc'[c] = "out")
        BY ZenonT(60), <1>1, <1>3, <1>6, <2>2 DEF Greet, Refuse, ClientTypeOK
      <3> QED
        BY Zenon, <1>6, <2>2, <3>1 DEF ClientInv
    <2> QED
      BY Zenon, <2>1, <2>2
  <1>8. \A e \in Clients \ {c} :
           /\ pool'[e] = pool[e] /\ db'[e] = db[e] /\ pw'[e] = pw[e] /\ pc'[e] = pc[e]
           /\ why'[e] = why[e] /\ due'[e] = due[e] /\ fetched'[e] = fetched[e]
           /\ todo'[e] = todo[e] /\ params'[e] = params[e]
    BY ZenonT(60), <1>1, <1>2, <1>3 DEF ClientTypeOK, Greet, Refuse, Goes
  <1> QED
    BY Zenon, <1>2, <1>5, <1>7, <1>8, ClientOnly

\* The answer to the challenge: whoever is let in at once showed the password of the
\* configuration or the one behind the cached hash.
LEMMA PasswordInv ==
  ASSUME StartupInv, NEW c \in Clients, Password(c)
  PROVE  StartupInv'
  <1>1. ClientTypeOK /\ ClientInv(c) /\ db[c] = "pool" /\ pool[c] \in DOMAIN pools /\ why[c] = None
    BY Zenon, Types DEF StartupInv, ClientInv, Password
  <1>2. UNCHANGED <<server, db, pw, pool, fetched, todo>> /\ pc[c] = "challenged"
    BY Zenon DEF Password
  <1>3. due' = [due EXCEPT ![c] = is_auth_query_configured(PoolOf(c))
                                  /\ pw[c] = secret[Asked(Mine(c).cfg)]]
    BY Zenon DEF Password
  <1>4. PICK p \in {"authenticated", "refetch", "fetch", "out"}, w \in {None, "impossible"} :
          /\ pc' = [pc EXCEPT ![c] = p]
          /\ why' = [why EXCEPT ![c] = w]
          /\ UNCHANGED params
          /\ w # None => p = "out"
          /\ p = "authenticated" => pw[c] \in Mine(c).ever \cup {PoolOf(c).password}
    <2>1. why = [why EXCEPT ![c] = None]
      BY Zenon, <1>1 DEF ClientTypeOK
    <2>2. ASSUME NEW hash, Compare(c, hash) PROVE
            \E p \in {"authenticated", "refetch"} :
              /\ pc' = [pc EXCEPT ![c] = p]
              /\ UNCHANGED <<why, params>>
              /\ p = "authenticated" => hash = md5_hash_first_pass(pw[c])
      BY Zenon, <2>2, Md5Injective DEF Compare, Goes, Response, md5_hash_password
    <2>3. CASE PoolOf(c).password # None
      <3>1. Compare(c, md5_hash_first_pass(PoolOf(c).password))
        BY Zenon, <2>3 DEF Password
      <3> QED
        BY <2>1, <2>2, <3>1, Md5Injective
    <2>4. CASE PoolOf(c).password = None /\ ~is_auth_query_configured(config.pool)
      BY Zenon, <2>4 DEF Password, Refuse
    <2>5. CASE PoolOf(c).password = None /\ is_auth_query_configured(config.pool)
               /\ Mine(c).hash = None
      BY Zenon, <2>1, <2>5 DEF Password, Goes
    <2>6. CASE PoolOf(c).password = None /\ is_auth_query_configured(config.pool)
               /\ Mine(c).hash # None
      <3>1. Compare(c, Mine(c).hash)
        BY Zenon, <2>6 DEF Password
      <3>2. PICK x \in Mine(c).ever : Mine(c).hash = md5_hash_first_pass(x)
        BY Zenon, <1>1, <2>6 DEF StartupInv, PoolsInv, Informed, Mine
      <3> QED
        BY Zenon, <2>1, <2>2, <3>1, <3>2, Md5Injective
    <2> QED
      BY Zenon, <2>3, <2>4, <2>5, <2>6
  <1>5. ClientTypeOK'
    BY Zenon, <1>1, <1>2, <1>3, <1>4 DEF ClientTypeOK
  <1>6. pc'[c] = p /\ why'[c] = w /\ (due'[c] <=> is_auth_query_configured(PoolOf(c))
                                                  /\ pw[c] = secret[Asked(Mine(c).cfg)])
    BY Zenon, <1>1, <1>3, <1>4 DEF ClientTypeOK
  <1>7. ClientInv(c)'
    <2>1. Grows /\ UNCHANGED <<secret, pool, db, pw>>
      BY Zenon, <1>2, PoolsUnchanged DEF server
    <2>2. pc'[c] \in {"authenticated", "refetch", "fetch", "out"} /\ why'[c] # "password"
          /\ (why'[c] # None => pc'[c] = "out")
      BY Zenon, <1>1, <1>4, <1>6, PasswordsAssumption
    <2> QED
      BY Zenon, <1>1, <1>4, <1>6, <2>1, <2>2, ClientStep
  <1>8. \A d \in Clients \ {c} :
           /\ pool'[d] = pool[d] /\ db'[d] = db[d] /\ pw'[d] = pw[d] /\ pc'[d] = pc[d]
           /\ why'[d] = why[d] /\ due'[d] = due[d] /\ fetched'[d] = fetched[d]
           /\ todo'[d] = todo[d] /\ params'[d] = params[d]
    BY Zenon, <1>1, <1>2, <1>3, <1>4 DEF ClientTypeOK
  <1> QED
    BY Zenon, <1>2, <1>5, <1>7, <1>8, ClientOnly

\* A client that goes away was not refused.
LEMMA HangsUpInv ==
  ASSUME StartupInv, NEW c \in Clients, HangsUp(c)
  PROVE  StartupInv'
  <1> USE DEF HangsUp, Refuse
  <1>1. ClientTypeOK /\ ClientInv(c) /\ db[c] = "pool" /\ ~due[c]
    BY Zenon, Types DEF StartupInv, ClientInv
  <1>2. ClientTypeOK'
    BY Zenon, <1>1 DEF ClientTypeOK
  <1>3. ClientInv(c)'
    <2>1. Grows /\ UNCHANGED <<secret, pool, db, pw, due>>
      BY Zenon, PoolsUnchanged DEF server
    <2>2. pc'[c] = "out" /\ why'[c] = "gone"
      BY Zenon, <1>1 DEF ClientTypeOK
    <2> QED
      BY Zenon, <1>1, <2>1, <2>2, ClientStep
  <1> QED
    BY Zenon, <1>1, <1>2, <1>3, ClientOnly DEF ClientTypeOK

\* The answer of refetch_auth_hash is the hash of the password of this moment, or none.
LEMMA FetchInv ==
  ASSUME StartupInv, NEW c \in Clients, Fetch(c)
  PROVE  StartupInv'
  <1>1. ClientTypeOK /\ ClientInv(c) /\ db[c] = "pool" /\ pool[c] \in DOMAIN pools /\ why[c] = None
    BY Zenon, Types DEF StartupInv, ClientInv, Fetch
  <1>2. /\ pools \in Seq(PoolRec) /\ secret \in [Hosts -> Passwords]
        /\ UNCHANGED <<server, db, pw, pool, todo, params, why>>
    BY Zenon, Types DEF Fetch
  <1>3. Mine(c) \in PoolRec /\ Informed(Mine(c)) /\ Mine(c).cfg \in Accepted
    <2>1. Mine(c) \in PoolRec
      BY <1>1, <1>2 DEF Mine
    <2>2. Informed(Mine(c))
      BY Zenon, <1>1 DEF Mine, StartupInv, PoolsInv
    <2> QED
      BY Zenon, <2>1, <2>2 DEF PoolRec
  <1>4. PICK a \in IF is_auth_query_configured(PoolOf(c))
                   THEN fetch_hash(Asked(Mine(c).cfg)) ELSE {None} :
          /\ fetched' = [fetched EXCEPT ![c] = a]
          /\ due' = [due EXCEPT ![c] = @ /\ a # None]
          /\ pc' = [pc EXCEPT ![c] = IF @ = "fetch" THEN "fetched" ELSE "refetched"]
    BY Zenon DEF Fetch
  <1>5. secret[Asked(Mine(c).cfg)] \in Mine(c).ever /\ secret[Asked(Mine(c).cfg)] \in Passwords
    BY Zenon, <1>2, <1>3, AcceptedHosts DEF Informed, Asked
  <1>6. a # None => a = md5_hash_first_pass(secret[Asked(Mine(c).cfg)])
    BY Zenon, <1>4 DEF fetch_hash
  <1>7. a \in Hashes \cup {None}
    BY Zenon, <1>5, <1>6 DEF Hashes
  <1>8. ClientTypeOK'
    BY Zenon, <1>1, <1>2, <1>4, <1>7 DEF ClientTypeOK
  <1>9. fetched'[c] = a /\ (due'[c] <=> due[c] /\ a # None) /\ pc'[c] \in {"fetched", "refetched"}
    BY Zenon, <1>1, <1>4 DEF ClientTypeOK
  <1>10. ClientInv(c)'
    <2>1. Grows /\ UNCHANGED <<secret, pool, db, pw, why>>
      BY Zenon, <1>2, PoolsUnchanged DEF server
    <2>2. due'[c] => is_auth_query_configured(PoolOf(c)) /\ pw[c] = secret[Asked(Mine(c).cfg)]
      BY Zenon, <1>1, <1>9 DEF ClientInv
    <2>3. /\ fetched'[c] # None => \E x \in Mine(c).ever : fetched'[c] = md5_hash_first_pass(x)
          /\ due'[c] => fetched'[c] # None /\ fetched'[c] = md5_hash_first_pass(pw[c])
      BY Zenon, <1>5, <1>6, <1>9, <2>2
    <2>4. why'[c] = None /\ None # "password"
      BY Zenon, <1>1, <2>1, PasswordsAssumption
    <2> QED
      BY Zenon, <1>1, <1>9, <2>1, <2>2, <2>3, <2>4, ClientStep
  <1>11. \A d \in Clients \ {c} :
           /\ pool'[d] = pool[d] /\ db'[d] = db[d] /\ pw'[d] = pw[d] /\ pc'[d] = pc[d]
           /\ why'[d] = why[d] /\ due'[d] = due[d] /\ fetched'[d] = fetched[d]
           /\ todo'[d] = todo[d] /\ params'[d] = params[d]
    BY Zenon, <1>1, <1>2, <1>4 DEF ClientTypeOK
  <1> QED
    BY Zenon, <1>2, <1>8, <1>10, <1>11, ClientOnly

\* The hash that was fetched is cached.
LEMMA StoreInv ==
  ASSUME StartupInv, NEW c \in Clients, pool[c] \in DOMAIN pools,
         pc[c] \in {"fetched", "refetched"}, fetched[c] # None, Store(c),
         UNCHANGED <<config, current, building, secret>>
  PROVE  ServerTypeOK' /\ PoolsInv' /\ Grows
  <1>1. /\ pools \in Seq(PoolRec) /\ pools[pool[c]] \in PoolRec
        /\ fetched[c] \in Hashes /\ current \in 0..Len(pools)
    <2>1. pools \in Seq(PoolRec) /\ current \in 0..Len(pools) /\ ClientTypeOK
      BY Zenon, Types
    <2>2. fetched[c] \in Hashes
      BY Zenon, <2>1 DEF ClientTypeOK
    <2> QED
      BY <2>1, <2>2
  <1>2. PICK p \in PoolRec : p = pools[pool[c]]
    BY Zenon, <1>1
  <1>3. PICK h \in Hashes : h = fetched[c]
    BY Zenon, <1>1
  <1> DEFINE r == [p EXCEPT !.hash = h]
  <1>4. r \in PoolRec /\ r.cfg = p.cfg /\ r.ever = p.ever /\ r.hash = h /\ r.pending = p.pending
        /\ r.validated = p.validated /\ r.params = p.params
    BY Zenon DEF PoolRec
  <1>5. pools' = [pools EXCEPT ![pool[c]] = r]
    BY Zenon, <1>2, <1>3 DEF Store
  <1> HIDE DEF r
  <1>6. /\ pools' \in Seq(PoolRec) /\ Len(pools') = Len(pools) /\ DOMAIN pools' = DOMAIN pools
        /\ pools'[pool[c]] = r /\ Grows
        /\ \A g \in DOMAIN pools : g # pool[c] => pools'[g] = pools[g]
    BY Zenon, <1>1, <1>2, <1>4, <1>5, PoolChanged
  <1>7. ServerTypeOK'
    <2>1. UNCHANGED <<config, current, building, secret>> /\ current' \in 0..Len(pools')
      BY Zenon, <1>1, <1>6
    <2> QED
      BY Zenon, <1>6, <2>1 DEF StartupInv, TypeOK, ServerTypeOK, PoolRec
  <1>8. \E x \in r.ever : r.hash = md5_hash_first_pass(x)
    BY SMTT(30), <1>2, <1>3, <1>4 DEF StartupInv, ClientInv, Mine
  <1>9. Informed(r)'
    BY Zenon, <1>2, <1>4, <1>8 DEF StartupInv, PoolsInv, Informed
  <1>10. PoolsInv'
    <2>1. building' # None => Informed(building)'
      BY Zenon DEF StartupInv, PoolsInv, Informed
    <2>2. ASSUME NEW g \in DOMAIN pools
          PROVE  /\ Informed(pools[g])'
                 /\ pools'[g].pending \subseteq Places(pools'[g].cfg)
                 /\ pools'[g].validated =>
                      \E at \in Places(pools'[g].cfg) : pools'[g].params = HostAt(pools'[g].cfg, at)
      <3>1. CASE g = pool[c]
        BY SMTT(30), <3>1, <1>2, <1>4, <1>6, <1>9 DEF StartupInv, PoolsInv, Informed
      <3>2. CASE g # pool[c]
        BY ZenonT(60), <3>2, <1>6 DEF StartupInv, PoolsInv, Informed
      <3> QED
        BY Zenon, <3>1, <3>2
    <2> QED
      BY Zenon, <1>6, <2>1, <2>2 DEF PoolsInv
  <1> QED
    BY Zenon, <1>6, <1>7, <1>10

\* A step of client c that changes the pools too.
LEMMA ClientAndPools ==
  ASSUME StartupInv, NEW c \in Clients, UNCHANGED secret,
         ServerTypeOK', PoolsInv', Grows, ClientTypeOK', ClientInv(c)',
         \A d \in Clients \ {c} :
           /\ pool'[d] = pool[d] /\ db'[d] = db[d] /\ pw'[d] = pw[d] /\ pc'[d] = pc[d]
           /\ why'[d] = why[d] /\ due'[d] = due[d] /\ fetched'[d] = fetched[d]
           /\ todo'[d] = todo[d] /\ params'[d] = params[d]
  PROVE  StartupInv'
  <1>1. \A d \in Clients : ClientInv(d)'
    BY Zenon, ClientStays
  <1> QED
    BY Zenon, <1>1 DEF StartupInv, TypeOK

\* The two places where the answer of refetch_auth_hash is used.
LEMMA AnswerInv ==
  ASSUME StartupInv, NEW c \in Clients, Fetched(c) \/ Refetched(c)
  PROVE  StartupInv'
  <1>1. ClientTypeOK /\ ClientInv(c) /\ db[c] = "pool" /\ pool[c] \in DOMAIN pools /\ why[c] = None
        /\ pc[c] \in {"fetched", "refetched"}
    BY Zenon, Types DEF StartupInv, ClientInv, Fetched, Refetched
  <1>2. /\ UNCHANGED <<config, current, building, secret, db, pw, pool, todo, due>>
        /\ fetched' = [fetched EXCEPT ![c] = None]
    BY Zenon DEF Fetched, Refetched
  <1>3. /\ fetched[c] # None => \E x \in Mine(c).ever : fetched[c] = md5_hash_first_pass(x)
        /\ due[c] => fetched[c] # None /\ fetched[c] = md5_hash_first_pass(pw[c])
        /\ due[c] => is_auth_query_configured(PoolOf(c)) /\ pw[c] = secret[Asked(Mine(c).cfg)]
    BY Zenon, <1>1 DEF ClientInv
  <1>4. md5_hash_second_pass(fetched[c], c) = Response(c) <=> fetched[c] = md5_hash_first_pass(pw[c])
    BY Zenon, Md5Injective DEF Response, md5_hash_password
  <1>5. PICK p \in {"authenticated", "refetch", "out"}, w \in {None, "password"} :
          /\ pc' = [pc EXCEPT ![c] = p]
          /\ why' = [why EXCEPT ![c] = w]
          /\ UNCHANGED params
          /\ UNCHANGED pools \/ (fetched[c] # None /\ Store(c))
          /\ w # None => p = "out"
          /\ p = "authenticated" => fetched[c] # None /\ fetched[c] = md5_hash_first_pass(pw[c])
          /\ w = "password" => ~due[c]
    <2>1. why = [why EXCEPT ![c] = None] /\ None # "password"
      BY Zenon, <1>1, PasswordsAssumption DEF ClientTypeOK
    <2>2. CASE fetched[c] = None
      BY Zenon, <1>3, <2>2 DEF Fetched, Refetched, Refuse
    <2>3. CASE fetched[c] # None /\ fetched[c] = md5_hash_first_pass(pw[c])
      BY Zenon, <1>4, <2>1, <2>3 DEF Fetched, Refetched, Compare, Goes
    <2>4. CASE fetched[c] # None /\ fetched[c] # md5_hash_first_pass(pw[c])
      <3>1. ~due[c]
        BY Zenon, <1>3, <2>4
      <3> QED
        BY Zenon, <1>4, <2>1, <2>4, <3>1 DEF Fetched, Refetched, Compare, Goes, Refuse
    <2> QED
      BY Zenon, <2>2, <2>3, <2>4
  <1>6. ServerTypeOK' /\ PoolsInv' /\ Grows
    <2>1. CASE UNCHANGED pools
      <3>1. ServerTypeOK'
        BY Zenon, <1>2, <2>1 DEF StartupInv, TypeOK, ServerTypeOK
      <3>2. PoolsInv'
        BY Zenon, <1>2, <2>1 DEF StartupInv, PoolsInv, Informed
      <3> QED
        BY Zenon, <2>1, <3>1, <3>2, PoolsUnchanged
    <2>2. CASE fetched[c] # None /\ Store(c)
      BY Zenon, <1>1, <1>2, <2>2, StoreInv
    <2> QED
      BY Zenon, <1>5, <2>1, <2>2
  <1>7. ClientTypeOK'
    BY Zenon, <1>1, <1>2, <1>5 DEF ClientTypeOK
  <1>8. pc'[c] = p /\ why'[c] = w
    BY Zenon, <1>1, <1>5 DEF ClientTypeOK
  <1>9. p = "authenticated" => pw[c] \in Mine(c).ever
    BY Zenon, <1>3, <1>5, Md5Injective
  <1>10. ClientInv(c)'
    BY Zenon, <1>1, <1>2, <1>3, <1>5, <1>6, <1>8, <1>9, ClientStep
  <1>11. \A d \in Clients \ {c} :
           /\ pool'[d] = pool[d] /\ db'[d] = db[d] /\ pw'[d] = pw[d] /\ pc'[d] = pc[d]
           /\ why'[d] = why[d] /\ due'[d] = due[d] /\ fetched'[d] = fetched[d]
           /\ todo'[d] = todo[d] /\ params'[d] = params[d]
    BY Zenon, <1>1, <1>2, <1>5 DEF ClientTypeOK
  <1> QED
    BY Zenon, <1>2, <1>6, <1>7, <1>10, <1>11, ClientAndPools

\* The client is greeted with the parameters of a pool that was validated.
LEMMA GreetInv ==
  ASSUME StartupInv, NEW c \in Clients, db[c] = "pool", pc[c] \in {"authenticated", "validate"},
         Mine(c).validated, Greet(c, Mine(c).params),
         UNCHANGED <<server, db, pw, pool, fetched, todo, due>>
  PROVE  StartupInv'
  <1>1. ClientTypeOK /\ ClientInv(c) /\ pool[c] \in DOMAIN pools /\ pools \in Seq(PoolRec)
        /\ why[c] = None
    BY Zenon, Types DEF StartupInv, ClientInv
  <1>2. /\ pc' = [pc EXCEPT ![c] = "in"]
        /\ params' = [params EXCEPT ![c] = Mine(c).params]
        /\ UNCHANGED why
    BY Zenon DEF Greet
  <1>3. \E at \in Places(Mine(c).cfg) : Mine(c).params = HostAt(Mine(c).cfg, at)
    BY Zenon, <1>1 DEF StartupInv, PoolsInv, Mine
  <1>4. Mine(c).params \in Hosts \cup {None}
    <2>1. Mine(c) \in PoolRec
      BY <1>1 DEF Mine
    <2> QED
      BY Zenon, <2>1 DEF PoolRec
  <1>5. ClientTypeOK'
    BY Zenon, <1>1, <1>2, <1>4 DEF ClientTypeOK
  <1>6. pc'[c] = "in" /\ params'[c] = Mine(c).params
    BY Zenon, <1>1, <1>2 DEF ClientTypeOK
  <1>7. Grows /\ UNCHANGED <<secret, pool, db, pw, due, why>>
    BY Zenon, <1>2, PoolsUnchanged DEF server
  <1>8. /\ PoolOf(c).auth_type = "md5" => pw[c] \in Mine(c).ever \cup {PoolOf(c).password}
        /\ due[c] => is_auth_query_configured(PoolOf(c)) /\ pw[c] = secret[Asked(Mine(c).cfg)]
    BY Zenon, <1>1 DEF ClientInv
  <1>9. why'[c] = None /\ None # "password"
    BY Zenon, <1>1, <1>7, PasswordsAssumption
  <1>10. ClientInv(c)'
    BY Zenon, <1>1, <1>3, <1>6, <1>7, <1>8, <1>9, ClientStep
  <1> QED
    BY Zenon, <1>1, <1>2, <1>5, <1>10, ClientOnly DEF ClientTypeOK

\* The end of authentication: the pool is validated, or this client validates it.
LEMMA AuthenticatedInv ==
  ASSUME StartupInv, NEW c \in Clients, Authenticated(c)
  PROVE  StartupInv'
  <1>1. ClientTypeOK /\ ClientInv(c) /\ db[c] = "pool" /\ pool[c] \in DOMAIN pools
        /\ pools \in Seq(PoolRec) /\ why[c] = None /\ pc[c] = "authenticated"
    BY Zenon, Types DEF StartupInv, ClientInv, Authenticated
  <1>2. UNCHANGED <<server, db, pw, pool, fetched, due>>
    BY Zenon DEF Authenticated
  <1>3. CASE Mine(c).validated
    <2>1. Greet(c, Mine(c).params) /\ UNCHANGED todo
      BY Zenon, <1>3 DEF Authenticated
    <2> QED
      BY Zenon, <1>1, <1>2, <1>3, <2>1, GreetInv
  <1>4. CASE ~Mine(c).validated
    <2>1. /\ todo' = [todo EXCEPT ![c] = Places(Mine(c).cfg)]
          /\ pc' = [pc EXCEPT ![c] = "validate"]
          /\ UNCHANGED <<why, params>>
      BY Zenon, <1>4 DEF Authenticated, Goes
    <2>2. Places(Mine(c).cfg) \in SUBSET AllPlaces
      <3>1. Mine(c) \in PoolRec
        BY <1>1 DEF Mine
      <3>2. Mine(c).cfg \in Accepted
        BY Zenon, <3>1 DEF PoolRec
      <3> QED
        BY Zenon, <3>2, AcceptedHosts
    <2>3. ClientTypeOK'
      BY Zenon, <1>1, <1>2, <2>1, <2>2 DEF ClientTypeOK
    <2>4. pc'[c] = "validate" /\ todo'[c] = Places(Mine(c).cfg)
      BY Zenon, <1>1, <2>1 DEF ClientTypeOK
    <2>5. Grows /\ UNCHANGED <<secret, pool, db, pw, due, why>>
      BY Zenon, <1>2, <2>1, PoolsUnchanged DEF server
    <2>6. /\ PoolOf(c).auth_type = "md5" => pw[c] \in Mine(c).ever \cup {PoolOf(c).password}
          /\ due[c] => is_auth_query_configured(PoolOf(c)) /\ pw[c] = secret[Asked(Mine(c).cfg)]
      BY Zenon, <1>1 DEF ClientInv
    <2>7. why'[c] = None /\ None # "password"
      BY Zenon, <1>1, <2>5, PasswordsAssumption
    <2>8. ClientInv(c)'
      BY ZenonT(60), <1>1, <2>4, <2>5, <2>6, <2>7, ClientStep
    <2> QED
      BY Zenon, <1>1, <1>2, <2>1, <2>3, <2>8, ClientOnly DEF ClientTypeOK
  <1> QED
    BY Zenon, <1>3, <1>4

\* The end of the validation by a client.
LEMMA ValidatedInv ==
  ASSUME StartupInv, NEW c \in Clients, Validated(c)
  PROVE  StartupInv'
  <1>1. ClientTypeOK /\ ClientInv(c) /\ db[c] = "pool" /\ why[c] = None /\ pc[c] = "validate"
    BY Zenon, Types DEF StartupInv, ClientInv, Validated
  <1>2. UNCHANGED <<server, db, pw, pool, fetched, todo, due>>
    BY Zenon DEF Validated
  <1>3. CASE Mine(c).validated
    <2>1. Greet(c, Mine(c).params)
      BY Zenon, <1>3 DEF Validated
    <2> QED
      BY Zenon, <1>1, <1>2, <1>3, <2>1, GreetInv
  <1>4. CASE ~Mine(c).validated
    <2>1. /\ pc' = [pc EXCEPT ![c] = "out"]
          /\ why' = [why EXCEPT ![c] = "pool down"]
          /\ UNCHANGED params
      BY Zenon, <1>4 DEF Validated, Refuse
    <2>2. ClientTypeOK'
      BY Zenon, <1>1, <1>2, <2>1 DEF ClientTypeOK
    <2>3. pc'[c] = "out" /\ why'[c] = "pool down"
      BY Zenon, <1>1, <2>1 DEF ClientTypeOK
    <2>4. Grows /\ UNCHANGED <<secret, pool, db, pw, due>>
      BY Zenon, <1>2, PoolsUnchanged DEF server
    <2>5. due[c] => is_auth_query_configured(PoolOf(c)) /\ pw[c] = secret[Asked(Mine(c).cfg)]
      BY Zenon, <1>1 DEF ClientInv
    <2>6. ClientInv(c)'
      BY Zenon, <1>1, <2>3, <2>4, <2>5, ClientStep
    <2> QED
      BY Zenon, <1>1, <1>2, <2>1, <2>2, <2>6, ClientOnly DEF ClientTypeOK
  <1> QED
    BY Zenon, <1>3, <1>4


\* One pool is replaced by one that knows as much.
LEMMA PoolStep ==
  ASSUME StartupInv, NEW g \in DOMAIN pools, NEW r \in PoolRec,
         r.cfg = pools[g].cfg, r.ever = pools[g].ever, r.hash = pools[g].hash,
         r.pending \subseteq Places(r.cfg),
         r.validated => \E at \in Places(r.cfg) : r.params = HostAt(r.cfg, at),
         pools' = [pools EXCEPT ![g] = r],
         UNCHANGED <<config, current, building, secret>>
  PROVE  ServerTypeOK' /\ PoolsInv' /\ Grows
  <1>1. pools \in Seq(PoolRec) /\ current \in 0..Len(pools)
    BY Zenon, Types
  <1>2. /\ pools' \in Seq(PoolRec) /\ Len(pools') = Len(pools) /\ DOMAIN pools' = DOMAIN pools
        /\ pools'[g] = r /\ Grows
        /\ \A h \in DOMAIN pools : h # g => pools'[h] = pools[h]
    BY Zenon, <1>1, PoolChanged
  <1>3. ServerTypeOK'
    <2>1. UNCHANGED <<config, current, building, secret>> /\ current' \in 0..Len(pools')
      BY Zenon, <1>1, <1>2
    <2> QED
      BY Zenon, <1>2, <2>1 DEF StartupInv, TypeOK, ServerTypeOK, PoolRec
  <1>4. Informed(r)'
    BY Zenon DEF StartupInv, PoolsInv, Informed
  <1>5. PoolsInv'
    <2>1. building' # None => Informed(building)'
      BY Zenon DEF StartupInv, PoolsInv, Informed
    <2>2. ASSUME NEW h \in DOMAIN pools
          PROVE  /\ Informed(pools[h])'
                 /\ pools'[h].pending \subseteq Places(pools'[h].cfg)
                 /\ pools'[h].validated =>
                      \E at \in Places(pools'[h].cfg) : pools'[h].params = HostAt(pools'[h].cfg, at)
      <3>1. CASE h = g
        BY Zenon, <3>1, <1>2, <1>4 DEF Informed
      <3>2. CASE h # g
        BY ZenonT(60), <3>2, <1>2 DEF StartupInv, PoolsInv, Informed
      <3> QED
        BY Zenon, <3>1, <3>2
    <2> QED
      BY Zenon, <1>2, <2>1, <2>2 DEF PoolsInv
  <1> QED
    BY Zenon, <1>2, <1>3, <1>5

\* A connection that succeeds leaves the name of its server, and nothing else.
LEMMA ConnectedPool ==
  ASSUME StartupInv, NEW g \in DOMAIN pools, NEW at \in Places(pools[g].cfg),
         NEW r \in Connected(pools[g], HostAt(pools[g].cfg, at))
  PROVE  /\ r \in PoolRec
         /\ r.cfg = pools[g].cfg /\ r.ever = pools[g].ever /\ r.hash = pools[g].hash
         /\ r.pending = pools[g].pending
         /\ r.pending \subseteq Places(r.cfg)
         /\ r.validated => \E a \in Places(r.cfg) : r.params = HostAt(r.cfg, a)
  <1>1. PICK p \in PoolRec : p = pools[g]
    BY Types
  <1>2. PICK host \in Hosts : host = HostAt(p.cfg, at)
    BY Zenon, <1>1, AcceptedHosts DEF PoolRec
  <1>3. /\ p.pending \subseteq Places(p.cfg)
        /\ p.validated => \E a \in Places(p.cfg) : p.params = HostAt(p.cfg, a)
    BY Zenon, <1>1 DEF StartupInv, PoolsInv
  <1>4. CASE r = p
    BY Zenon, <1>1, <1>3, <1>4
  <1>5. CASE r = [p EXCEPT !.params = host, !.validated = TRUE]
    <2>1. /\ r \in PoolRec /\ r.cfg = p.cfg /\ r.ever = p.ever /\ r.hash = p.hash
          /\ r.pending = p.pending /\ r.params = host
      BY Zenon, <1>5 DEF PoolRec
    <2> QED
      BY Zenon, <1>1, <1>2, <1>3, <2>1
  <1> QED
    BY Zenon, <1>1, <1>2, <1>4, <1>5 DEF Connected

\* A client hears of one more server.
LEMMA ValidateInv ==
  ASSUME StartupInv, NEW c \in Clients, Validate(c)
  PROVE  StartupInv'
  <1>1. ClientTypeOK /\ ClientInv(c) /\ db[c] = "pool" /\ why[c] = None /\ pc[c] = "validate"
        /\ pool[c] \in DOMAIN pools /\ todo[c] \subseteq Places(Mine(c).cfg)
    BY Zenon, Types DEF StartupInv, ClientInv, Validate
  <1>2. UNCHANGED <<config, current, building, secret, pc, db, pw, pool, fetched, params, why, due>>
    BY Zenon DEF Validate
  <1>3. PICK at \in todo[c] :
          /\ todo' = [todo EXCEPT ![c] = @ \ {at}]
          /\ \E p \in Connected(Mine(c), HostAt(Mine(c).cfg, at)) :
               pools' = [pools EXCEPT ![pool[c]] = p]
    BY Zenon DEF Validate
  <1>4. PICK r \in Connected(Mine(c), HostAt(Mine(c).cfg, at)) :
          pools' = [pools EXCEPT ![pool[c]] = r]
    BY Zenon, <1>3
  <1>5. ServerTypeOK' /\ PoolsInv' /\ Grows
    <2>1. at \in Places(pools[pool[c]].cfg) /\ r \in Connected(pools[pool[c]], HostAt(pools[pool[c]].cfg, at))
      BY Zenon, <1>1, <1>3, <1>4 DEF Mine
    <2>2. /\ r \in PoolRec
          /\ r.cfg = pools[pool[c]].cfg /\ r.ever = pools[pool[c]].ever
          /\ r.hash = pools[pool[c]].hash
          /\ r.pending \subseteq Places(r.cfg)
          /\ r.validated => \E a \in Places(r.cfg) : r.params = HostAt(r.cfg, a)
      BY Zenon, <1>1, <2>1, ConnectedPool
    <2> QED
      BY Zenon, <1>1, <1>2, <1>4, <2>2, PoolStep
  <1>6. ClientTypeOK'
    BY Zenon, <1>1, <1>2, <1>3 DEF ClientTypeOK
  <1>7. todo'[c] \subseteq Places(Mine(c).cfg)
    BY Zenon, <1>1, <1>3 DEF ClientTypeOK
  <1>8. /\ PoolOf(c).auth_type = "md5" => pw[c] \in Mine(c).ever \cup {PoolOf(c).password}
        /\ due[c] => is_auth_query_configured(PoolOf(c)) /\ pw[c] = secret[Asked(Mine(c).cfg)]
    BY Zenon, <1>1 DEF ClientInv
  <1>9. why'[c] = None /\ None # "password"
    BY Zenon, <1>1, <1>2, PasswordsAssumption
  <1>10. ClientInv(c)'
    BY Zenon, <1>1, <1>2, <1>5, <1>7, <1>8, <1>9, ClientStep
  <1> QED
    BY ZenonT(60), <1>1, <1>2, <1>3, <1>5, <1>6, <1>10, ClientAndPools DEF ClientTypeOK

\* A step that only concerns pools.
LEMMA PoolsOnly ==
  ASSUME StartupInv, UNCHANGED <<secret, client>>, ServerTypeOK', PoolsInv', Grows
  PROVE  StartupInv'
  <1>1. UNCHANGED <<pc, db, pw, pool, fetched, todo, params, why, due>>
    BY Zenon DEF client
  <1>2. ClientTypeOK'
    BY Zenon, <1>1 DEF StartupInv, TypeOK, ClientTypeOK
  <1>3. \A d \in Clients : ClientInv(d)'
    BY Zenon, <1>1, ClientStays
  <1> QED
    BY Zenon, <1>2, <1>3 DEF StartupInv, TypeOK

\* So does the validation that from_config spawned.
LEMMA ValidatePendingInv ==
  ASSUME StartupInv, NEW g \in DOMAIN pools, ValidatePending(g)
  PROVE  StartupInv'
  <1>1. UNCHANGED <<config, current, building, secret, client>>
    BY Zenon DEF ValidatePending
  <1>2. PICK at \in pools[g].pending :
          \E p \in Connected(pools[g], HostAt(pools[g].cfg, at)) :
            pools' = [pools EXCEPT ![g] = [p EXCEPT !.pending = @ \ {at}]]
    BY Zenon DEF ValidatePending
  <1>3. at \in Places(pools[g].cfg)
    BY Zenon DEF StartupInv, PoolsInv
  <1>4. PICK q \in Connected(pools[g], HostAt(pools[g].cfg, at)) :
            pools' = [pools EXCEPT ![g] = [q EXCEPT !.pending = @ \ {at}]]
    BY Zenon, <1>2
  <1>5. /\ q \in PoolRec
        /\ q.cfg = pools[g].cfg /\ q.ever = pools[g].ever /\ q.hash = pools[g].hash
        /\ q.pending \subseteq Places(q.cfg)
        /\ q.validated => \E a \in Places(q.cfg) : q.params = HostAt(q.cfg, a)
    BY Zenon, <1>3, <1>4, ConnectedPool
  <1> DEFINE r == [q EXCEPT !.pending = q.pending \ {at}]
  <1>6. /\ r \in PoolRec /\ r.cfg = q.cfg /\ r.ever = q.ever /\ r.hash = q.hash
        /\ r.pending = q.pending \ {at} /\ r.params = q.params /\ r.validated = q.validated
    BY Zenon, <1>5 DEF PoolRec
  <1>7. pools' = [pools EXCEPT ![g] = r]
    BY Zenon, <1>4, <1>5 DEF PoolRec
  <1> HIDE DEF r
  <1>8. ServerTypeOK' /\ PoolsInv' /\ Grows
    <2>1. r.pending \subseteq Places(r.cfg)
      BY Zenon, <1>5, <1>6
    <2>2. r.validated => \E a \in Places(r.cfg) : r.params = HostAt(r.cfg, a)
      BY Zenon, <1>5, <1>6
    <2> QED
      BY Zenon, <1>1, <1>5, <1>6, <1>7, <2>1, <2>2, PoolStep
  <1> QED
    BY Zenon, <1>1, <1>8, PoolsOnly

\* The next client starts afresh.
LEMMA LeaveInv ==
  ASSUME StartupInv, NEW c \in Clients, Leave(c)
  PROVE  StartupInv'
  <1> USE DEF Leave
  <1>1. ClientTypeOK
    BY Zenon, Types
  <1>2. ClientTypeOK'
    BY Zenon, <1>1 DEF ClientTypeOK
  <1>3. ClientInv(c)'
    <2>1. pc'[c] = "new" /\ db'[c] = None /\ why'[c] = None /\ ~due'[c] /\ None # "pool" /\ None # "password"
      BY Zenon, <1>1, PasswordsAssumption DEF ClientTypeOK
    <2> QED
      BY Zenon, <2>1 DEF ClientInv
  <1> QED
    BY Zenon, <1>1, <1>2, <1>3, ClientOnly DEF ClientTypeOK


-----------------------------------------------------------------------------
(* Reload, from_config and the servers *)

\* A new configuration, and a pool under way that knows the passwords of its servers.
LEMMA ReloadInv ==
  ASSUME StartupInv, Reload
  PROVE  StartupInv'
  <1>1. UNCHANGED <<pools, current, secret, client>>
    BY Zenon DEF Reload
  <1>2. PICK cfg \in Accepted :
          /\ config' = cfg
          /\ building' = IF cfg.pool = pools[current].cfg.pool THEN None ELSE Started(cfg)
    BY Zenon DEF Reload
  <1>3. building' \in BuildRec \cup {None} /\ (building' # None => Informed(building'))
    BY Zenon, <1>2, Types, BegunInformed DEF Started
  <1>4. ServerTypeOK'
    BY Zenon, <1>1, <1>2, <1>3, Types DEF ServerTypeOK, BuildRec
  <1>5. PoolsInv'
    <2>1. building' # None => Informed(building)'
      BY Zenon, <1>1, <1>3 DEF Informed
    <2> QED
      BY Zenon, <1>1, <2>1 DEF StartupInv, PoolsInv, Informed
  <1> QED
    BY Zenon, <1>1, <1>4, <1>5, PoolsUnchanged, PoolsOnly

\* from_config ends early.
LEMMA BuildPanicsInv ==
  ASSUME StartupInv, BuildPanics
  PROVE  StartupInv'
  <1>1. UNCHANGED <<config, pools, current, secret, client>> /\ building' = None
    BY Zenon DEF BuildPanics
  <1>2. ServerTypeOK'
    BY Zenon, <1>1, Types DEF ServerTypeOK
  <1>3. PoolsInv'
    BY Zenon, <1>1 DEF StartupInv, PoolsInv, Informed
  <1> QED
    BY Zenon, <1>1, <1>2, <1>3, PoolsUnchanged, PoolsOnly

\* from_config asks one more server.
LEMMA BuildFetchInv ==
  ASSUME StartupInv, BuildFetch
  PROVE  StartupInv'
  <1>1. UNCHANGED <<config, pools, current, secret, client>>
    BY Zenon DEF BuildFetch
  <1>2. PICK b \in BuildRec : b = building
    BY Zenon, Types DEF BuildFetch
  <1>3. PICK a \in IF is_auth_query_configured(b.cfg.pool)
                   THEN fetch_hash(HostAt(b.cfg, b.at)) ELSE {None} :
          building' = [b EXCEPT !.at = NextPlace(b.cfg, b.at), !.hash = Or(a, b.hash)]
    BY Zenon, <1>2 DEF BuildFetch
  <1>4. /\ b.cfg \in Accepted /\ b.at \in Nat \X Nat /\ b.hash \in Hashes \cup {None}
        /\ b.ever \in SUBSET Passwords /\ b.at \in Places(b.cfg) /\ Informed(b)
    <2>1. b.at \in Places(b.cfg) /\ building # None
      BY Zenon, <1>2 DEF BuildFetch
    <2>2. Informed(b)
      BY Zenon, <1>2, <2>1 DEF StartupInv, PoolsInv
    <2> QED
      BY Zenon, <2>1, <2>2 DEF BuildRec
  <1> DEFINE x == secret[HostAt(b.cfg, b.at)]
  <1>5. x \in b.ever /\ x \in Passwords
    BY Zenon, <1>4 DEF Informed
  <1>6. a \in {None, md5_hash_first_pass(x)}
    BY Zenon, <1>3 DEF fetch_hash
  <1>7. PICK h \in Hashes \cup {None} :
          h = Or(a, b.hash) /\ (h # None => \E y \in b.ever : h = md5_hash_first_pass(y))
    BY Zenon, <1>4, <1>5, <1>6 DEF Or, Hashes, Informed
  <1>8. PICK at \in Nat \X Nat : at = NextPlace(b.cfg, b.at)
    <2>1. PICK i \in Nat, j \in Nat : b.at = <<i, j>>
      BY SMTT(30), <1>4
    <2>2. b.at[1] = i /\ b.at[2] = j
      BY SMTT(30), <2>1
    <2>3. <<i, j + 1>> \in Nat \X Nat /\ <<i + 1, 1>> \in Nat \X Nat
      OBVIOUS
    <2> QED
      BY Zenon, <2>2, <2>3 DEF NextPlace
  <1> DEFINE n == [b EXCEPT !.at = at, !.hash = h]
  <1>9. n \in BuildRec /\ n.cfg = b.cfg /\ n.ever = b.ever /\ n.hash = h
    BY Zenon DEF BuildRec
  <1>10. building' = n
    BY Zenon, <1>3, <1>7, <1>8
  <1> HIDE DEF n
  <1>11. ServerTypeOK'
    BY Zenon, <1>1, <1>9, <1>10, Types DEF ServerTypeOK, BuildRec
  <1>12. Informed(n)
    BY Zenon, <1>4, <1>7, <1>9 DEF Informed
  <1>13. PoolsInv'
    <2>1. Informed(building)'
      BY Zenon, <1>1, <1>10, <1>12 DEF Informed
    <2> QED
      BY Zenon, <1>1, <2>1 DEF StartupInv, PoolsInv, Informed
  <1> QED
    BY Zenon, <1>1, <1>11, <1>13, PoolsUnchanged, PoolsOnly

\* The pool under way becomes the current one.
LEMMA BuildDoneInv ==
  ASSUME StartupInv, BuildDone
  PROVE  StartupInv'
  <1>1. UNCHANGED <<config, secret, client>> /\ building' = None /\ current' = Len(pools) + 1
    BY Zenon DEF BuildDone
  <1>2. PICK b \in BuildRec : b = building
    BY Zenon, Types DEF BuildDone
  <1>3. b.cfg \in Accepted /\ b.hash \in Hashes \cup {None} /\ b.ever \in SUBSET Passwords /\ Informed(b)
    <2>1. Informed(b)
      BY Zenon, <1>2 DEF StartupInv, PoolsInv, BuildDone
    <2> QED
      BY Zenon, <2>1 DEF BuildRec
  <1> DEFINE r == NewPool(b.cfg, b.hash, b.ever)
  <1>4. /\ r \in PoolRec /\ r.cfg = b.cfg /\ r.hash = b.hash /\ r.ever = b.ever
        /\ r.pending \subseteq Places(r.cfg) /\ ~r.validated
    BY Zenon, <1>3, AcceptedHosts DEF NewPool, PoolRec
  <1>5. pools' = Append(pools, r)
    BY Zenon, <1>2 DEF BuildDone
  <1> HIDE DEF r
  <1>6. /\ pools' \in Seq(PoolRec) /\ current' \in 0..Len(pools')
        /\ DOMAIN pools \subseteq DOMAIN pools'
        /\ \A g \in DOMAIN pools : pools'[g] = pools[g]
        /\ \A g \in DOMAIN pools' : g \in DOMAIN pools \/ pools'[g] = r
    <2>1. pools \in Seq(PoolRec) /\ r \in PoolRec
      BY Zenon, <1>4, Types
    <2>2. /\ Append(pools, r) \in Seq(PoolRec) /\ Len(pools) + 1 \in 0..Len(Append(pools, r))
          /\ DOMAIN pools \subseteq DOMAIN Append(pools, r)
          /\ \A g \in DOMAIN pools : Append(pools, r)[g] = pools[g]
          /\ \A g \in DOMAIN Append(pools, r) : g \in DOMAIN pools \/ Append(pools, r)[g] = r
      BY <2>1
    <2> QED
      BY Zenon, <1>1, <1>5, <2>2
  <1>7. Grows
    BY Zenon, <1>6 DEF Grows
  <1>8. ServerTypeOK'
    BY Zenon, <1>1, <1>6, Types DEF ServerTypeOK, PoolRec
  <1>9. PoolsInv'
    <2>1. ASSUME NEW g \in DOMAIN pools'
          PROVE  /\ Informed(pools[g])'
                 /\ pools'[g].pending \subseteq Places(pools'[g].cfg)
                 /\ pools'[g].validated =>
                      \E at \in Places(pools'[g].cfg) : pools'[g].params = HostAt(pools'[g].cfg, at)
      <3>1. CASE g \in DOMAIN pools
        BY ZenonT(60), <1>1, <1>6, <3>1 DEF StartupInv, PoolsInv, Informed
      <3>2. CASE pools'[g] = r
        BY Zenon, <1>1, <1>3, <1>4, <3>2 DEF Informed
      <3> QED
        BY Zenon, <1>6, <3>1, <3>2
    <2> QED
      BY Zenon, <1>1, <2>1 DEF PoolsInv
  <1> QED
    BY Zenon, <1>1, <1>7, <1>8, <1>9, PoolsOnly


\* A pool, or one under way, is told of a password.
LEMMA NotedPool ==
  ASSUME NEW q \in PoolRec, NEW h, NEW x \in Passwords
  PROVE  LET n == Noted(q, h, x) IN
         /\ n \in PoolRec /\ n.cfg = q.cfg /\ n.hash = q.hash /\ n.pending = q.pending
         /\ n.validated = q.validated /\ n.params = q.params /\ q.ever \subseteq n.ever
         /\ (\E at \in Places(q.cfg) : HostAt(q.cfg, at) = h) => x \in n.ever
  <1>1. PICK e \in SUBSET Passwords :
          /\ Noted(q, h, x) = [q EXCEPT !.ever = e]
          /\ q.ever \subseteq e
          /\ (\E at \in Places(q.cfg) : HostAt(q.cfg, at) = h) => x \in e
    <2>1. q.ever \in SUBSET Passwords
      BY Zenon DEF PoolRec
    <2>2. CASE \E at \in Places(q.cfg) : HostAt(q.cfg, at) = h
      <3>1. Noted(q, h, x) = [q EXCEPT !.ever = q.ever \cup {x}]
        BY Zenon, <2>2 DEF Noted, PoolRec
      <3> QED
        BY Zenon, <2>1, <3>1
    <2>3. CASE ~\E at \in Places(q.cfg) : HostAt(q.cfg, at) = h
      <3>1. Noted(q, h, x) = [q EXCEPT !.ever = q.ever]
        BY Zenon, <2>3 DEF Noted, PoolRec
      <3> QED
        BY Zenon, <2>1, <2>3, <3>1
    <2> QED
      BY Zenon, <2>2, <2>3
  <1> DEFINE n == [q EXCEPT !.ever = e]
  <1>2. /\ n \in PoolRec /\ n.cfg = q.cfg /\ n.hash = q.hash /\ n.pending = q.pending
        /\ n.validated = q.validated /\ n.params = q.params /\ n.ever = e
    BY Zenon DEF PoolRec
  <1> QED
    BY Zenon, <1>1, <1>2

\* The same of a pool under way.
LEMMA NotedBuild ==
  ASSUME NEW q \in BuildRec, NEW h, NEW x \in Passwords
  PROVE  LET n == Noted(q, h, x) IN
         /\ n \in BuildRec /\ n.cfg = q.cfg /\ n.hash = q.hash /\ q.ever \subseteq n.ever
         /\ (\E at \in Places(q.cfg) : HostAt(q.cfg, at) = h) => x \in n.ever
  <1>1. PICK e \in SUBSET Passwords :
          /\ Noted(q, h, x) = [q EXCEPT !.ever = e]
          /\ q.ever \subseteq e
          /\ (\E at \in Places(q.cfg) : HostAt(q.cfg, at) = h) => x \in e
    <2>1. q.ever \in SUBSET Passwords
      BY Zenon DEF BuildRec
    <2>2. CASE \E at \in Places(q.cfg) : HostAt(q.cfg, at) = h
      <3>1. Noted(q, h, x) = [q EXCEPT !.ever = q.ever \cup {x}]
        BY Zenon, <2>2 DEF Noted, BuildRec
      <3> QED
        BY Zenon, <2>1, <3>1
    <2>3. CASE ~\E at \in Places(q.cfg) : HostAt(q.cfg, at) = h
      <3>1. Noted(q, h, x) = [q EXCEPT !.ever = q.ever]
        BY Zenon, <2>3 DEF Noted, BuildRec
      <3> QED
        BY Zenon, <2>1, <2>3, <3>1
    <2> QED
      BY Zenon, <2>2, <2>3
  <1> DEFINE n == [q EXCEPT !.ever = e]
  <1>2. n \in BuildRec /\ n.cfg = q.cfg /\ n.hash = q.hash /\ n.ever = e
    BY Zenon DEF BuildRec
  <1> QED
    BY Zenon, <1>1, <1>2

\* Then it knows the passwords of the servers as they are now.
LEMMA NotedInformed ==
  ASSUME secret \in [Hosts -> Passwords], NEW h \in Hosts, NEW x \in Passwords,
         secret' = [secret EXCEPT ![h] = x],
         NEW q, NEW n, q.cfg \in Accepted, Informed(q), n.cfg = q.cfg, n.hash = q.hash,
         q.ever \subseteq n.ever,
         (\E at \in Places(q.cfg) : HostAt(q.cfg, at) = h) => x \in n.ever
  PROVE  Informed(n)'
  <1>1. \A at \in Places(n.cfg) : secret'[HostAt(n.cfg, at)] \in n.ever
    <2> SUFFICES ASSUME NEW at \in Places(q.cfg)
                 PROVE  secret'[HostAt(q.cfg, at)] \in n.ever
      BY Zenon
    <2>1. HostAt(q.cfg, at) \in Hosts
      BY Zenon, AcceptedHosts
    <2>2. CASE HostAt(q.cfg, at) = h
      BY Zenon, <2>1, <2>2
    <2>3. CASE HostAt(q.cfg, at) # h
      BY Zenon, <2>1, <2>3 DEF Informed
    <2> QED
      BY Zenon, <2>2, <2>3
  <1>2. n.hash # None => \E y \in n.ever : n.hash = md5_hash_first_pass(y)
    BY Zenon DEF Informed
  <1> QED
    BY Zenon, <1>1, <1>2 DEF Informed

\* A server changes the password: every pool that has the server is told, and nobody is
\* due any more by the old one.
LEMMA ChangePasswordInv ==
  ASSUME StartupInv, NEW h \in Hosts, ChangePassword(h)
  PROVE  StartupInv'
  <1>1. /\ UNCHANGED <<config, current, pc, db, pw, pool, fetched, todo, params, why>>
        /\ due' = [c \in Clients |-> due[c] /\ Asked(Mine(c).cfg) # h]
    BY Zenon DEF ChangePassword
  <1>2. PICK x \in Passwords :
          /\ secret' = [secret EXCEPT ![h] = x]
          /\ pools' = [g \in DOMAIN pools |-> Noted(pools[g], h, x)]
          /\ building' = IF building = None THEN None ELSE Noted(building, h, x)
    BY Zenon DEF ChangePassword
  <1>3. pools \in Seq(PoolRec) /\ current \in 0..Len(pools) /\ building \in BuildRec \cup {None}
        /\ secret \in [Hosts -> Passwords] /\ config \in Accepted /\ ClientTypeOK
    BY Zenon, Types
  <1>4. ASSUME NEW g \in DOMAIN pools
        PROVE  /\ pools'[g] \in PoolRec /\ pools'[g].cfg = pools[g].cfg
               /\ pools'[g].pending = pools[g].pending
               /\ pools'[g].validated = pools[g].validated /\ pools'[g].params = pools[g].params
               /\ pools[g].ever \subseteq pools'[g].ever
               /\ Informed(pools[g])'
    <2>1. PICK q \in PoolRec : q = pools[g]
      BY <1>3
    <2>2. PICK n : n = Noted(q, h, x)
      BY Zenon
    <2>3. pools'[g] = n
      BY Zenon, <1>2, <2>1, <2>2
    <2>4. /\ n \in PoolRec /\ n.cfg = q.cfg /\ n.hash = q.hash /\ n.pending = q.pending
          /\ n.validated = q.validated /\ n.params = q.params /\ q.ever \subseteq n.ever
          /\ (\E at \in Places(q.cfg) : HostAt(q.cfg, at) = h) => x \in n.ever
      BY ZenonT(60), <2>2, NotedPool
    <2>5. q.cfg \in Accepted /\ Informed(q)
      BY Zenon, <2>1 DEF StartupInv, PoolsInv, PoolRec
    <2>6. Informed(n)'
      BY Zenon, <1>2, <1>3, <2>4, <2>5, NotedInformed
    <2> QED
      BY Zenon, <2>1, <2>3, <2>4, <2>6 DEF Informed
  <1>5. building' \in BuildRec \cup {None} /\ (building' # None => Informed(building)')
    <2>1. CASE building = None
      BY Zenon, <1>2, <2>1
    <2>2. CASE building # None
      <3>1. PICK q \in BuildRec : q = building
        BY Zenon, <1>3, <2>2
      <3>2. PICK n : n = Noted(q, h, x)
        BY Zenon
      <3>3. building' = n
        BY Zenon, <1>2, <2>2, <3>1, <3>2
      <3>4. /\ n \in BuildRec /\ n.cfg = q.cfg /\ n.hash = q.hash /\ q.ever \subseteq n.ever
            /\ (\E at \in Places(q.cfg) : HostAt(q.cfg, at) = h) => x \in n.ever
        BY Zenon, <3>2, NotedBuild
      <3>5. q.cfg \in Accepted /\ Informed(q)
        BY Zenon, <2>2, <3>1 DEF StartupInv, PoolsInv, BuildRec
      <3>6. Informed(n)'
        BY Zenon, <1>2, <1>3, <3>4, <3>5, NotedInformed
      <3> QED
        BY Zenon, <3>3, <3>4, <3>6 DEF Informed
    <2> QED
      BY Zenon, <2>1, <2>2
  <1>6. /\ pools' \in Seq(PoolRec) /\ Len(pools') = Len(pools) /\ DOMAIN pools' = DOMAIN pools
    <2>1. DOMAIN pools' = 1..Len(pools) /\ Len(pools) \in Nat
      BY SMTT(30), <1>2, <1>3
    <2>2. pools' = [g \in 1..Len(pools) |-> pools'[g]]
      BY SMTT(30), <1>2, <1>3
    <2>3. pools' \in [1..Len(pools) -> PoolRec]
      BY SMTT(30), <1>3, <1>4, <2>1, <2>2
    <2> QED
      BY SMTT(30), <1>3, <2>1, <2>3
  <1>7. ServerTypeOK'
    <2>1. secret' \in [Hosts -> Passwords]
      BY Zenon, <1>2, <1>3
    <2> QED
      BY Zenon, <1>1, <1>3, <1>5, <1>6, <2>1 DEF ServerTypeOK, PoolRec, BuildRec
  <1>8. PoolsInv'
    <2>1. ASSUME NEW g \in DOMAIN pools
          PROVE  /\ Informed(pools[g])'
                 /\ pools'[g].pending \subseteq Places(pools'[g].cfg)
                 /\ pools'[g].validated =>
                      \E at \in Places(pools'[g].cfg) : pools'[g].params = HostAt(pools'[g].cfg, at)
      BY ZenonT(60), <1>4 DEF StartupInv, PoolsInv
    <2> QED
      BY Zenon, <1>5, <1>6, <2>1 DEF PoolsInv
  <1>9. ClientTypeOK'
    BY Zenon, <1>1, <1>3 DEF ClientTypeOK
  <1>10. ASSUME NEW c \in Clients PROVE ClientInv(c)'
    <2>1. ClientInv(c) /\ (due'[c] <=> due[c] /\ Asked(Mine(c).cfg) # h)
      BY Zenon, <1>1 DEF StartupInv
    <2>2. CASE db[c] # "pool"
      BY Zenon, <1>1, <2>1, <2>2 DEF ClientInv
    <2>3. CASE db[c] = "pool"
      <3>1. pool[c] \in DOMAIN pools /\ pool'[c] \in DOMAIN pools'
        BY Zenon, <1>1, <1>6, <2>1, <2>3 DEF ClientInv
      <3>2. Mine(c)'.cfg = Mine(c).cfg /\ Mine(c).ever \subseteq Mine(c)'.ever
        BY Zenon, <1>1, <1>4, <3>1 DEF Mine
      <3>3. PoolOf(c)' = PoolOf(c)
        BY Zenon, <3>2 DEF PoolOf
      <3>4. due'[c] => /\ is_auth_query_configured(PoolOf(c)')
                       /\ pw'[c] = secret'[Asked(Mine(c)'.cfg)]
        <4>1. Asked(Mine(c).cfg) \in Hosts
          <5>1. Mine(c) \in PoolRec
            BY SMTT(30), <1>3, <3>1 DEF Mine
          <5> QED
            BY Zenon, <5>1, AcceptedHosts DEF PoolRec
        <4>2. Asked(Mine(c).cfg) # h => secret'[Asked(Mine(c).cfg)] = secret[Asked(Mine(c).cfg)]
          BY Zenon, <1>2, <1>3, <4>1
        <4>3. due[c] => is_auth_query_configured(PoolOf(c)) /\ pw[c] = secret[Asked(Mine(c).cfg)]
          BY Zenon, <2>1 DEF ClientInv
        <4> QED
          BY Zenon, <1>1, <2>1, <3>2, <3>3, <4>2, <4>3
      <3>5. pc'[c] \in {"fetched", "refetched"} =>
              /\ fetched'[c] # None => \E y \in Mine(c)'.ever : fetched'[c] = md5_hash_first_pass(y)
              /\ due'[c] => fetched'[c] # None /\ fetched'[c] = md5_hash_first_pass(pw'[c])
        BY Zenon, <1>1, <2>1, <3>2 DEF ClientInv
      <3>6. pc'[c] \in {"authenticated", "validate", "in"} /\ PoolOf(c)'.auth_type = "md5" =>
              pw'[c] \in Mine(c)'.ever \cup {PoolOf(c)'.password}
        BY ZenonT(60), <1>1, <2>1, <2>3, <3>2, <3>3 DEF ClientInv
      <3>7. /\ pc'[c] = "validate" => todo'[c] \subseteq Places(Mine(c)'.cfg)
            /\ pc'[c] = "in" => \E at \in Places(Mine(c)'.cfg) : params'[c] = HostAt(Mine(c)'.cfg, at)
        BY Zenon, <1>1, <2>1, <2>3, <3>2 DEF ClientInv
      <3>8. /\ db'[c] = "pool" /\ pc'[c] # "new" /\ (why'[c] # None => pc'[c] = "out")
            /\ why'[c] = "password" => ~due'[c]
            /\ pc'[c] = "challenged" => ~due'[c]
        BY ZenonT(60), <1>1, <2>1, <2>3 DEF ClientInv
      <3> QED
        BY ZenonT(60), <3>1, <3>4, <3>5, <3>6, <3>7, <3>8 DEF ClientInv
    <2> QED
      BY Zenon, <2>2, <2>3
  <1> QED
    BY Zenon, <1>7, <1>8, <1>9, <1>10 DEF StartupInv, TypeOK

\* To begin with: the first pool is under way.
LEMMA InitInv == ASSUME Init PROVE StartupInv
  <1> USE DEF Init
  <1>1. secret \in [Hosts -> Passwords]
    BY Zenon, PasswordsAssumption
  <1>2. building \in BuildRec /\ Informed(building)
    BY Zenon, <1>1, FirstAccepted, BegunInformed
  <1>3. ServerTypeOK
    <2>1. pools \in Seq(PoolRec) /\ current \in 0..Len(pools)
      BY SMTT(30)
    <2> QED
      BY Zenon, <1>1, <1>2, <2>1, FirstAccepted DEF ServerTypeOK, BuildRec, PoolRec
  <1>4. ClientTypeOK
    BY Zenon DEF ClientTypeOK
  <1>5. PoolsInv
    BY SMTT(30), <1>2 DEF PoolsInv
  <1>6. ASSUME NEW c \in Clients PROVE ClientInv(c)
    <2>1. pc[c] = "new" /\ db[c] = None /\ why[c] = None /\ ~due[c]
      BY Zenon
    <2> QED
      BY Zenon, <2>1, PasswordsAssumption DEF ClientInv
  <1> QED
    BY Zenon, <1>3, <1>4, <1>5, <1>6 DEF StartupInv, TypeOK

\* Every step keeps StartupInv.
LEMMA NextInv == ASSUME StartupInv, [Next]_vars PROVE StartupInv'
  <1>1. CASE \E c \in Clients : Step(c)
    BY Zenon, <1>1, FetchInv, AnswerInv, AuthenticatedInv, ValidateInv, ValidatedInv DEF Step
  <1>2. CASE \E c \in Clients : Unwanted(c) \/ Startup(c) \/ Password(c) \/ HangsUp(c) \/ Leave(c)
    BY Zenon, <1>2, UnwantedInv, StartupStep, PasswordInv, HangsUpInv, LeaveInv
  <1>3. CASE \E g \in DOMAIN pools : ValidatePending(g)
    BY Zenon, <1>3, ValidatePendingInv
  <1>4. CASE Reload \/ BuildPanics \/ BuildFetch \/ BuildDone
    BY Zenon, <1>4, ReloadInv, BuildPanicsInv, BuildFetchInv, BuildDoneInv
  <1>5. CASE \E h \in Hosts : ChangePassword(h)
    BY Zenon, <1>5, ChangePasswordInv
  <1>6. CASE UNCHANGED vars
    <2>1. UNCHANGED <<config, pools, current, building, secret>> /\ UNCHANGED client
      BY Zenon, <1>6 DEF vars, server
    <2>2. ServerTypeOK'
      BY ZenonT(60), <2>1 DEF StartupInv, TypeOK, ServerTypeOK
    <2>3. PoolsInv'
      BY ZenonT(60), <2>1 DEF StartupInv, PoolsInv, Informed
    <2> QED
      BY Zenon, <2>1, <2>2, <2>3, PoolsUnchanged, PoolsOnly
  <1> QED
    BY Zenon, <1>1, <1>2, <1>3, <1>4, <1>5, <1>6 DEF Next

-----------------------------------------------------------------------------
(* The theorems *)

\* The inductive invariant: what every pool has been told of its servers' passwords, and
\* what every startup holds between its awaits (client.rs, pool.rs, auth_passthrough.rs).
THEOREM StartupInvHolds == Spec => []StartupInv
  <1>1. Init => StartupInv
    BY Zenon, InitInv
  <1>2. StartupInv /\ [Next]_vars => StartupInv'
    BY Zenon, NextInv
  <1> QED
    BY <1>1, <1>2, PTL DEF Spec

\* A client that shows the password of the server asked, throughout its startup, is not
\* refused for it, for any number of clients, servers and reloads (Client::startup).
THEOREM RightPasswordStands == Spec => []NotWronglyRefused
  <1>1. StartupInv => NotWronglyRefused
    BY ZenonT(60) DEF StartupInv, ClientInv, NotWronglyRefused
  <1> QED
    BY <1>1, StartupInvHolds, PTL

\* Whoever is let in by password showed the one of the pool's configuration or one that a
\* server of the pool had since the pool was begun (Client::startup, from_config).
THEOREM AdmittedByKnown == Spec => []AdmittedKnown
  <1>1. StartupInv => AdmittedKnown
    BY ZenonT(60) DEF StartupInv, ClientInv, AdmittedKnown
  <1> QED
    BY <1>1, StartupInvHolds, PTL

\* Whoever is let in was greeted with the parameters of a server of its pool, whichever
\* task validated it (ConnectionPool::validate).
THEOREM GreetedByServer == Spec => []ParamsKnown
  <1>1. StartupInv => ParamsKnown
    BY Zenon DEF StartupInv, ClientInv, ParamsKnown
  <1> QED
    BY <1>1, StartupInvHolds, PTL

\* A configuration that validate accepted never makes a client of its own pool hear that
\* authentication is impossible (Config::validate, Client::startup).
THEOREM AcceptedHasAWayIn == Spec => AuthPossible
  <1> DEFINE Told == \A c \in Clients :
                       why'[c] = "impossible" /\ why[c] # "impossible" => config.pool # PoolOf(c)
  <1>1. StartupInv /\ [Next]_vars => [Told]_vars
    <2> SUFFICES ASSUME StartupInv, Next, NEW c \in Clients,
                        why'[c] = "impossible", why[c] # "impossible"
                 PROVE  config.pool # PoolOf(c)
      BY Zenon
    <2>1. ClientTypeOK /\ Valid(config)
      BY Zenon, Types, AcceptedHosts
    <2>2. Password(c)
      <3>1. ASSUME NEW d \in Clients, Password(d) PROVE d = c
        BY Zenon, <2>1, <3>1 DEF Password, Compare, Goes, Refuse, ClientTypeOK
      <3>2. ASSUME NEW d \in Clients,
                   Unwanted(d) \/ Startup(d) \/ HangsUp(d) \/ Leave(d) \/ Step(d)
            PROVE  FALSE
        <4>1. why' = why \/ \E r \in {None, "gone", "admin", "no pool", "password", "pool down"} :
                              why' = [why EXCEPT ![d] = r]
          <5>1. CASE Unwanted(d) \/ HangsUp(d)
            BY Zenon, <5>1 DEF Unwanted, HangsUp, Refuse
          <5>2. CASE Startup(d)
            BY Zenon, <5>2 DEF Startup, Greet, Refuse, Goes
          <5>3. CASE Leave(d)
            BY Zenon, <5>3 DEF Leave
          <5>4. CASE Fetch(d) \/ Validate(d)
            BY Zenon, <5>4 DEF Fetch, Validate
          <5>5. CASE Fetched(d) \/ Refetched(d)
            BY Zenon, <5>5 DEF Fetched, Refetched, Refuse, Goes, Compare
          <5>6. CASE Authenticated(d) \/ Validated(d)
            BY Zenon, <5>6 DEF Authenticated, Validated, Refuse, Goes, Greet
          <5> QED
            BY Zenon, <3>2, <5>1, <5>2, <5>3, <5>4, <5>5, <5>6 DEF Step
        <4> QED
          BY Zenon, <2>1, <4>1, PasswordsAssumption DEF ClientTypeOK
      <3>3. ASSUME UNCHANGED client PROVE FALSE
        BY Zenon, <3>3 DEF client
      <3>4. ASSUME NEW h \in Hosts, ChangePassword(h) PROVE FALSE
        BY Zenon, <3>4 DEF ChangePassword
      <3>5. ASSUME (\E g \in DOMAIN pools : ValidatePending(g)) \/ Reload \/ BuildPanics
                   \/ BuildFetch \/ BuildDone
            PROVE  UNCHANGED client
        BY Zenon, <3>5 DEF ValidatePending, Reload, BuildPanics, BuildFetch, BuildDone
      <3> QED
        BY Zenon, <3>1, <3>2, <3>3, <3>4, <3>5 DEF Next
    <2>3. PoolOf(c).password = None /\ ~is_auth_query_configured(config.pool)
      BY Zenon, <2>1, <2>2 DEF Password, Compare, Goes, ClientTypeOK
    <2> QED
      BY Zenon, <2>1, <2>3 DEF Valid, HasAuthQuery, is_auth_query_configured
  <1> QED
    BY <1>1, StartupInvHolds, PTL DEF Spec, AuthPossible
=============================================================================
