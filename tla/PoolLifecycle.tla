---------------------------- MODULE PoolLifecycle ----------------------------
(***************************************************************************)
(* One database/user pair over time: reload_config and from_config replace *)
(* its ConnectionPool in POOLS, the administrator pauses and resumes it,   *)
(* and clients, which keep the ConnectionPool they last looked up, wait    *)
(* while it is paused (config.rs, pool.rs, admin.rs, client.rs).           *)
(***************************************************************************)
EXTENDS Naturals

CONSTANTS
  Clients,     \* client tasks
  Reloaders,   \* tasks that may reload: SIGHUP, RELOAD, the autoreloader
  Pools,       \* ConnectionPool objects, reused when nothing refers to them
  NoPool,      \* no pool is configured, or none is held
  Configs      \* the configurations the file may hold

\* A configuration is the pool's own section, if there is one, and the general
\* settings, some of which are copied into the settings of the pool.
ASSUME LifecycleAssumption ==
  /\ NoPool \notin Pools
  /\ Configs \subseteq [pool: STRING, general: STRING]

VARIABLES
  file,    \* what the configuration file says
  CONFIG,  \* the configuration in use
  POOLS,   \* the pool clients find
  built,   \* the configuration a pool was built from
  paused,  \* pool.paused
  rpc,     \* where a reloader is inside reload_config
  old,     \* its old_config
  read,    \* what it read from the file, then the config it builds from
  made,    \* the pool it is about to store
  admin,   \* the PAUSE or RESUME under way and the pool it works on
  pc,      \* where a client is inside Client::handle
  pool,    \* the pool it holds
  woken,   \* its Notified future was notified
  held,    \* history: the pool it holds has been paused since its message
  shut,    \* history: the pool in POOLS has been paused since its message
  marks    \* history: reloads that overlapped, failed to build the pool, or
           \* reported success after that

reloadVars == <<file, CONFIG, rpc, old, read, made, marks>>
vars == <<reloadVars, POOLS, built, paused, admin, pc, pool, woken, held, shut>>

Configured(f) == f.pool # "none"
\* A Notified future exists.
Waiting == {"waiter", "parking", "parked"}
NoAdmin == [cmd |-> "none", pool |-> NoPool]

Init ==
  /\ file \in {f \in Configs : Configured(f)}
  /\ CONFIG = file
  /\ \E p \in Pools : POOLS = p
  /\ built = [p \in Pools |-> file]
  /\ paused = [p \in Pools |-> FALSE]
  /\ rpc = [r \in Reloaders |-> "idle"]
  /\ old = [r \in Reloaders |-> file]
  /\ read = [r \in Reloaders |-> file]
  /\ made = [r \in Reloaders |-> NoPool]
  /\ admin = NoAdmin
  /\ pc = [c \in Clients |-> "gone"]
  /\ pool = [c \in Clients |-> NoPool]
  /\ woken = [c \in Clients |-> FALSE]
  /\ held = [c \in Clients |-> FALSE]
  /\ shut = [c \in Clients |-> FALSE]
  /\ marks = {}

\* The history of a client that is between its message and its query, after
\* pools and pauses may have changed.
Watch ==
  /\ held' = [c \in Clients |-> held[c] /\ paused'[pool[c]]]
  /\ shut' = [c \in Clients |-> shut[c] /\ POOLS' \in Pools /\ paused'[POOLS']]

-----------------------------------------------------------------------------
(* reload_config.                                                          *)

EditFile(f) ==
  /\ f # file
  /\ file' = f
  /\ UNCHANGED <<CONFIG, POOLS, built, paused, rpc, old, read, made, admin,
                 pc, pool, woken, held, shut, marks>>

\* old_config, then parse starts to read the file.
ReloadStart(r) ==
  /\ rpc[r] = "idle"
  /\ rpc' = [rpc EXCEPT ![r] = "read"]
  /\ old' = [old EXCEPT ![r] = CONFIG]
  /\ marks' = marks \cup (IF \E q \in Reloaders : rpc[q] # "idle" THEN {"overlap"} ELSE {})
  /\ UNCHANGED <<file, CONFIG, POOLS, built, paused, read, made, admin,
                 pc, pool, woken, held, shut>>

\* A reload reports success, possibly after an earlier one has failed.
Succeeded == marks' = IF "failed" \in marks THEN marks \cup {"retried"} ELSE marks

\* A reload ends: what it remembers no longer matters.
ReloadEnd(r) ==
  /\ rpc' = [rpc EXCEPT ![r] = "idle"]
  /\ old' = [old EXCEPT ![r] = CONFIG']
  /\ read' = [read EXCEPT ![r] = CONFIG']
  /\ made' = [made EXCEPT ![r] = NoPool]

\* The file cannot be read, does not parse or is not valid: BadConfig.
BadConfig(r) ==
  /\ rpc[r] = "read"
  /\ UNCHANGED CONFIG
  /\ ReloadEnd(r)
  /\ UNCHANGED <<file, POOLS, built, paused, admin, pc, pool, woken, held, shut, marks>>

ReadFile(r) ==
  /\ rpc[r] = "read"
  /\ rpc' = [rpc EXCEPT ![r] = "store"]
  /\ read' = [read EXCEPT ![r] = file]
  /\ UNCHANGED <<file, CONFIG, POOLS, built, paused, old, made, admin,
                 pc, pool, woken, held, shut, marks>>

\* parse makes it the configuration in use.
StoreConfig(r) ==
  /\ rpc[r] = "store"
  /\ CONFIG' = read[r]
  /\ rpc' = [rpc EXCEPT ![r] = "compare"]
  /\ UNCHANGED <<file, POOLS, built, paused, old, read, made, admin,
                 pc, pool, woken, held, shut, marks>>

\* Mutation of Compare: new_config is compared with what was just read.
Mut_Compare(r) ==
  /\ rpc[r] = "compare"
  /\ UNCHANGED CONFIG
  /\ IF read[r] # CONFIG
     THEN /\ rpc' = [rpc EXCEPT ![r] = "build"]
          /\ UNCHANGED <<old, read, made, marks>>
     ELSE ReloadEnd(r) /\ Succeeded
  /\ UNCHANGED <<file, POOLS, built, paused, admin, pc, pool, woken, held, shut>>

\* new_config, and nothing more to do if it is the old one.
Compare(r) ==
  /\ rpc[r] = "compare"
  /\ UNCHANGED CONFIG
  /\ IF old[r] # CONFIG
     THEN /\ rpc' = [rpc EXCEPT ![r] = "build"]
          /\ UNCHANGED <<old, read, made, marks>>
     ELSE ReloadEnd(r) /\ Succeeded
  /\ UNCHANGED <<file, POOLS, built, paused, admin, pc, pool, woken, held, shut>>

\* Nothing refers to pool p.
Unused(p) ==
  /\ p \notin {POOLS, admin.pool}
  /\ \A c \in Clients : pool[c] # p
  /\ \A r \in Reloaders : made[r] # p

\* from_config: the pool is kept when its section of the configuration has
\* not changed, and otherwise a new one is made, which is not paused.
Build(r) ==
  /\ rpc[r] = "build"
  /\ read' = [read EXCEPT ![r] = CONFIG]
  /\ IF ~Configured(CONFIG)
     THEN made' = [made EXCEPT ![r] = NoPool] /\ UNCHANGED <<built, paused>>
     ELSE IF POOLS # NoPool /\ built[POOLS].pool = CONFIG.pool
     THEN made' = [made EXCEPT ![r] = POOLS] /\ UNCHANGED <<built, paused>>
     ELSE \E p \in Pools :
            /\ Unused(p)
            /\ made' = [made EXCEPT ![r] = p]
            /\ built' = [built EXCEPT ![p] = CONFIG]
            /\ paused' = [paused EXCEPT ![p] = FALSE]
  /\ rpc' = [rpc EXCEPT ![r] = "swap"]
  /\ UNCHANGED <<file, CONFIG, POOLS, old, admin, pc, pool, woken, held, shut, marks>>

\* With validate_config a pool that cannot connect is an error of from_config.
BuildFails(r) ==
  /\ rpc[r] = "build"
  /\ Configured(CONFIG)
  /\ UNCHANGED CONFIG
  /\ ReloadEnd(r)
  /\ marks' = (marks \cup {"failed"}) \ {"retried"}
  /\ UNCHANGED <<file, POOLS, built, paused, admin, pc, pool, woken, held, shut>>

\* POOLS.store
SwapPools(r) ==
  /\ rpc[r] = "swap"
  /\ POOLS' = made[r]
  /\ UNCHANGED <<CONFIG, paused>>
  /\ ReloadEnd(r)
  /\ Succeeded
  /\ Watch
  /\ UNCHANGED <<file, built, admin, pc, pool, woken>>

-----------------------------------------------------------------------------
(* PAUSE and RESUME.                                                       *)

\* get_pool or get_all_pools.
AdminLookup(cmd) ==
  /\ admin.cmd = "none"
  /\ POOLS # NoPool
  /\ admin' = [cmd |-> cmd, pool |-> POOLS]
  /\ UNCHANGED <<reloadVars, POOLS, built, paused, pc, pool, woken, held, shut>>

pause ==
  /\ admin.cmd = "pause"
  /\ paused' = [paused EXCEPT ![admin.pool] = TRUE]
  /\ admin' = NoAdmin
  /\ UNCHANGED <<reloadVars, POOLS, built, pc, pool, woken, held, shut>>

\* resume, in two steps: the flag, then notify_waiters.
resume ==
  /\ admin.cmd = "resume"
  /\ paused' = [paused EXCEPT ![admin.pool] = FALSE]
  /\ admin' = [cmd |-> "notify", pool |-> admin.pool]
  /\ UNCHANGED POOLS
  /\ Watch
  /\ UNCHANGED <<reloadVars, built, pc, pool, woken>>

\* Mutation of notify_waiters: only futures that are being awaited are woken.
Mut_notify_waiters ==
  /\ admin.cmd = "notify"
  /\ woken' = [c \in Clients |->
       woken[c] \/ (pc[c] = "parked" /\ pool[c] = admin.pool)]
  /\ admin' = NoAdmin
  /\ UNCHANGED <<reloadVars, POOLS, built, paused, pc, pool, held, shut>>

\* Mutation of notify_waiters: the flag is enough.
Mut_notify_nobody ==
  /\ admin.cmd = "notify"
  /\ admin' = NoAdmin
  /\ UNCHANGED <<reloadVars, POOLS, built, paused, pc, pool, held, shut, woken>>

\* Every Notified future that exists is woken, polled or not.
notify_waiters ==
  /\ admin.cmd = "notify"
  /\ woken' = [c \in Clients |->
       woken[c] \/ (pc[c] \in Waiting /\ pool[c] = admin.pool)]
  /\ admin' = NoAdmin
  /\ UNCHANGED <<reloadVars, POOLS, built, paused, pc, pool, held, shut>>

-----------------------------------------------------------------------------
(* Clients.                                                                *)

\* A client connects and looks the pool up.
Connect(c) ==
  /\ pc[c] = "gone"
  /\ POOLS # NoPool
  /\ pc' = [pc EXCEPT ![c] = "idle"]
  /\ pool' = [pool EXCEPT ![c] = POOLS]
  /\ UNCHANGED <<reloadVars, POOLS, built, paused, admin, woken, held, shut>>

\* A message that needs a server: wait_paused creates its Notified future.
Message(c) ==
  /\ pc[c] = "idle"
  /\ pc' = [pc EXCEPT ![c] = "waiter"]
  /\ held' = [held EXCEPT ![c] = paused[pool[c]]]
  /\ shut' = [shut EXCEPT ![c] = POOLS # NoPool /\ paused[POOLS]]
  /\ UNCHANGED <<reloadVars, POOLS, built, paused, admin, pool, woken>>

\* Mutation of LoadPaused: the flag is ignored.
Mut_LoadPaused(c) ==
  /\ pc[c] = "waiter"
  /\ pc' = [pc EXCEPT ![c] = "refresh"]
  /\ woken' = [woken EXCEPT ![c] = FALSE]
  /\ UNCHANGED <<reloadVars, POOLS, built, paused, admin, pool, held, shut>>

\* It loads the flag.
LoadPaused(c) ==
  /\ pc[c] = "waiter"
  /\ pc' = [pc EXCEPT ![c] = IF paused[pool[c]] THEN "parking" ELSE "refresh"]
  /\ woken' = [woken EXCEPT ![c] = paused[pool[c]] /\ @]
  /\ UNCHANGED <<reloadVars, POOLS, built, paused, admin, pool, held, shut>>

\* The pool was paused: the future is awaited.
Park(c) ==
  /\ pc[c] = "parking"
  /\ pc' = [pc EXCEPT ![c] = "parked"]
  /\ UNCHANGED <<reloadVars, POOLS, built, paused, admin, pool, woken, held, shut>>

Wake(c) ==
  /\ pc[c] = "parked"
  /\ woken[c]
  /\ pc' = [pc EXCEPT ![c] = "refresh"]
  /\ woken' = [woken EXCEPT ![c] = FALSE]
  /\ UNCHANGED <<reloadVars, POOLS, built, paused, admin, pool, held, shut>>

\* The pool is looked up again and the query runs on it, or the client is told
\* that there is no pool and is disconnected.
Refresh(c) ==
  /\ pc[c] = "refresh"
  /\ pool' = [pool EXCEPT ![c] = POOLS]
  /\ pc' = [pc EXCEPT ![c] = IF POOLS = NoPool THEN "gone" ELSE "running"]
  /\ IF POOLS = NoPool
     THEN held' = [held EXCEPT ![c] = FALSE] /\ shut' = [shut EXCEPT ![c] = FALSE]
     ELSE UNCHANGED <<held, shut>>
  /\ UNCHANGED <<reloadVars, POOLS, built, paused, admin, woken>>

\* The query, or the transaction it begins, is over.
Done(c) ==
  /\ pc[c] = "running"
  /\ pc' = [pc EXCEPT ![c] = "idle"]
  /\ held' = [held EXCEPT ![c] = FALSE]
  /\ shut' = [shut EXCEPT ![c] = FALSE]
  /\ UNCHANGED <<reloadVars, POOLS, built, paused, admin, pool, woken>>

-----------------------------------------------------------------------------
ClientStep(c) == LoadPaused(c) \/ Park(c) \/ Wake(c) \/ Refresh(c)
AdminStep == pause \/ resume \/ notify_waiters

Next ==
  \/ \E f \in Configs : EditFile(f)
  \/ \E r \in Reloaders :
       \/ ReloadStart(r) \/ BadConfig(r) \/ ReadFile(r) \/ StoreConfig(r)
       \/ Compare(r) \/ Build(r) \/ BuildFails(r) \/ SwapPools(r)
  \/ \E cmd \in {"pause", "resume"} : AdminLookup(cmd)
  \/ AdminStep
  \/ \E c \in Clients : Connect(c) \/ Message(c) \/ ClientStep(c) \/ Done(c)

Spec == Init /\ [][Next]_vars

\* Tasks that can run do run.
FairSpec ==
  Spec /\ WF_vars(AdminStep) /\ \A c \in Clients : WF_vars(ClientStep(c))

-----------------------------------------------------------------------------
(* Properties.                                                             *)

TypeOK ==
  /\ file \in Configs /\ CONFIG \in Configs
  /\ POOLS \in Pools \cup {NoPool}
  /\ built \in [Pools -> Configs]
  /\ paused \in [Pools -> BOOLEAN]
  /\ rpc \in [Reloaders -> {"idle", "read", "store", "compare", "build", "swap"}]
  /\ old \in [Reloaders -> Configs] /\ read \in [Reloaders -> Configs]
  /\ made \in [Reloaders -> Pools \cup {NoPool}]
  /\ admin \in [cmd: {"none", "pause", "resume", "notify"}, pool: Pools \cup {NoPool}]
  /\ pc \in [Clients -> Waiting \cup {"gone", "idle", "refresh", "running"}]
  /\ pool \in [Clients -> Pools \cup {NoPool}]
  /\ woken \in [Clients -> BOOLEAN]
  /\ held \in [Clients -> BOOLEAN] /\ shut \in [Clients -> BOOLEAN]
  /\ marks \subseteq {"overlap", "failed", "retried"}

\* A client that holds a paused pool sends no query as long as the pool stays
\* paused (pool.rs:680): the flag and the notification of wait_paused
\* (pool.rs:697) let nobody slip through.
PauseHolds == \A c \in Clients : pc[c] = "running" => ~held[c]

\* A client sends no query as long as the pool, as the administrator sees it,
\* stays paused (pool.rs:680).
PauseHoldsForAll == \A c \in Clients : pc[c] = "running" => ~shut[c]

\* No wakeup is lost: a client waits only while its pool is paused or the
\* notification is still to come (wait_paused and resume, pool.rs:686, 697).
NoLostWakeup ==
  \A c \in Clients :
    pc[c] \in {"parking", "parked"} /\ ~woken[c] =>
      paused[pool[c]] \/ (admin.cmd = "notify" /\ admin.pool = pool[c])

\* RESUME lets every client that waits on the pool it works on go on (pool.rs:685),
\* whatever is reloaded meanwhile.
ResumeReleases ==
  \A c \in Clients :
    pc[c] = "parked" /\ admin.cmd = "notify" /\ admin.pool = pool[c] ~> pc[c] # "parked"

\* ... also if it waits on the pool that a reload has replaced.
ResumeReleasesAll ==
  \A c \in Clients : pc[c] = "parked" /\ admin.cmd = "notify" ~> pc[c] # "parked"

\* Between reloads the pool clients find was made from the pool's section of
\* the configuration in use.
PoolsCurrentDespite(M) ==
  marks \subseteq M /\ (\A r \in Reloaders : rpc[r] = "idle") =>
    IF Configured(CONFIG) THEN POOLS # NoPool /\ built[POOLS].pool = CONFIG.pool
    ELSE POOLS = NoPool

\* ... if no reload failed and no two overlapped (reload_config, config.rs:1587).
PoolsCurrent == PoolsCurrentDespite({})

\* ... even after two reloads overlapped (pool.rs:46).
PoolsCurrentDespiteOverlap == PoolsCurrentDespite({"overlap"})

\* ... even after a reload failed, once another succeeded (README.md:275).
PoolsCurrentDespiteFailure ==
  "retried" \in marks => PoolsCurrentDespite({"failed", "retried"})

\* Who refers to a pool object.
RefsRight ==
  /\ \A c \in Clients : pc[c] # "gone" => pool[c] \in Pools
  /\ admin.cmd # "none" => admin.pool \in Pools
  /\ admin.cmd = "notify" => ~paused[admin.pool]

\* A client that is held has not been notified.
HeldRight ==
  \A c \in Clients :
    /\ woken[c] => pc[c] \in Waiting
    /\ held[c] => pc[c] \in Waiting /\ ~woken[c] /\ paused[pool[c]]

\* Pool p was made from the pool's section of configuration f.
MadeFrom(p, f) ==
  IF Configured(f) THEN p \in Pools /\ built[p].pool = f.pool ELSE p = NoPool

\* What a reload that runs alone knows.
ReloadRight ==
  "overlap" \notin marks =>
    /\ \A q, r \in Reloaders : rpc[q] # "idle" /\ rpc[r] # "idle" => q = r
    /\ \A r \in Reloaders :
         /\ rpc[r] \in {"read", "store"} => old[r] = CONFIG
         /\ rpc[r] = "swap" => MadeFrom(made[r], CONFIG)
         /\ rpc[r] = "compare" /\ marks = {} => MadeFrom(POOLS, old[r])
    /\ marks = {} /\ (\A r \in Reloaders : rpc[r] \in {"idle", "read", "store"}) =>
         MadeFrom(POOLS, CONFIG)

\* The inductive invariant behind PauseHolds, NoLostWakeup and PoolsCurrent:
\* a pool object in use is never recycled, a resumed pool stays resumed until
\* its waiters are notified (pool.rs:686), and a reload that runs alone works
\* on the configuration in use (config.rs:1587).
LifeInv ==
  /\ TypeOK
  /\ RefsRight
  /\ HeldRight
  /\ NoLostWakeup
  /\ ReloadRight

\* Between reloads the pool has the settings of the configuration in use, the
\* general ones included (README.md:275).
SettingsCurrent ==
  marks = {} /\ (\A r \in Reloaders : rpc[r] = "idle") /\ POOLS # NoPool =>
    built[POOLS] = CONFIG
=============================================================================
