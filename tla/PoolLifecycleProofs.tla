------------------------- MODULE PoolLifecycleProofs -------------------------
(* Proofs about PoolLifecycle, for any clients, reloaders and configurations. *)
EXTENDS PoolLifecycle, TLAPS

\* The part of the invariant about clients and the administrator.
ClientInv == RefsRight /\ HeldRight /\ NoLostWakeup

\* The part about clients does not depend on POOLS and the reloaders' state.
LEMMA ClientFrame ==
  ASSUME LifeInv, UNCHANGED <<paused, admin, pc, pool, woken>>,
         \A c \in Clients : held'[c] => held[c]
  PROVE  ClientInv'
BY Zenon DEF LifeInv, ClientInv, RefsRight, HeldRight, NoLostWakeup

\* The part about reloads does not depend on the clients and the administrator.
LEMMA ReloadFrame ==
  ASSUME LifeInv, UNCHANGED <<CONFIG, rpc, old, made, marks, POOLS, built>>
  PROVE  ReloadRight'
BY Zenon DEF LifeInv, ReloadRight, MadeFrom, Configured

\* Editing the file touches nothing in use.
LEMMA EditFileStep ==
  ASSUME LifeInv, NEW f \in Configs, EditFile(f)
  PROVE  LifeInv'
<1>1. TypeOK'
  BY Zenon DEF LifeInv, TypeOK, EditFile
<1>2. QED
  BY Zenon, <1>1, ClientFrame, ReloadFrame DEF EditFile, LifeInv, ClientInv

\* A reload that starts alone remembers the configuration in use (config.rs:1588).
LEMMA ReloadStartStep ==
  ASSUME LifeInv, NEW r \in Reloaders, ReloadStart(r)
  PROVE  LifeInv'
<1> USE DEF ReloadStart
<1>1. TypeOK'
  BY Zenon DEF LifeInv, TypeOK
<1>2. ClientInv'
  BY Zenon, ClientFrame
<1>3. ReloadRight'
  <2> SUFFICES ASSUME "overlap" \notin marks' PROVE ReloadRight'
    BY Zenon DEF ReloadRight
  <2>1. "overlap" \notin marks /\ marks' = marks /\ \A q \in Reloaders : rpc[q] = "idle"
    BY Zenon
  <2>2. /\ rpc'[r] = "read" /\ old'[r] = CONFIG
        /\ \A q \in Reloaders \ {r} : rpc'[q] = "idle"
    BY <2>1 DEF LifeInv, TypeOK
  <2>3. marks = {} => MadeFrom(POOLS, CONFIG)
    BY Zenon, <2>1 DEF LifeInv, ReloadRight
  <2>4. \A p, f : MadeFrom(p, f)' = MadeFrom(p, f)
    BY Zenon DEF MadeFrom, Configured
  <2>5. QED
    BY ZenonT(60), <2>1, <2>2, <2>3, <2>4 DEF ReloadRight, MadeFrom, Configured
<1>4. QED
  BY Zenon, <1>1, <1>2, <1>3 DEF LifeInv, ClientInv

\* A reload that ends leaves no reload behind if it was alone.
LEMMA ReloadEndStep ==
  ASSUME LifeInv, NEW r \in Reloaders, rpc[r] # "idle", ReloadEnd(r),
         "overlap" \notin marks' => "overlap" \notin marks,
         marks' = {} => MadeFrom(POOLS, CONFIG)'
  PROVE  ReloadRight'
<1> SUFFICES ASSUME "overlap" \notin marks' PROVE ReloadRight'
  BY Zenon DEF ReloadRight
<1>1. \A q \in Reloaders \ {r} : rpc[q] = "idle"
  BY Zenon DEF LifeInv, ReloadRight
<1>2. \A q \in Reloaders : rpc'[q] = "idle"
  BY ZenonT(60), <1>1 DEF ReloadEnd, LifeInv, TypeOK
<1>3. QED
  BY Zenon, <1>2 DEF ReloadRight, MadeFrom

\* The types of what a reload remembers when it ends.
LEMMA ReloadEndType ==
  ASSUME TypeOK, NEW r \in Reloaders, ReloadEnd(r), CONFIG' \in Configs
  PROVE  /\ rpc' \in [Reloaders -> {"idle", "read", "store", "compare", "build", "swap"}]
         /\ old' \in [Reloaders -> Configs] /\ read' \in [Reloaders -> Configs]
         /\ made' \in [Reloaders -> Pools \cup {NoPool}]
BY Zenon DEF TypeOK, ReloadEnd

\* A file that cannot be used changes nothing (config.rs:1590).
LEMMA BadConfigStep ==
  ASSUME LifeInv, NEW r \in Reloaders, BadConfig(r)
  PROVE  LifeInv'
<1> USE DEF BadConfig
<1>1. TypeOK'
  BY Zenon, ReloadEndType DEF LifeInv, TypeOK
<1>2. ClientInv'
  BY Zenon, ClientFrame
<1>3. marks = {} => MadeFrom(POOLS, CONFIG)
  <2> SUFFICES ASSUME marks = {} PROVE MadeFrom(POOLS, CONFIG)
    BY Zenon
  <2>1. \A q \in Reloaders : rpc[q] \in {"idle", "read"}
    BY Zenon DEF LifeInv, ReloadRight
  <2>2. QED
    BY Zenon, <2>1 DEF LifeInv, ReloadRight
<1>4. ReloadRight'
  BY Zenon, <1>3, ReloadEndStep DEF MadeFrom, Configured
<1>5. QED
  BY Zenon, <1>1, <1>2, <1>4 DEF LifeInv, ClientInv

\* Reading the file (config.rs:1562) changes nothing in use.
LEMMA ReadFileStep ==
  ASSUME LifeInv, NEW r \in Reloaders, ReadFile(r)
  PROVE  LifeInv'
<1> USE DEF ReadFile
<1>1. TypeOK'
  BY Zenon DEF LifeInv, TypeOK
<1>2. ClientInv'
  BY Zenon, ClientFrame
<1>3. ReloadRight'
  <2>1. rpc'[r] = "store" /\ \A q \in Reloaders \ {r} : rpc'[q] = rpc[q]
    BY ZenonT(60) DEF LifeInv, TypeOK
  <2>2. \A p, f : MadeFrom(p, f)' = MadeFrom(p, f)
    BY Zenon DEF MadeFrom, Configured
  <2>3. QED
    BY <2>1, <2>2 DEF LifeInv, ReloadRight, MadeFrom, Configured
<1>4. QED
  BY Zenon, <1>1, <1>2, <1>3 DEF LifeInv, ClientInv

\* When the new configuration is stored (config.rs:1582), the pool is still
\* the one of the old.
LEMMA StoreConfigStep ==
  ASSUME LifeInv, NEW r \in Reloaders, StoreConfig(r)
  PROVE  LifeInv'
<1> USE DEF StoreConfig
<1>1. TypeOK'
  BY Zenon DEF LifeInv, TypeOK
<1>2. ClientInv'
  BY Zenon, ClientFrame
<1>3. ReloadRight'
  <2> SUFFICES ASSUME "overlap" \notin marks PROVE ReloadRight'
    BY Zenon DEF ReloadRight
  <2>1. \A q \in Reloaders \ {r} : rpc[q] = "idle"
    BY Zenon DEF LifeInv, ReloadRight
  <2>2. old[r] = CONFIG /\ (marks = {} => MadeFrom(POOLS, CONFIG))
    BY Zenon, <2>1 DEF LifeInv, ReloadRight
  <2>3. rpc'[r] = "compare" /\ \A q \in Reloaders \ {r} : rpc'[q] = "idle"
    BY ZenonT(60), <2>1 DEF LifeInv, TypeOK
  <2>4. QED
    BY Zenon, <2>2, <2>3 DEF ReloadRight, MadeFrom, Configured
<1>4. QED
  BY Zenon, <1>1, <1>2, <1>3 DEF LifeInv, ClientInv

\* A reload that finds the old configuration in use has nothing to do, since
\* the pool is the one of the old (config.rs:1605).
LEMMA CompareStep ==
  ASSUME LifeInv, NEW r \in Reloaders, Compare(r)
  PROVE  LifeInv'
<1> USE DEF Compare
<1>1. ClientInv'
  BY Zenon, ClientFrame
<1>2. CASE old[r] # CONFIG
  <2>1. TypeOK'
    BY ZenonT(60), <1>2 DEF LifeInv, TypeOK
  <2>2. rpc'[r] = "build" /\ \A q \in Reloaders \ {r} : rpc'[q] = rpc[q]
    BY <1>2 DEF LifeInv, TypeOK
  <2>3. ReloadRight'
    BY <1>2, <2>2 DEF LifeInv, ReloadRight, MadeFrom, Configured
  <2>4. QED
    BY Zenon, <1>1, <2>1, <2>3 DEF LifeInv, ClientInv
<1>3. CASE old[r] = CONFIG
  <2>1. ReloadEnd(r) /\ Succeeded
    BY Zenon, <1>3
  <2>2. TypeOK'
    BY Zenon, <2>1, ReloadEndType DEF LifeInv, TypeOK, Succeeded
  <2>3. marks' = {} => MadeFrom(POOLS, CONFIG)
    BY Zenon, <1>3, <2>1 DEF LifeInv, ReloadRight, Succeeded
  <2>4. ReloadRight'
    BY <2>1, <2>3, ReloadEndStep DEF MadeFrom, Configured, Succeeded
  <2>5. QED
    BY Zenon, <1>1, <2>2, <2>4 DEF LifeInv, ClientInv
<1>4. QED
  BY Zenon, <1>2, <1>3

\* A pool that could not be built (pool.rs:516) is remembered as a failure.
LEMMA BuildFailsStep ==
  ASSUME LifeInv, NEW r \in Reloaders, BuildFails(r)
  PROVE  LifeInv'
<1> USE DEF BuildFails
<1>1. ClientInv'
  BY Zenon, ClientFrame
<1>2. TypeOK'
  BY Zenon, ReloadEndType DEF LifeInv, TypeOK
<1>3. ReloadRight'
  BY ReloadEndStep
<1>4. QED
  BY Zenon, <1>1, <1>2, <1>3 DEF LifeInv, ClientInv

\* The pool from_config makes is an object nobody refers to (pool.rs:583), so
\* that no client and no administrator sees it change.
LEMMA BuildStep ==
  ASSUME LifeInv, NEW r \in Reloaders, Build(r)
  PROVE  LifeInv'
<1> USE DEF Build
<1>1. TypeOK'
  <2> CONFIG \in Configs /\ built \in [Pools -> Configs] /\ paused \in [Pools -> BOOLEAN]
    BY Zenon DEF LifeInv, TypeOK
  <2>1. built' \in [Pools -> Configs] /\ paused' \in [Pools -> BOOLEAN]
    <3>1. \/ UNCHANGED <<built, paused>>
          \/ \E p \in Pools : /\ built' = [built EXCEPT ![p] = CONFIG]
                             /\ paused' = [paused EXCEPT ![p] = FALSE]
      BY Zenon
    <3> HIDE DEF Build
    <3>2. QED
      BY Zenon, <3>1
  <2>2. made' \in [Reloaders -> Pools \cup {NoPool}]
    BY SMTT(30) DEF LifeInv, TypeOK
  <2>3. QED
    BY Zenon, <2>1, <2>2 DEF LifeInv, TypeOK
<1>2. \A p \in Pools : (admin.pool = p \/ \E c \in Clients : pool[c] = p) => paused'[p] = paused[p]
  BY ZenonT(60) DEF LifeInv, TypeOK, Unused
<1>3. ClientInv'
  <2>1. RefsRight'
    BY Zenon, <1>2 DEF LifeInv, RefsRight
  <2>2. HeldRight'
    BY Zenon, <1>2 DEF LifeInv, RefsRight, HeldRight, Waiting
  <2>3. NoLostWakeup'
    BY Zenon, <1>2 DEF LifeInv, RefsRight, NoLostWakeup
  <2>4. QED
    BY Zenon, <2>1, <2>2, <2>3 DEF ClientInv
<1>4. ReloadRight'
  <2> SUFFICES ASSUME "overlap" \notin marks PROVE ReloadRight'
    BY Zenon DEF ReloadRight
  <2>1. \A q \in Reloaders \ {r} : rpc[q] = "idle"
    BY Zenon DEF LifeInv, ReloadRight
  <2>2. rpc'[r] = "swap" /\ \A q \in Reloaders \ {r} : rpc'[q] = "idle"
    BY SMTT(30), <2>1 DEF LifeInv, TypeOK
  <2>3. MadeFrom(made[r], CONFIG)'
    BY SMTT(30) DEF LifeInv, TypeOK, MadeFrom, Configured
  <2>4. QED
    BY Zenon, <2>2, <2>3 DEF ReloadRight
<1>5. QED
  BY Zenon, <1>1, <1>3, <1>4 DEF LifeInv, ClientInv

\* The pool that is stored (pool.rs:618) is one of the configuration in use.
LEMMA SwapPoolsStep ==
  ASSUME LifeInv, NEW r \in Reloaders, SwapPools(r)
  PROVE  LifeInv'
<1> USE DEF SwapPools
<1>1. TypeOK'
  <2>1. held' \in [Clients -> BOOLEAN] /\ shut' \in [Clients -> BOOLEAN]
    BY Zenon DEF Watch, LifeInv, TypeOK
  <2>2. QED
    BY Zenon, <2>1, ReloadEndType DEF LifeInv, TypeOK, Succeeded
<1>2. \A c \in Clients : held'[c] => held[c]
  BY Zenon DEF Watch
<1>3. ClientInv'
  BY Zenon, <1>2, ClientFrame
<1>4. ReloadRight'
  <2>1. "overlap" \notin marks => MadeFrom(POOLS, CONFIG)'
    BY Zenon DEF LifeInv, ReloadRight, MadeFrom, Configured
  <2>2. QED
    BY Zenon, <2>1, ReloadEndStep DEF Succeeded
<1>5. QED
  BY Zenon, <1>1, <1>3, <1>4 DEF LifeInv, ClientInv

\* An administrator's command starts with the pool it finds (admin.rs:852, 915).
LEMMA AdminLookupStep ==
  ASSUME LifeInv, NEW cmd \in {"pause", "resume"}, AdminLookup(cmd)
  PROVE  LifeInv'
<1> USE DEF AdminLookup, reloadVars
<1>1. TypeOK'
  BY Zenon DEF LifeInv, TypeOK
<1>2. ReloadRight'
  BY Zenon, ReloadFrame
<1>3. ClientInv'
  BY Zenon DEF LifeInv, TypeOK, ClientInv, RefsRight, HeldRight, NoLostWakeup
<1>4. QED
  BY Zenon, <1>1, <1>2, <1>3 DEF LifeInv, ClientInv

\* Pausing wakes nobody (pool.rs:681).
LEMMA PauseStep ==
  ASSUME LifeInv, pause
  PROVE  LifeInv'
<1> USE DEF pause, reloadVars
<1>1. TypeOK'
  BY Zenon DEF LifeInv, TypeOK, NoAdmin
<1>2. ReloadRight'
  BY Zenon, ReloadFrame
<1>3. \A p \in Pools : paused[p] => paused'[p]
  BY ZenonT(60) DEF LifeInv, TypeOK
<1>4. ClientInv'
  BY <1>3 DEF LifeInv, TypeOK, ClientInv, RefsRight, HeldRight, NoLostWakeup, NoAdmin, Waiting
<1>5. QED
  BY Zenon, <1>1, <1>2, <1>4 DEF LifeInv, ClientInv

\* Between the flag and the notification (pool.rs:686) the waiters of the
\* pool are owed a wakeup.
LEMMA ResumeStep ==
  ASSUME LifeInv, resume
  PROVE  LifeInv'
<1> USE DEF resume, reloadVars
<1>1. TypeOK'
  <2>1. held' \in [Clients -> BOOLEAN] /\ shut' \in [Clients -> BOOLEAN]
    BY Zenon DEF Watch, LifeInv, TypeOK
  <2>2. QED
    BY Zenon, <2>1 DEF LifeInv, TypeOK
<1>2. ReloadRight'
  BY Zenon, ReloadFrame
<1>3. /\ admin.pool \in Pools /\ ~paused'[admin.pool]
      /\ \A p \in Pools \ {admin.pool} : paused'[p] = paused[p]
  BY ZenonT(60) DEF LifeInv, TypeOK, RefsRight
<1>4. RefsRight'
  BY Zenon, <1>3 DEF LifeInv, RefsRight
<1>5. HeldRight'
  BY Zenon DEF LifeInv, HeldRight, Watch
<1>6. NoLostWakeup'
  BY Zenon, <1>3 DEF LifeInv, RefsRight, NoLostWakeup
<1>7. QED
  BY Zenon, <1>1, <1>2, <1>4, <1>5, <1>6 DEF LifeInv

\* The notification (pool.rs:687) reaches every waiter of the pool.
LEMMA NotifyStep ==
  ASSUME LifeInv, notify_waiters
  PROVE  LifeInv'
<1> USE DEF notify_waiters, reloadVars
<1>1. TypeOK'
  <2>1. woken' \in [Clients -> BOOLEAN]
    BY Zenon DEF LifeInv, TypeOK
  <2>2. QED
    BY Zenon, <2>1 DEF LifeInv, TypeOK, NoAdmin
<1>2. ReloadRight'
  BY Zenon, ReloadFrame
<1>3. ClientInv'
  BY Zenon DEF LifeInv, TypeOK, ClientInv, RefsRight, HeldRight, NoLostWakeup, NoAdmin, Waiting
<1>4. QED
  BY Zenon, <1>1, <1>2, <1>3 DEF LifeInv, ClientInv

\* A client that connects (client.rs:882) is not waiting.
LEMMA ConnectStep ==
  ASSUME LifeInv, NEW c \in Clients, Connect(c)
  PROVE  LifeInv'
<1> USE DEF Connect, reloadVars
<1>1. TypeOK'
  BY Zenon DEF LifeInv, TypeOK, RefsRight, Waiting
<1>2. ReloadRight'
  BY Zenon, ReloadFrame
<1>3. ClientInv'
  BY SMTT(30) DEF LifeInv, TypeOK, ClientInv, RefsRight, HeldRight, NoLostWakeup, Waiting
<1>4. QED
  BY Zenon, <1>1, <1>2, <1>3 DEF LifeInv, ClientInv

\* A future that is created now (pool.rs:698) has not been notified.
LEMMA MessageStep ==
  ASSUME LifeInv, NEW c \in Clients, Message(c)
  PROVE  LifeInv'
<1> USE DEF Message, reloadVars
<1>1. TypeOK'
  BY Zenon DEF LifeInv, TypeOK, RefsRight, Waiting
<1>2. ReloadRight'
  BY Zenon, ReloadFrame
<1>3. ClientInv'
  BY DEF LifeInv, TypeOK, ClientInv, RefsRight, HeldRight, NoLostWakeup, Waiting
<1>4. QED
  BY Zenon, <1>1, <1>2, <1>3 DEF LifeInv, ClientInv

\* A client whose pool is paused goes on to wait (pool.rs:700).
LEMMA LoadPausedStep ==
  ASSUME LifeInv, NEW c \in Clients, LoadPaused(c)
  PROVE  LifeInv'
<1> USE DEF LoadPaused, reloadVars
<1>1. TypeOK'
  BY Zenon DEF LifeInv, TypeOK, RefsRight, Waiting
<1>2. ReloadRight'
  BY Zenon, ReloadFrame
<1>3. ClientInv'
  BY DEF LifeInv, TypeOK, ClientInv, RefsRight, HeldRight, NoLostWakeup, Waiting
<1>4. QED
  BY Zenon, <1>1, <1>2, <1>3 DEF LifeInv, ClientInv

\* Awaiting the future (pool.rs:704) does not lose a notification it already has.
LEMMA ParkStep ==
  ASSUME LifeInv, NEW c \in Clients, Park(c)
  PROVE  LifeInv'
<1> USE DEF Park, reloadVars
<1>1. TypeOK'
  BY Zenon DEF LifeInv, TypeOK, RefsRight, Waiting
<1>2. ReloadRight'
  BY Zenon, ReloadFrame
<1>3. ClientInv'
  BY DEF LifeInv, TypeOK, ClientInv, RefsRight, HeldRight, NoLostWakeup, Waiting
<1>4. QED
  BY Zenon, <1>1, <1>2, <1>3 DEF LifeInv, ClientInv

\* A client that was notified is no longer held (pool.rs:704).
LEMMA WakeStep ==
  ASSUME LifeInv, NEW c \in Clients, Wake(c)
  PROVE  LifeInv'
<1> USE DEF Wake, reloadVars
<1>1. TypeOK'
  BY ZenonT(60) DEF LifeInv, TypeOK, RefsRight, Waiting
<1>2. ReloadRight'
  BY Zenon, ReloadFrame
<1>3. ClientInv'
  BY SMTT(30) DEF LifeInv, TypeOK, ClientInv, RefsRight, HeldRight, NoLostWakeup, Waiting
<1>4. QED
  BY Zenon, <1>1, <1>2, <1>3 DEF LifeInv, ClientInv

\* A client that looks its pool up again (client.rs:1063) is not waiting.
LEMMA RefreshStep ==
  ASSUME LifeInv, NEW c \in Clients, Refresh(c)
  PROVE  LifeInv'
<1> USE DEF Refresh, reloadVars
<1>1. TypeOK'
  BY ZenonT(60) DEF LifeInv, TypeOK, RefsRight, Waiting
<1>2. ReloadRight'
  BY Zenon, ReloadFrame
<1>3. ClientInv'
  BY DEF LifeInv, TypeOK, ClientInv, RefsRight, HeldRight, NoLostWakeup, Waiting
<1>4. QED
  BY Zenon, <1>1, <1>2, <1>3 DEF LifeInv, ClientInv

\* A query that is over leaves the client idle.
LEMMA DoneStep ==
  ASSUME LifeInv, NEW c \in Clients, Done(c)
  PROVE  LifeInv'
<1> USE DEF Done, reloadVars
<1>1. TypeOK'
  BY Zenon DEF LifeInv, TypeOK, RefsRight, Waiting
<1>2. ReloadRight'
  BY ZenonT(60), ReloadFrame
<1>3. ClientInv'
  BY DEF LifeInv, TypeOK, ClientInv, RefsRight, HeldRight, NoLostWakeup, Waiting
<1>4. QED
  BY Zenon, <1>1, <1>2, <1>3 DEF LifeInv, ClientInv

\* The invariant holds when the pooler starts (main.rs:154).
LEMMA LifeInit == Init => LifeInv
<1> SUFFICES ASSUME Init PROVE LifeInv
  BY Zenon
<1>1. TypeOK
  BY Zenon DEF Init, TypeOK, NoAdmin
<1>2. RefsRight /\ HeldRight /\ NoLostWakeup
  BY Zenon DEF Init, RefsRight, HeldRight, NoLostWakeup, NoAdmin
<1>3. ReloadRight
  BY Zenon DEF Init, ReloadRight, MadeFrom, Configured
<1>4. QED
  BY Zenon, <1>1, <1>2, <1>3 DEF LifeInv

\* Every step of a reload, an administrator or a client keeps the invariant.
LEMMA LifeNext == LifeInv /\ [Next]_vars => LifeInv'
<1> SUFFICES ASSUME LifeInv, [Next]_vars PROVE LifeInv'
  BY Zenon
<1>1. CASE UNCHANGED vars
  <2>1. TypeOK'
    BY Zenon, <1>1 DEF LifeInv, TypeOK, vars, reloadVars
  <2>2. QED
    BY Zenon, <1>1, <2>1, ClientFrame, ReloadFrame DEF LifeInv, ClientInv, vars, reloadVars
<1>2. ASSUME NEW f \in Configs, EditFile(f) PROVE LifeInv'
  BY Zenon, <1>2, EditFileStep
<1>3. ASSUME NEW r \in Reloaders,
             \/ ReloadStart(r) \/ BadConfig(r) \/ ReadFile(r) \/ StoreConfig(r)
             \/ Compare(r) \/ Build(r) \/ BuildFails(r) \/ SwapPools(r)
      PROVE  LifeInv'
  BY Zenon, <1>3, ReloadStartStep, BadConfigStep, ReadFileStep, StoreConfigStep,
     CompareStep, BuildStep, BuildFailsStep, SwapPoolsStep
<1>4. ASSUME NEW cmd \in {"pause", "resume"}, AdminLookup(cmd) PROVE LifeInv'
  BY Zenon, <1>4, AdminLookupStep
<1>5. CASE AdminStep
  BY Zenon, <1>5, PauseStep, ResumeStep, NotifyStep DEF AdminStep
<1>6. ASSUME NEW c \in Clients, Connect(c) \/ Message(c) \/ ClientStep(c) \/ Done(c)
      PROVE  LifeInv'
  BY Zenon, <1>6, ConnectStep, MessageStep, LoadPausedStep, ParkStep, WakeStep,
     RefreshStep, DoneStep DEF ClientStep
<1>7. QED
  BY Zenon, <1>1, <1>2, <1>3, <1>4, <1>5, <1>6 DEF Next

\* LifeInv holds throughout, for any number of clients and reloaders and any
\* configurations.
THEOREM LifeInvariant == Spec => []LifeInv
BY LifeInit, LifeNext, PTL DEF Spec

\* No client runs a query on a pool that has been paused ever since the
\* client's message (wait_paused, pool.rs:697).
THEOREM PausedClientsWait == Spec => []PauseHolds
<1>1. LifeInv => PauseHolds
  BY Zenon DEF LifeInv, HeldRight, PauseHolds, Waiting
<1>2. QED
  BY <1>1, LifeInvariant, PTL

\* Reloads that neither overlap nor fail leave the pool of the configuration
\* in use (reload_config, config.rs:1587).
THEOREM ReloadsLeaveCurrentPools == Spec => []PoolsCurrent
<1>1. LifeInv => PoolsCurrent
  BY Zenon, LifecycleAssumption DEF LifeInv, ReloadRight, PoolsCurrent, PoolsCurrentDespite, MadeFrom
<1>2. QED
  BY <1>1, LifeInvariant, PTL
=============================================================================
