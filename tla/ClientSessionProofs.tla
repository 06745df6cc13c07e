------------------------ MODULE ClientSessionProofs ------------------------
(***************************************************************************)
(* Proof that SessionInv is an invariant of ClientSession for any numbers  *)
(* of clients and connections, in both pool modes, with and without        *)
(* cleanup_server_connections, for any workload; and that connections are  *)
(* kept until COPY and transaction are over.                               *)
(***************************************************************************)
EXTENDS ClientSession, TLAPS

-----------------------------------------------------------------------------
(* The operators on a session and its flags.                               *)

\* Whatever a session executes, it stays a session.
LEMMA ExecType ==
  ASSUME NEW b \in BackendState, NEW k
  PROVE  Exec(b, k) \in BackendState /\ Fail(b) \in BackendState
BY DEF Exec, Fail, BackendState

\* A session with at most one COPY to be fed stays one, unless a Query asks for two.
LEMMA ExecOneCopy ==
  ASSUME NEW b \in BackendState, OneCopy(b), NEW k, k # "copytwice"
  PROVE  /\ OneCopy(Exec(b, k))
         /\ k \in {"copydone", "fail"} => Exec(b, k).copy = 0
<1>1. b.copy \in 0..2 /\ b.copy <= 1 /\ (b.tx = "E" => b.copy = 0)
  BY Zenon DEF BackendState, OneCopy
<1>2. Exec(b, k).copy <= 1
  BY <1>1 DEF Exec, Fail
<1>3. Exec(b, k).tx = "E" => Exec(b, k).copy = 0
  BY <1>1 DEF Exec, Fail
<1>4. k \in {"copydone", "fail"} => Exec(b, k).copy = 0
  BY <1>1 DEF Exec, Fail
<1> QED BY Zenon, <1>2, <1>3, <1>4 DEF OneCopy

LEMMA ResetOneCopy ==
  ASSUME NEW b \in BackendState, OneCopy(b), NEW v
  PROVE  OneCopy(Fail(b)) /\ OneCopy(ExecReset(b, v)) /\ OneCopy(FreshBackend)
<1>1. Fail(b).copy = 0 /\ FreshBackend.copy = 0 /\ 0 <= 1
  BY DEF Fail, FreshBackend
<1>2. ExecReset(b, v) = Fail(b) \/ (ExecReset(b, v).copy = b.copy /\ ExecReset(b, v).tx = b.tx)
  BY Zenon DEF ExecReset
<1> QED BY Zenon, <1>1, <1>2 DEF OneCopy

\* recv only writes flags, and never clears `bad'.
LEMMA RecvType ==
  ASSUME NEW v \in ServerState, NEW b, NEW b2, NEW k
  PROVE  /\ Recv(v, b, b2, k) \in ServerState
         /\ Recv(v, b, b2, k).bad = v.bad
<1> DEFINE r == Recv(v, b, b2, k)
<1>1. /\ v.in_transaction \in BOOLEAN /\ v.bad \in BOOLEAN
      /\ v.needs_cleanup_set \in BOOLEAN /\ v.needs_cleanup_prepare \in BOOLEAN
  BY Zenon DEF ServerState
<1>2. (IF b2.copy > 0 THEN v.in_transaction ELSE b2.tx # "I") \in BOOLEAN
  BY Zenon, <1>1
<1>3. r = [in_transaction |-> r.in_transaction, in_copy_mode |-> r.in_copy_mode,
           bad |-> r.bad, needs_cleanup_set |-> r.needs_cleanup_set,
           needs_cleanup_prepare |-> r.needs_cleanup_prepare]
  BY Zenon DEF Recv
<1>4. r.in_transaction \in BOOLEAN
  BY Zenon, <1>2 DEF Recv
<1>5. r.in_copy_mode \in BOOLEAN
  BY DEF Recv
<1>6. r.bad = v.bad
  BY Zenon DEF Recv
<1>7. r.needs_cleanup_set \in BOOLEAN /\ r.needs_cleanup_prepare \in BOOLEAN
  BY Zenon DEF Recv
<1> QED BY Zenon, <1>1, <1>3, <1>4, <1>5, <1>6, <1>7 DEF ServerState

\* After recv the flags track the session that answered, whatever they were.
LEMMA RecvTracks ==
  ASSUME NEW v \in ServerState, NEW b, NEW b2 \in BackendState, NEW k
  PROVE  Tracks(Recv(v, b, b2, k), b2)
<1>1. Recv(v, b, b2, k).in_copy_mode = (b2.copy > 0)
  BY Zenon DEF Recv
<1>2. b2.copy = 0 => Recv(v, b, b2, k).in_transaction = (b2.tx # "I")
  BY DEF Recv
<1> QED BY Zenon, <1>1, <1>2 DEF Tracks

\* The command tags recv sees are enough to keep covering the session, if the
\* flags tracked it and a named Parse was announced by mark_dirty.
LEMMA RecvCovers ==
  ASSUME NEW v \in ServerState, NEW b \in BackendState, NEW k,
         Tracks(v, b), Covers(v, b),
         k = "parse_named" => v.needs_cleanup_prepare
  PROVE  Covers(Recv(v, b, Exec(b, k), k), Exec(b, k))
<1>1. /\ b.copy \in 0..2 /\ b.tx \in {"I", "T", "E"} /\ b.prep \in BOOLEAN
      /\ b.set \in {"clean", "session", "untracked"}
      /\ v.needs_cleanup_set \in BOOLEAN /\ v.needs_cleanup_prepare \in BOOLEAN
      /\ v.in_transaction \in BOOLEAN
  BY Zenon DEF BackendState, ServerState
<1>2. Exec(b, k).prep => b.prep \/ (k \in {"prepare", "parse_named"} /\ b.tx # "E" /\ b.copy = 0)
  BY <1>1 DEF Exec, Fail
<1>3. Exec(b, k).set = "session" => b.set = "session" \/ (k = "set" /\ b.tx = "I" /\ b.copy = 0)
  BY <1>1 DEF Exec, Fail
<1> QED BY Zenon, <1>1, <1>2, <1>3 DEF Recv, Tracks, Covers

\* What the small operations on the flags change and leave alone.
LEMMA FlagOps ==
  ASSUME NEW v \in ServerState
  PROVE  /\ mark_bad(v) \in ServerState /\ mark_bad(v).bad
         /\ mark_dirty(v) \in ServerState
         /\ mark_dirty(v).in_transaction = v.in_transaction
         /\ mark_dirty(v).in_copy_mode = v.in_copy_mode
         /\ mark_dirty(v).bad = v.bad
         /\ mark_dirty(v).needs_cleanup_set /\ mark_dirty(v).needs_cleanup_prepare
         /\ ResetCleanup(v) \in ServerState
         /\ ResetCleanup(v).in_transaction = v.in_transaction
         /\ ResetCleanup(v).in_copy_mode = v.in_copy_mode
         /\ ResetCleanup(v).bad = v.bad
BY Zenon DEF mark_bad, mark_dirty, ResetCleanup, ServerState

\* The RESET string leaves a session that was idle clean if the flags covered
\* it.
LEMMA ExecResetClean ==
  ASSUME NEW v \in ServerState, NEW b \in BackendState
  PROVE  /\ ExecReset(b, v) \in BackendState
         /\ b.tx = "I" /\ b.copy = 0 /\ Covers(v, b) => Clean(ExecReset(b, v))
<1>1. /\ b.copy \in 0..2 /\ b.tx \in {"I", "T", "E"} /\ b.prep \in BOOLEAN
      /\ b.set \in {"clean", "session", "untracked"}
      /\ v.needs_cleanup_set \in BOOLEAN /\ v.needs_cleanup_prepare \in BOOLEAN
  BY Zenon DEF BackendState, ServerState
<1>2. ExecReset(b, v) \in BackendState
  BY Zenon, <1>1, ExecType DEF ExecReset, BackendState
<1>3. ASSUME b.tx = "I", b.copy = 0, Covers(v, b)
      PROVE  Clean(ExecReset(b, v))
  <2> DEFINE r == ExecReset(b, v)
  <2>1. r.tx = "I" /\ r.copy = 0
    BY <1>1, <1>3 DEF ExecReset
  <2>2. r.set = IF v.needs_cleanup_set THEN "clean" ELSE b.set
    BY <1>1, <1>3 DEF ExecReset
  <2>3. r.prep = (b.prep /\ ~v.needs_cleanup_prepare)
    BY <1>1, <1>3 DEF ExecReset
  <2> HIDE DEF r
  <2>4. Clean(r) BY Zenon, <1>1, <1>3, <2>1, <2>2, <2>3 DEF Covers, Clean
  <2> QED BY Zenon, <2>4 DEF r
<1> QED BY Zenon, <1>2, <1>3

-----------------------------------------------------------------------------
(* Steps.                                                                  *)

HowValues == {"none", "loop", "exit", "error"}
Taints == {"abort", "cancel", "copy"}

\* What a step of the task that holds a connection, and touches only its own
\* state and that connection, has to establish.
LEMMA HolderStep ==
  ASSUME SessionInv, NEW c \in Clients, NEW s \in Conns, conn[c] = s,
         NEW p \in Holding, NEW m \in Messages \cup {"none"}, NEW h \in HowValues,
         NEW v \in ServerState, NEW b \in BackendState,
         NEW t \in SUBSET Taints, NEW x \in BOOLEAN,
         pc' = [pc EXCEPT ![c] = p], msg' = [msg EXCEPT ![c] = m],
         how' = [how EXCEPT ![c] = h],
         server' = [server EXCEPT ![s] = v], backend' = [backend EXCEPT ![s] = b],
         taint' = [taint EXCEPT ![s] = t], hit' = [hit EXCEPT ![s] = x],
         UNCHANGED <<conn, cancel, slot>>,
         \/ map' = map
         \/ map' = [map EXCEPT ![c] = s]
         \/ map' = [map EXCEPT ![c] = None],
         p = "drop" /\ h = "loop" => map' = [map EXCEPT ![c] = None],
         ~v.bad => Tracks(v, b) /\ (t = {} => Covers(v, b)),
         Stage(p, m, v, b, t)
  PROVE  SessionInv'
<1> USE DEF SessionInv
<1>0. /\ s # None /\ s # Closed /\ slot[s] = "held"
      /\ p \in PcValues
      /\ \A d \in Clients : d # c => conn[d] # s
  BY Zenon, ConstantsAssumption DEF HeldOnce, PcValues
<1>1. TypeOK'
  BY ZenonT(60), <1>0 DEF TypeOK, HowValues, Taints
<1>2. HeldOnce'
  BY ZenonT(60), <1>0 DEF TypeOK, HeldOnce
<1>3. Unheld'
  BY ZenonT(60), <1>0 DEF TypeOK, Unheld
<1>4. FlagsRight'
  BY <1>0 DEF TypeOK, FlagsRight
<1>5. StagesRight'
  <2> SUFFICES ASSUME NEW d \in Clients, conn[d] # None
               PROVE  Stage(pc'[d], msg'[d], server'[conn[d]], backend'[conn[d]],
                            taint'[conn[d]])
    BY Zenon DEF StagesRight
  <2>1. CASE d = c
    BY Zenon, <2>1, <1>0 DEF TypeOK
  <2>2. CASE d # c
    BY ZenonT(60), <2>2, <1>0 DEF TypeOK, StagesRight
  <2> QED BY Zenon, <2>1, <2>2
<1>6. IdleClean'
  <2> SUFFICES ASSUME NEW r \in Conns, slot[r] = "idle", taint'[r] \subseteq {}
               PROVE  Clean(backend'[r])
    BY Zenon DEF IdleClean, CleanDespite
  <2> QED BY ZenonT(60), <1>0 DEF TypeOK, IdleClean, CleanDespite
<1>7. MapSound'
  BY SMTT(30), <1>0, ConstantsAssumption DEF TypeOK, MapSound, HeldOnce, Holding, Waiting
<1>8. ReleasedFirst'
  BY <1>0, ConstantsAssumption DEF TypeOK, ReleasedFirst
<1> QED BY Zenon, <1>1, <1>2, <1>3, <1>4, <1>5, <1>6, <1>7, <1>8

\* The same for a step of a task that holds no connection before or after.
LEMMA FreeStep ==
  ASSUME SessionInv, NEW c \in Clients, conn[c] = None,
         NEW p \in {"idle", "checkout", "returned", "gone"},
         NEW m \in Messages \cup {"none"}, NEW h \in HowValues,
         pc' = [pc EXCEPT ![c] = p], msg' = [msg EXCEPT ![c] = m],
         how' = [how EXCEPT ![c] = h],
         UNCHANGED <<conn, cancel, slot, server, backend, hit, taint>>,
         \/ map' = map /\ pc[c] # "returned"
         \/ map' = [map EXCEPT ![c] = None]
  PROVE  SessionInv'
<1> USE DEF SessionInv
<1>1. TypeOK'
  BY ZenonT(60) DEF TypeOK, HowValues, PcValues
<1>2. HeldOnce'
  BY DEF TypeOK, HeldOnce, Holding, Waiting
<1>3. Unheld' /\ FlagsRight'
  BY Zenon DEF Unheld, FlagsRight
<1>4. StagesRight'
  BY Zenon DEF TypeOK, StagesRight
<1>5. IdleClean'
  BY Zenon DEF IdleClean, CleanDespite
<1>6. MapSound'
  BY ConstantsAssumption DEF TypeOK, MapSound
<1>7. ReleasedFirst'
  BY ZenonT(60), ConstantsAssumption DEF TypeOK, ReleasedFirst
<1> QED BY Zenon, <1>1, <1>2, <1>3, <1>4, <1>5, <1>6, <1>7

\* The parts of the inductive invariant.
LEMMA InvParts ==
  ASSUME SessionInv
  PROVE  /\ TypeOK /\ HeldOnce /\ Unheld /\ FlagsRight /\ StagesRight /\ IdleClean
         /\ ReleasedFirst /\ MapSound
BY Zenon DEF SessionInv

\* All of its parts make the inductive invariant hold after a step.
LEMMA InvNext ==
  ASSUME /\ TypeOK' /\ HeldOnce' /\ Unheld' /\ FlagsRight' /\ StagesRight' /\ IdleClean'
         /\ ReleasedFirst' /\ MapSound'
  PROVE  SessionInv'
BY Zenon DEF SessionInv

\* A task between checkout and drop holds a connection.
LEMMA HolderConn ==
  ASSUME SessionInv, NEW c \in Clients, pc[c] \in Holding
  PROVE  \E s \in Conns : conn[c] = s
<1>inv. /\ TypeOK /\ HeldOnce /\ Unheld /\ FlagsRight /\ StagesRight /\ IdleClean
        /\ ReleasedFirst /\ MapSound
  BY Zenon, InvParts
<1> QED BY ZenonT(60), <1>inv DEF HeldOnce, TypeOK

\* What the holder of a connection knows about it.
LEMMA HolderFacts ==
  ASSUME SessionInv, NEW c \in Clients, NEW s \in Conns, conn[c] = s
  PROVE  /\ server[s] \in ServerState
         /\ backend[s] \in BackendState
         /\ taint[s] \in SUBSET Taints
         /\ hit[s] \in BOOLEAN
         /\ how[c] \in HowValues
         /\ msg[c] \in Messages \cup {"none"}
         /\ pc[c] \in Holding
         /\ slot[s] = "held"
         /\ Stage(pc[c], msg[c], server[s], backend[s], taint[s])
         /\ pc[c] # "drop" => ~server[s].bad
         /\ ~server[s].bad => Tracks(server[s], backend[s])
         /\ ~server[s].bad /\ taint[s] = {} => Covers(server[s], backend[s])
<1>inv. /\ TypeOK /\ HeldOnce /\ Unheld /\ FlagsRight /\ StagesRight /\ IdleClean
        /\ ReleasedFirst /\ MapSound
  BY Zenon, InvParts
<1>0. conn[c] # None
  BY Zenon, ConstantsAssumption
<1>1. Stage(pc[c], msg[c], server[s], backend[s], taint[s])
  BY Zenon, <1>inv, <1>0 DEF StagesRight
<1>2. ~server[s].bad => /\ Tracks(server[s], backend[s])
                        /\ taint[s] = {} => Covers(server[s], backend[s])
  BY Zenon, <1>inv DEF FlagsRight
<1>3. pc[c] # "drop" => ~server[s].bad
  BY Zenon, <1>1 DEF Stage
<1>4. pc[c] \in Holding /\ slot[s] = "held"
  BY Zenon, <1>inv, <1>0 DEF HeldOnce
<1> QED BY Zenon, <1>inv, <1>1, <1>2, <1>3, <1>4 DEF TypeOK, HowValues, Taints

\* The answer to a query on a good connection leaves the flags right, whether
\* or not a cancel request made the query fail.
LEMMA AnswerRight ==
  ASSUME NEW s \in Conns, NEW k,
         server[s] \in ServerState, backend[s] \in BackendState, hit[s] \in BOOLEAN,
         ~server[s].bad, Tracks(server[s], backend[s]),
         k = "parse_named" => server[s].needs_cleanup_prepare
  PROVE  /\ Executed(s, k) \in BackendState
         /\ Received(s, k) \in ServerState
         /\ ~Received(s, k).bad
         /\ Tracks(Received(s, k), Executed(s, k))
         /\ Covers(server[s], backend[s]) => Covers(Received(s, k), Executed(s, k))
<1>1. Effective(s, k) = "parse_named" => server[s].needs_cleanup_prepare
  BY Zenon DEF Effective
<1> HIDE DEF Effective
<1>2. Executed(s, k) \in BackendState
  BY Zenon, ExecType DEF Executed
<1>3. Received(s, k) \in ServerState /\ ~Received(s, k).bad
  BY <1>2, RecvType DEF Received
<1>4. Tracks(Received(s, k), Executed(s, k))
  BY Zenon, <1>2, RecvTracks DEF Received
<1>5. Covers(server[s], backend[s]) => Covers(Received(s, k), Executed(s, k))
  BY Zenon, <1>1, RecvCovers DEF Received, Executed
<1> QED BY Zenon, <1>2, <1>3, <1>4, <1>5

-----------------------------------------------------------------------------
(* Check-in.                                                               *)

\* An idle session whose flags ask for no cleanup, or with cleanup turned off,
\* is clean.
LEMMA CoveredClean ==
  ASSUME NEW v \in ServerState, NEW b \in BackendState, Covers(v, b),
         b.tx = "I", b.copy = 0, ~(needs_cleanup(v) /\ CleanupConnections)
  PROVE  Clean(b)
BY Zenon DEF Covers, Clean, needs_cleanup

\* Where checkin_cleanup sends the task after the rollback, if there was one.
LEMMA AfterRollbackStage ==
  ASSUME NEW v \in ServerState, NEW b \in BackendState, NEW t, NEW h \in HowValues,
         ~v.bad, t = {} => Covers(v, b) /\ b.tx = "I" /\ b.copy = 0
  PROVE  /\ AfterRollback(v, h) \in {"reset", "release", "drop"}
         /\ h # "error" => AfterRollback(v, h) # "drop"
         /\ Stage(AfterRollback(v, h), "none", v, b, t)
<1>1. /\ AfterRollback(v, h) \in {"reset", "release", "drop"}
      /\ h # "error" => AfterRollback(v, h) # "drop"
  BY Zenon DEF AfterRollback, AfterReset
<1>2. AfterRollback(v, h) # "reset" => ~(needs_cleanup(v) /\ CleanupConnections)
  BY Zenon DEF AfterRollback
<1>3. t = {} /\ AfterRollback(v, h) # "reset" => Clean(b)
  BY Zenon, <1>2, CoveredClean
<1> QED BY Zenon, <1>1, <1>3 DEF Stage

\* Where checkin_cleanup starts.
LEMMA CleanupStage ==
  ASSUME NEW v \in ServerState, NEW b \in BackendState, NEW t \in SUBSET Taints,
         NEW h \in HowValues, ~v.bad, Tracks(v, b), t = {} => Covers(v, b)
  PROVE  LET t2 == IF v.in_copy_mode THEN t \cup {"copy"} ELSE t
         IN  /\ checkin_cleanup(v, h) \in {"rollback", "reset", "release", "drop"}
             /\ h # "error" => checkin_cleanup(v, h) # "drop"
             /\ t2 \in SUBSET Taints
             /\ t2 = {} => Covers(v, b)
             /\ Stage(checkin_cleanup(v, h), "none", v, b, t2)
<1> DEFINE t2 == IF v.in_copy_mode THEN t \cup {"copy"} ELSE t
<1>1. /\ b.copy \in 0..2 /\ v.in_copy_mode \in BOOLEAN /\ v.in_transaction \in BOOLEAN
  BY Zenon DEF BackendState, ServerState
<1>2. t2 \in SUBSET Taints /\ (t2 = {} => t = {} /\ ~v.in_copy_mode)
  BY Zenon, <1>1 DEF Taints
<1>3. t2 = {} => Covers(v, b) /\ b.copy = 0
  BY <1>1, <1>2 DEF Tracks
<1> HIDE DEF t2
<1>4. CASE v.in_transaction
  <2>1. checkin_cleanup(v, h) = "rollback"
    BY Zenon, <1>4 DEF checkin_cleanup
  <2> QED BY Zenon, <2>1, <1>2, <1>3 DEF Stage, t2
<1>5. CASE ~v.in_transaction
  <2>1. checkin_cleanup(v, h) = AfterRollback(v, h)
    BY Zenon, <1>5 DEF checkin_cleanup
  <2>2. t2 = {} => b.tx = "I"
    BY Zenon, <1>1, <1>3, <1>5 DEF Tracks
  <2>3. /\ AfterRollback(v, h) \in {"reset", "release", "drop"}
        /\ h # "error" => AfterRollback(v, h) # "drop"
        /\ Stage(AfterRollback(v, h), "none", v, b, t2)
    BY Zenon, <2>2, <1>3, AfterRollbackStage
  <2> QED BY Zenon, <2>1, <2>3, <1>2, <1>3 DEF t2
<1> QED BY Zenon, <1>1, <1>4, <1>5

\* The end of an iteration of the transaction loop, whatever it did to the
\* connection, given flags that are right.
LEMMA EndIterationStep ==
  ASSUME SessionInv, NEW c \in Clients, NEW s \in Conns, conn[c] = s,
         NEW v \in ServerState, NEW b \in BackendState, NEW x \in BOOLEAN, NEW k,
         server' = [server EXCEPT ![s] = v], backend' = [backend EXCEPT ![s] = b],
         hit' = [hit EXCEPT ![s] = x],
         UNCHANGED <<conn, map, cancel, slot>>,
         EndIteration(c, s, v, k),
         ~v.bad, Tracks(v, b), taint[s] = {} => Covers(v, b)
  PROVE  SessionInv'
<1>1. taint[s] \in SUBSET Taints /\ how[c] \in HowValues /\ s # None
  BY Zenon, HolderFacts, ConstantsAssumption
<1>2. CASE Breaks(v, k)
  <2>1. /\ checkin_cleanup(v, "loop") \in Holding \ {"drop"}
        /\ CopyTaint(s, v) \in SUBSET Taints
        /\ CopyTaint(s, v) = {} => Covers(v, b)
        /\ Stage(checkin_cleanup(v, "loop"), "none", v, b, CopyTaint(s, v))
    BY ZenonT(60), <1>1, CleanupStage DEF CopyTaint, Holding, Waiting, HowValues
  <2>2. /\ pc' = [pc EXCEPT ![c] = checkin_cleanup(v, "loop")]
        /\ how' = [how EXCEPT ![c] = "loop"]
        /\ msg' = [msg EXCEPT ![c] = "none"]
        /\ taint' = [taint EXCEPT ![s] = CopyTaint(s, v)]
    BY Zenon, <1>2 DEF EndIteration
  <2>3. "loop" \in HowValues /\ "none" \in Messages \cup {"none"}
    BY Zenon DEF HowValues
  <2> QED BY Zenon, <2>1, <2>2, <2>3, HolderStep
<1>3. CASE ~Breaks(v, k)
  <2>1. /\ pc' = [pc EXCEPT ![c] = "txread"]
        /\ how' = [how EXCEPT ![c] = how[c]]
        /\ msg' = [msg EXCEPT ![c] = "none"]
        /\ taint' = [taint EXCEPT ![s] = taint[s]]
    BY Zenon, <1>3 DEF EndIteration
  <2>2. Stage("txread", "none", v, b, taint[s]) /\ "txread" \in Holding
    BY Zenon DEF Stage, Holding, Waiting
  <2> QED BY Zenon, <1>1, <2>1, <2>2, HolderStep
<1> QED BY Zenon, <1>2, <1>3

-----------------------------------------------------------------------------
(* The steps of a task that holds a connection.                            *)

\* A function updated with the value it has there is unchanged.
LEMMA SameUpdate ==
  ASSUME SessionInv, NEW c \in Clients, NEW s \in Conns
  PROVE  /\ pc = [pc EXCEPT ![c] = pc[c]]
         /\ msg = [msg EXCEPT ![c] = msg[c]]
         /\ how = [how EXCEPT ![c] = how[c]]
         /\ server = [server EXCEPT ![s] = server[s]]
         /\ backend = [backend EXCEPT ![s] = backend[s]]
         /\ taint = [taint EXCEPT ![s] = taint[s]]
         /\ hit = [hit EXCEPT ![s] = hit[s]]
<1>inv. /\ TypeOK /\ HeldOnce /\ Unheld /\ FlagsRight /\ StagesRight /\ IdleClean
        /\ ReleasedFirst /\ MapSound
  BY Zenon, InvParts
<1> QED BY ZenonT(60), <1>inv DEF TypeOK

\* An own query of pgcat is answered without being cancelled, or the
\* connection is tainted.
LEMMA OwnQuery ==
  ASSUME NEW s \in Conns, taint[s] \in SUBSET Taints, hit[s] \in BOOLEAN
  PROVE  /\ OwnQueryTaint(s) \in SUBSET Taints
         /\ OwnQueryTaint(s) = {} => taint[s] = {} /\ ~hit[s]
BY Zenon DEF OwnQueryTaint, Taints

\* An own query that is no transaction command leaves a clean session clean.
LEMMA NoEffect ==
  ASSUME NEW s \in Conns, backend[s] \in BackendState, Clean(backend[s]), ~hit[s],
         NEW k \in {"health_check", "set_parameters"}
  PROVE  Clean(Executed(s, k))
<1> DEFINE b == backend[s]
           e == Exec(b, k)
<1>1. /\ b.tx = "I" /\ b.copy = 0 /\ b.prep \in BOOLEAN
      /\ CleanupConnections => b.set # "session" /\ ~b.prep
  BY Zenon DEF Clean, BackendState
<1>2. Executed(s, k) = e
  BY Zenon DEF Executed, Effective
<1>3. e.tx = "I"
  BY <1>1 DEF Exec
<1>4. e.copy = 0
  BY <1>1 DEF Exec
<1>5. e.set = b.set
  BY <1>1 DEF Exec
<1>6. e.prep => b.prep
  BY <1>1 DEF Exec
<1> HIDE DEF e
<1> QED BY Zenon, <1>1, <1>2, <1>3, <1>4, <1>5, <1>6 DEF Clean

\* A health check that succeeds (pool.rs:829) leaves flags and session in agreement.
LEMMA HealthCheckOkStep ==
  ASSUME SessionInv, NEW c \in Clients, HealthCheckOk(c)
  PROVE  SessionInv'
<1>0. pc[c] = "health" /\ pc[c] \in Holding
  BY Zenon DEF HealthCheckOk, Holding, Waiting
<1>1. PICK s \in Conns : conn[c] = s
  BY Zenon, <1>0, HolderConn
<1>2. /\ Executed(s, "health_check") \in BackendState /\ Received(s, "health_check") \in ServerState
      /\ ~Received(s, "health_check").bad
      /\ Tracks(Received(s, "health_check"), Executed(s, "health_check"))
      /\ Covers(server[s], backend[s]) => Covers(Received(s, "health_check"), Executed(s, "health_check"))
  BY Zenon, <1>0, <1>1, HolderFacts, AnswerRight
<1>3. /\ OwnQueryTaint(s) \in SUBSET Taints
      /\ OwnQueryTaint(s) = {} => /\ Covers(Received(s, "health_check"), Executed(s, "health_check"))
                                  /\ Clean(Executed(s, "health_check"))
  <2>1. /\ OwnQueryTaint(s) \in SUBSET Taints
        /\ OwnQueryTaint(s) = {} => taint[s] = {} /\ ~hit[s]
    BY ZenonT(60), <1>0, <1>1, HolderFacts, OwnQuery
  <2>2. taint[s] = {} => Clean(backend[s]) /\ Covers(server[s], backend[s])
    BY Zenon, <1>0, <1>1, HolderFacts DEF Stage
  <2>3. taint[s] = {} /\ ~hit[s] => Clean(Executed(s, "health_check"))
    BY Zenon, <1>0, <1>1, <2>2, HolderFacts, NoEffect
  <2> QED BY Zenon, <1>2, <2>1, <2>2, <2>3
<1>4. PICK p \in {"sync", "send"} : pc' = [pc EXCEPT ![c] = p]
  BY Zenon DEF HealthCheckOk, Claim
<1>5. p \in Holding /\ Stage(p, msg[c], Received(s, "health_check"), Executed(s, "health_check"), OwnQueryTaint(s))
  BY Zenon, <1>2, <1>3, <1>4 DEF Stage, Holding, Waiting
<1>6. /\ msg' = [msg EXCEPT ![c] = msg[c]] /\ how' = [how EXCEPT ![c] = how[c]]
      /\ server' = [server EXCEPT ![s] = Received(s, "health_check")]
      /\ backend' = [backend EXCEPT ![s] = Executed(s, "health_check")]
      /\ taint' = [taint EXCEPT ![s] = OwnQueryTaint(s)]
      /\ hit' = [hit EXCEPT ![s] = FALSE]
      /\ map' = [map EXCEPT ![c] = s] /\ UNCHANGED <<conn, cancel, slot>>
  BY Zenon, <1>1, SameUpdate DEF HealthCheckOk, Claim
<1>7. msg[c] \in Messages \cup {"none"} /\ how[c] \in HowValues
  BY Zenon, <1>1, HolderFacts
<1> QED BY ZenonT(60), <1>1, <1>2, <1>3, <1>4, <1>5, <1>6, <1>7, HolderStep

\* sync_parameters (server.rs:1261) may forget the cleanup flags: the session is clean.
LEMMA SyncParametersStep ==
  ASSUME SessionInv, NEW c \in Clients, SyncParameters(c)
  PROVE  SessionInv'
<1> DEFINE k == "set_parameters"
           v(s) == ResetCleanup(Received(s, k))
<1>0. pc[c] = "sync" /\ pc[c] \in Holding
  BY Zenon DEF SyncParameters, Holding, Waiting
<1>1. PICK s \in Conns : conn[c] = s
  BY Zenon, <1>0, HolderConn
<1>2. /\ Executed(s, k) \in BackendState /\ Received(s, k) \in ServerState
      /\ ~Received(s, k).bad
      /\ Tracks(Received(s, k), Executed(s, k))
  BY Zenon, <1>0, <1>1, HolderFacts, AnswerRight
<1>3. v(s) \in ServerState /\ ~v(s).bad /\ Tracks(v(s), Executed(s, k))
  BY Zenon, <1>2, FlagOps DEF Tracks
<1>4. /\ OwnQueryTaint(s) \in SUBSET Taints
      /\ OwnQueryTaint(s) = {} => Covers(v(s), Executed(s, k))
  <2>1. /\ OwnQueryTaint(s) \in SUBSET Taints
        /\ OwnQueryTaint(s) = {} => taint[s] = {} /\ ~hit[s]
    BY ZenonT(60), <1>0, <1>1, HolderFacts, OwnQuery
  <2>2. taint[s] = {} => Clean(backend[s])
    BY Zenon, <1>0, <1>1, HolderFacts DEF Stage
  <2>3. taint[s] = {} /\ ~hit[s] => Clean(Executed(s, k))
    BY Zenon, <1>0, <1>1, <2>2, HolderFacts, NoEffect
  <2> QED BY Zenon, <2>1, <2>2, <2>3 DEF Clean, Covers
<1>5. "send" \in Holding /\ Stage("send", msg[c], v(s), Executed(s, k), OwnQueryTaint(s))
  BY Zenon, <1>3 DEF Stage, Holding, Waiting
<1>6. /\ msg' = [msg EXCEPT ![c] = msg[c]] /\ how' = [how EXCEPT ![c] = how[c]]
      /\ pc' = [pc EXCEPT ![c] = "send"]
      /\ server' = [server EXCEPT ![s] = v(s)]
      /\ backend' = [backend EXCEPT ![s] = Executed(s, k)]
      /\ taint' = [taint EXCEPT ![s] = OwnQueryTaint(s)]
      /\ hit' = [hit EXCEPT ![s] = FALSE]
      /\ UNCHANGED <<map, conn, cancel, slot>>
  BY Zenon, <1>1, SameUpdate DEF SyncParameters
<1>7. msg[c] \in Messages \cup {"none"} /\ how[c] \in HowValues
  BY Zenon, <1>1, HolderFacts
<1> HIDE DEF k, v
<1> QED BY Zenon, <1>1, <1>2, <1>3, <1>4, <1>5, <1>6, <1>7, HolderStep

\* Sending a query (client.rs:1976) changes no session; a named Parse marks it first.
LEMMA SendQueryStep ==
  ASSUME SessionInv, NEW c \in Clients, NEW k \in Messages, SendQuery(c, k)
  PROVE  SessionInv'
<1>0. pc[c] \in {"send", "txread"} /\ pc[c] \in Holding
  BY Zenon DEF SendQuery, Reads, Holding, Waiting
<1>1. PICK s \in Conns : conn[c] = s
  BY Zenon, <1>0, HolderConn
<1> DEFINE v == IF k = "parse_named" THEN mark_dirty(server[s]) ELSE server[s]
<1>2. /\ server[s] \in ServerState /\ backend[s] \in BackendState
      /\ taint[s] \in SUBSET Taints /\ hit[s] \in BOOLEAN
      /\ how[c] \in HowValues
      /\ ~server[s].bad /\ Tracks(server[s], backend[s])
      /\ taint[s] = {} => Covers(server[s], backend[s])
  BY Zenon, <1>0, <1>1, HolderFacts
<1>3. /\ v \in ServerState /\ ~v.bad /\ Tracks(v, backend[s])
      /\ taint[s] = {} => Covers(v, backend[s])
      /\ k = "parse_named" => v.needs_cleanup_prepare
  BY Zenon, <1>2, FlagOps DEF Tracks, Covers
<1>4. "recv" \in Holding /\ Stage("recv", k, v, backend[s], taint[s])
  BY Zenon, <1>3 DEF Stage, Holding, Waiting
<1>5. /\ msg' = [msg EXCEPT ![c] = k] /\ how' = [how EXCEPT ![c] = how[c]]
      /\ pc' = [pc EXCEPT ![c] = "recv"]
      /\ server' = [server EXCEPT ![s] = v]
      /\ backend' = [backend EXCEPT ![s] = backend[s]]
      /\ taint' = [taint EXCEPT ![s] = taint[s]]
      /\ hit' = [hit EXCEPT ![s] = hit[s]]
      /\ UNCHANGED <<map, conn, cancel, slot>>
  BY Zenon, <1>1, SameUpdate DEF SendQuery
<1> HIDE DEF v
<1> QED BY Zenon, <1>1, <1>2, <1>3, <1>4, <1>5, HolderStep

\* An answer (client.rs:1976, server.rs:905) brings the flags up to date with the session.
LEMMA ReceiveAnswerStep ==
  ASSUME SessionInv, NEW c \in Clients, ReceiveAnswer(c)
  PROVE  SessionInv'
<1>0. pc[c] = "recv" /\ pc[c] \in Holding
  BY Zenon DEF ReceiveAnswer, Holding, Waiting
<1>1. PICK s \in Conns : conn[c] = s
  BY Zenon, <1>0, HolderConn
<1>2. msg[c] = "parse_named" => server[s].needs_cleanup_prepare
  BY Zenon, <1>0, <1>1, HolderFacts DEF Stage
<1>3. /\ Executed(s, msg[c]) \in BackendState /\ Received(s, msg[c]) \in ServerState
      /\ ~Received(s, msg[c]).bad
      /\ Tracks(Received(s, msg[c]), Executed(s, msg[c]))
      /\ taint[s] = {} => Covers(Received(s, msg[c]), Executed(s, msg[c]))
  BY ZenonT(60), <1>0, <1>1, <1>2, HolderFacts, AnswerRight
<1> QED BY Zenon, <1>1, <1>3, EndIterationStep DEF ReceiveAnswer

\* A step that marks the connection bad and returns an error.
LEMMA BadStep ==
  ASSUME SessionInv, NEW c \in Clients, NEW s \in Conns, conn[c] = s,
         server' = [server EXCEPT ![s] = mark_bad(server[s])],
         backend' = [backend EXCEPT ![s] = backend[s]],
         taint' = [taint EXCEPT ![s] = taint[s]],
         hit' = [hit EXCEPT ![s] = hit[s]],
         ReturnErr(c),
         UNCHANGED <<conn, map, cancel, slot>>
  PROVE  SessionInv'
<1>1. /\ server[s] \in ServerState /\ backend[s] \in BackendState
      /\ taint[s] \in SUBSET Taints /\ hit[s] \in BOOLEAN
  BY Zenon, HolderFacts
<1>2. mark_bad(server[s]) \in ServerState /\ mark_bad(server[s]).bad
  BY Zenon, <1>1, FlagOps
<1>3. /\ "drop" \in Holding /\ "error" \in HowValues
      /\ Stage("drop", "none", mark_bad(server[s]), backend[s], taint[s])
  BY Zenon, <1>2 DEF Stage, Holding, Waiting, HowValues
<1>4. /\ pc' = [pc EXCEPT ![c] = "drop"]
      /\ how' = [how EXCEPT ![c] = "error"]
      /\ msg' = [msg EXCEPT ![c] = "none"]
  BY Zenon DEF ReturnErr
<1> QED BY Zenon, <1>1, <1>2, <1>3, <1>4, HolderStep

\* A Sync answered by pgcat (client.rs:1352) ends the iteration from flags that are right.
LEMMA SyncOnlyStep ==
  ASSUME SessionInv, NEW c \in Clients, SyncOnly(c)
  PROVE  SessionInv'
<1>0. pc[c] \in {"send", "txread"} /\ pc[c] \in Holding
  BY Zenon DEF SyncOnly, Reads, Holding, Waiting
<1>1. PICK s \in Conns : conn[c] = s
  BY Zenon, <1>0, HolderConn
<1>2. CASE EndIteration(c, s, server[s], "sync_only") /\ UNCHANGED server
  <2>1. /\ server' = [server EXCEPT ![s] = server[s]]
        /\ backend' = [backend EXCEPT ![s] = backend[s]]
        /\ hit' = [hit EXCEPT ![s] = hit[s]]
    BY Zenon, <1>2, SameUpdate DEF SyncOnly
  <2>2. /\ server[s] \in ServerState /\ backend[s] \in BackendState
        /\ hit[s] \in BOOLEAN /\ ~server[s].bad
        /\ Tracks(server[s], backend[s])
        /\ taint[s] = {} => Covers(server[s], backend[s])
    BY Zenon, <1>0, <1>1, HolderFacts
  <2>3. UNCHANGED <<conn, map, cancel, slot>>
    BY Zenon DEF SyncOnly
  <2> QED BY Zenon, <1>1, <1>2, <2>1, <2>2, <2>3, EndIterationStep
<1>3. CASE /\ server' = [server EXCEPT ![s] = mark_bad(@)]
           /\ ReturnErr(c)
           /\ UNCHANGED taint
  <2>1. /\ backend' = [backend EXCEPT ![s] = backend[s]]
        /\ taint' = [taint EXCEPT ![s] = taint[s]]
        /\ hit' = [hit EXCEPT ![s] = hit[s]]
        /\ UNCHANGED <<conn, map, cancel, slot>>
    BY Zenon, <1>3, SameUpdate DEF SyncOnly
  <2> QED BY Zenon, <1>1, <1>3, <2>1, BadStep
<1> QED BY Zenon, <1>1, <1>2, <1>3 DEF SyncOnly

\* An answer that cannot be forwarded (client.rs:2000) makes the connection bad.
LEMMA ForwardFailsStep ==
  ASSUME SessionInv, NEW c \in Clients, ForwardFails(c) \/ ConnectionError(c)
  PROVE  SessionInv'
<1>0. pc[c] \in Holding
  BY Zenon DEF ForwardFails, ConnectionError, Holding, Waiting
<1>1. PICK s \in Conns : conn[c] = s
  BY Zenon, <1>0, HolderConn
<1>2. /\ backend' = [backend EXCEPT ![s] = backend[s]]
      /\ taint' = [taint EXCEPT ![s] = taint[s]]
      /\ hit' = [hit EXCEPT ![s] = hit[s]]
      /\ UNCHANGED <<conn, map, cancel, slot>>
      /\ server' = [server EXCEPT ![s] = mark_bad(server[s])]
      /\ ReturnErr(c)
  BY Zenon, <1>1, SameUpdate DEF ForwardFails, ConnectionError
<1> QED BY Zenon, <1>1, <1>2, BadStep

\* A plugin's answer (client.rs:1356) touches neither the session nor its flags.
LEMMA PluginAnswersStep ==
  ASSUME SessionInv, NEW c \in Clients, PluginAnswers(c)
  PROVE  SessionInv'
<1>0. pc[c] \in {"send", "txread"} /\ pc[c] \in Holding
  BY Zenon DEF PluginAnswers, Reads, Holding, Waiting
<1>1. PICK s \in Conns : conn[c] = s
  BY Zenon, <1>0, HolderConn
<1>2. /\ server[s] \in ServerState /\ backend[s] \in BackendState
      /\ taint[s] \in SUBSET Taints /\ hit[s] \in BOOLEAN
      /\ how[c] \in HowValues
      /\ ~server[s].bad /\ Tracks(server[s], backend[s])
      /\ taint[s] = {} => Covers(server[s], backend[s])
  BY Zenon, <1>0, <1>1, HolderFacts
<1>3. "txread" \in Holding /\ Stage("txread", "none", server[s], backend[s], taint[s])
  BY Zenon, <1>2 DEF Stage, Holding, Waiting
<1>4. /\ pc' = [pc EXCEPT ![c] = "txread"]
      /\ msg' = [msg EXCEPT ![c] = "none"]
      /\ how' = [how EXCEPT ![c] = how[c]]
      /\ server' = [server EXCEPT ![s] = server[s]]
      /\ backend' = [backend EXCEPT ![s] = backend[s]]
      /\ taint' = [taint EXCEPT ![s] = taint[s]]
      /\ hit' = [hit EXCEPT ![s] = hit[s]]
      /\ UNCHANGED <<map, conn, cancel, slot>>
  BY Zenon, <1>1, SameUpdate DEF PluginAnswers
<1> QED BY Zenon, <1>1, <1>2, <1>3, <1>4, HolderStep

\* A task that ends on the spot (client.rs:1324) leaves a tainted connection.
LEMMA AbortTransactionStep ==
  ASSUME SessionInv, NEW c \in Clients, AbortTransaction(c)
  PROVE  SessionInv'
<1>0. pc[c] \in {"send", "txread"} /\ pc[c] \in Holding
  BY Zenon DEF AbortTransaction, Reads, Holding, Waiting
<1>1. PICK s \in Conns : conn[c] = s
  BY Zenon, <1>0, HolderConn
<1> DEFINE t == taint[s] \cup {"abort"}
<1>2. /\ server[s] \in ServerState /\ backend[s] \in BackendState
      /\ taint[s] \in SUBSET Taints /\ hit[s] \in BOOLEAN
      /\ ~server[s].bad /\ Tracks(server[s], backend[s])
  BY Zenon, <1>0, <1>1, HolderFacts
<1>3. t \in SUBSET Taints /\ t # {}
  BY Zenon, <1>2 DEF Taints
<1>4. /\ server' = [server EXCEPT ![s] = server[s]]
      /\ backend' = [backend EXCEPT ![s] = backend[s]]
      /\ taint' = [taint EXCEPT ![s] = t]
      /\ hit' = [hit EXCEPT ![s] = hit[s]]
      /\ pc' = [pc EXCEPT ![c] = "drop"]
      /\ how' = [how EXCEPT ![c] = "error"]
      /\ msg' = [msg EXCEPT ![c] = "none"]
      /\ UNCHANGED <<conn, map, cancel, slot>>
  BY Zenon, <1>1, SameUpdate DEF AbortTransaction, ReturnErr
<1> HIDE DEF t
<1>5. /\ "drop" \in Holding /\ "error" \in HowValues
      /\ Stage("drop", "none", server[s], backend[s], t)
  BY Zenon, <1>3 DEF Stage, Holding, Waiting, HowValues
<1> QED BY Zenon, <1>1, <1>2, <1>3, <1>4, <1>5, HolderStep

\* Terminate, a read error or the idle timeout (client.rs:1180, 1300) start the check-in.
LEMMA EndTransactionStep ==
  ASSUME SessionInv, NEW c \in Clients, NEW h \in {"exit", "error", "loop"},
         EndTransaction(c, h)
  PROVE  SessionInv'
<1>0. pc[c] = "txread" /\ pc[c] \in Holding
  BY Zenon DEF EndTransaction, Holding, Waiting
<1>1. PICK s \in Conns : conn[c] = s
  BY Zenon, <1>0, HolderConn
<1>2. /\ server[s] \in ServerState /\ backend[s] \in BackendState
      /\ taint[s] \in SUBSET Taints /\ hit[s] \in BOOLEAN
      /\ ~server[s].bad /\ Tracks(server[s], backend[s])
      /\ taint[s] = {} => Covers(server[s], backend[s])
      /\ msg[c] \in Messages \cup {"none"} /\ h \in HowValues
  BY Zenon, <1>0, <1>1, HolderFacts DEF HowValues
<1> DEFINE p == checkin_cleanup(server[s], h)
           t == CopyTaint(s, server[s])
<1>3. /\ p \in {"rollback", "reset", "release", "drop"}
      /\ h # "error" => p # "drop"
      /\ t \in SUBSET Taints
      /\ t = {} => Covers(server[s], backend[s])
      /\ Stage(p, "none", server[s], backend[s], t)
  BY ZenonT(60), <1>2, CleanupStage DEF CopyTaint
<1>4. p \in Holding /\ Stage(p, msg[c], server[s], backend[s], t)
  BY Zenon, <1>3 DEF Stage, Holding, Waiting
<1>5. /\ server' = [server EXCEPT ![s] = server[s]]
      /\ backend' = [backend EXCEPT ![s] = backend[s]]
      /\ taint' = [taint EXCEPT ![s] = t]
      /\ hit' = [hit EXCEPT ![s] = hit[s]]
      /\ pc' = [pc EXCEPT ![c] = p]
      /\ how' = [how EXCEPT ![c] = h]
      /\ msg' = [msg EXCEPT ![c] = msg[c]]
      /\ UNCHANGED <<conn, map, cancel, slot>>
  BY Zenon, <1>1, SameUpdate DEF EndTransaction
<1> HIDE DEF p, t
<1> QED BY ZenonT(60), <1>1, <1>2, <1>3, <1>4, <1>5, HolderStep

\* After the ROLLBACK of checkin_cleanup (server.rs:1329) no transaction is open.
LEMMA RollbackDoneStep ==
  ASSUME SessionInv, NEW c \in Clients, RollbackDone(c)
  PROVE  SessionInv'
<1> DEFINE k == "rollback"
<1>0. pc[c] = "rollback" /\ pc[c] \in Holding
  BY Zenon DEF RollbackDone, Holding, Waiting
<1>1. PICK s \in Conns : conn[c] = s
  BY Zenon, <1>0, HolderConn
<1> DEFINE v == Received(s, k)
           b == Executed(s, k)
           t == OwnQueryTaint(s)
           p == AfterRollback(server[s], how[c])
<1>2. /\ server[s] \in ServerState /\ backend[s] \in BackendState
      /\ taint[s] \in SUBSET Taints /\ hit[s] \in BOOLEAN
      /\ ~server[s].bad /\ Tracks(server[s], backend[s])
      /\ taint[s] = {} => Covers(server[s], backend[s]) /\ backend[s].copy = 0
      /\ msg[c] \in Messages \cup {"none"} /\ how[c] \in HowValues
  BY ZenonT(60), <1>0, <1>1, HolderFacts DEF Stage
<1>3. /\ b \in BackendState /\ v \in ServerState /\ ~v.bad /\ Tracks(v, b)
      /\ Covers(server[s], backend[s]) => Covers(v, b)
  BY Zenon, <1>2, AnswerRight
<1>4. t \in SUBSET Taints /\ (t = {} => taint[s] = {} /\ ~hit[s])
  BY Zenon, <1>2, OwnQuery
<1>5. ~hit[s] /\ backend[s].copy = 0 => b.tx = "I" /\ b.copy = 0
  BY <1>2 DEF Executed, Effective, Exec, BackendState
<1>6. p = AfterRollback(v, how[c])
  <2>1. /\ v.needs_cleanup_set = server[s].needs_cleanup_set
        /\ v.needs_cleanup_prepare = server[s].needs_cleanup_prepare
    BY Zenon, <1>2 DEF Received, Recv, Effective, ServerState
  <2> QED BY Zenon, <2>1 DEF AfterRollback, needs_cleanup
<1>7. /\ server' = [server EXCEPT ![s] = v]
      /\ backend' = [backend EXCEPT ![s] = b]
      /\ taint' = [taint EXCEPT ![s] = t]
      /\ hit' = [hit EXCEPT ![s] = FALSE]
      /\ pc' = [pc EXCEPT ![c] = p]
      /\ how' = [how EXCEPT ![c] = how[c]]
      /\ msg' = [msg EXCEPT ![c] = msg[c]]
      /\ UNCHANGED <<conn, map, cancel, slot>>
  BY Zenon, <1>1, SameUpdate DEF RollbackDone
<1> HIDE DEF v, b, t, p
<1>8. t = {} => Covers(v, b) /\ b.tx = "I" /\ b.copy = 0
  BY Zenon, <1>2, <1>3, <1>4, <1>5
<1>9. /\ p \in {"reset", "release", "drop"} /\ Stage(p, "none", v, b, t)
      /\ how[c] # "error" => p # "drop"
  BY SMTT(30), <1>2, <1>3, <1>6, <1>8, AfterRollbackStage
<1>10. p \in Holding /\ Stage(p, msg[c], v, b, t)
  BY Zenon, <1>9 DEF Stage, Holding, Waiting
<1> QED BY ZenonT(60), <1>1, <1>2, <1>3, <1>4, <1>7, <1>8, <1>9, <1>10, HolderStep

\* After the RESET of checkin_cleanup (server.rs:1340) no tracked state is left.
LEMMA ResetDoneStep ==
  ASSUME SessionInv, NEW c \in Clients, ResetDone(c)
  PROVE  SessionInv'
<1>0. pc[c] = "reset" /\ pc[c] \in Holding
  BY Zenon DEF ResetDone, Holding, Waiting
<1>1. PICK s \in Conns : conn[c] = s
  BY Zenon, <1>0, HolderConn
<1> DEFINE b == IF hit[s] THEN Fail(backend[s]) ELSE ExecReset(backend[s], server[s])
           r == Recv(server[s], backend[s], b, "RESET")
           v == ResetCleanup(r)
           t == OwnQueryTaint(s)
           p == AfterReset(how[c])
<1>2. /\ server[s] \in ServerState /\ backend[s] \in BackendState
      /\ taint[s] \in SUBSET Taints /\ hit[s] \in BOOLEAN
      /\ ~server[s].bad /\ Tracks(server[s], backend[s])
      /\ taint[s] = {} => /\ Covers(server[s], backend[s])
                          /\ backend[s].copy = 0 /\ backend[s].tx = "I"
      /\ msg[c] \in Messages \cup {"none"} /\ how[c] \in HowValues
  BY <1>0, <1>1, HolderFacts DEF Stage
<1>3. b \in BackendState
  BY Zenon, <1>2, ExecType, ExecResetClean
<1>4. taint[s] = {} /\ ~hit[s] => Clean(b)
  BY Zenon, <1>2, ExecResetClean
<1>5. t \in SUBSET Taints /\ (t = {} => taint[s] = {} /\ ~hit[s])
  BY Zenon, <1>2, OwnQuery
<1>6. p \in {"release", "drop"} /\ p \in Holding /\ (how[c] # "error" => p # "drop")
  BY Zenon DEF AfterReset, Holding, Waiting
<1>7. /\ server' = [server EXCEPT ![s] = v]
      /\ backend' = [backend EXCEPT ![s] = b]
      /\ taint' = [taint EXCEPT ![s] = t]
      /\ hit' = [hit EXCEPT ![s] = FALSE]
      /\ pc' = [pc EXCEPT ![c] = p]
      /\ how' = [how EXCEPT ![c] = how[c]]
      /\ msg' = [msg EXCEPT ![c] = msg[c]]
      /\ UNCHANGED <<conn, map, cancel, slot>>
  BY Zenon, <1>1, SameUpdate DEF ResetDone
<1> HIDE DEF b
<1>8. r \in ServerState /\ ~r.bad /\ Tracks(r, b)
  BY SMTT(30), <1>2, <1>3, RecvType, RecvTracks
<1> HIDE DEF r
<1>9. v \in ServerState /\ ~v.bad /\ Tracks(v, b)
  BY Zenon, <1>8, FlagOps DEF Tracks
<1> HIDE DEF v, t, p
<1>10. t = {} => Covers(v, b) /\ Clean(b)
  BY Zenon, <1>4, <1>5 DEF Clean, Covers
<1>11. Stage(p, msg[c], v, b, t)
  BY Zenon, <1>6, <1>9, <1>10 DEF Stage
<1> QED BY Zenon, <1>1, <1>2, <1>3, <1>5, <1>6, <1>7, <1>9, <1>10, <1>11, HolderStep

\* Client::release (client.rs:1971) removes the entry before the connection is dropped.
LEMMA ReleaseStep ==
  ASSUME SessionInv, NEW c \in Clients, Release(c)
  PROVE  SessionInv'
<1>0. pc[c] = "release" /\ pc[c] \in Holding
  BY Zenon DEF Release, Holding, Waiting
<1>1. PICK s \in Conns : conn[c] = s
  BY Zenon, <1>0, HolderConn
<1>2. /\ server[s] \in ServerState /\ backend[s] \in BackendState
      /\ taint[s] \in SUBSET Taints /\ hit[s] \in BOOLEAN
      /\ ~server[s].bad /\ Tracks(server[s], backend[s])
      /\ taint[s] = {} => Covers(server[s], backend[s])
      /\ msg[c] \in Messages \cup {"none"} /\ how[c] \in HowValues
      /\ Stage("release", msg[c], server[s], backend[s], taint[s])
  BY Zenon, <1>0, <1>1, HolderFacts
<1>3. "drop" \in Holding /\ Stage("drop", msg[c], server[s], backend[s], taint[s])
  BY Zenon, <1>2 DEF Stage, Holding, Waiting
<1>4. /\ server' = [server EXCEPT ![s] = server[s]]
      /\ backend' = [backend EXCEPT ![s] = backend[s]]
      /\ taint' = [taint EXCEPT ![s] = taint[s]]
      /\ hit' = [hit EXCEPT ![s] = hit[s]]
      /\ pc' = [pc EXCEPT ![c] = "drop"]
      /\ how' = [how EXCEPT ![c] = how[c]]
      /\ msg' = [msg EXCEPT ![c] = msg[c]]
      /\ map' = [map EXCEPT ![c] = None]
      /\ UNCHANGED <<conn, cancel, slot>>
  BY Zenon, <1>1, SameUpdate DEF Release
<1> QED BY ZenonT(60), <1>1, <1>2, <1>3, <1>4, HolderStep

-----------------------------------------------------------------------------
(* Steps that open, close, take or give back a connection.                 *)

\* A connection is closed, by its holder or while nobody holds it.
LEMMA CloseStep ==
  ASSUME SessionInv, NEW s \in Conns, CloseConn(s), TypeOK',
         \A d \in Clients : pc'[d] \in Holding <=> conn'[d] # None,
         \A d \in Clients : conn'[d] # s,
         \A d \in Clients : conn'[d] = conn[d] \/ (conn[d] = s /\ conn'[d] = None),
         \A d \in Clients : conn[d] # s => pc'[d] = pc[d] /\ msg'[d] = msg[d] /\ how'[d] = how[d]
  PROVE  SessionInv'
<1> USE DEF SessionInv
<1>1. /\ ~FreshServer.bad /\ Tracks(FreshServer, FreshBackend)
      /\ Covers(FreshServer, FreshBackend)
  BY SMTT(30) DEF FreshServer, FreshBackend, Tracks, Covers
<1>2. /\ slot' = [slot EXCEPT ![s] = "empty"]
      /\ server' = [server EXCEPT ![s] = FreshServer]
      /\ backend' = [backend EXCEPT ![s] = FreshBackend]
      /\ taint' = [taint EXCEPT ![s] = {}]
      /\ \A d \in Clients : map'[d] = IF map[d] = s THEN Closed ELSE map[d]
  BY Zenon DEF CloseConn, Forget
<1>3. HeldOnce'
  BY SMTT(30), <1>2 DEF TypeOK, HeldOnce
<1>4. Unheld'
  BY SMTT(30), <1>1, <1>2 DEF TypeOK, Unheld
<1>5. FlagsRight'
  BY SMTT(30), <1>1, <1>2 DEF TypeOK, FlagsRight
<1>6. StagesRight'
  BY SMTT(30), <1>2 DEF TypeOK, StagesRight
<1>7. IdleClean'
  BY <1>2 DEF TypeOK, IdleClean, CleanDespite
<1>8. MapSound'
  <2> HIDE DEF SessionInv
  <2> SUFFICES ASSUME NEW d \in Clients, map'[d] \in Conns
               PROVE  conn'[d] = map'[d] \/ pc'[d] = "returned"
    BY Zenon DEF MapSound
  <2>1. map'[d] = map[d] /\ map[d] # s
    BY Zenon, <1>2, ConstantsAssumption
  <2>2. conn[d] = map[d] \/ pc[d] = "returned"
    BY Zenon, <2>1 DEF SessionInv, MapSound
  <2>3. pc[d] = "returned" => conn[d] # s
    BY ZenonT(60), ConstantsAssumption DEF SessionInv, HeldOnce, Holding, Waiting
  <2> QED BY Zenon, <2>1, <2>2, <2>3
<1>9. ReleasedFirst'
  <2> SUFFICES ASSUME NEW d \in Clients, pc'[d] = "drop", how'[d] = "loop"
               PROVE  map'[d] \notin Conns
    BY Zenon DEF ReleasedFirst
  <2>1. conn[d] # s
    BY Zenon, ConstantsAssumption DEF Holding, Waiting
  <2> QED BY Zenon, <1>2, <2>1, ConstantsAssumption DEF ReleasedFirst
<1> QED BY Zenon, <1>3, <1>4, <1>5, <1>6, <1>7, <1>8, <1>9

\* CloseConn keeps the types of what it changes.
LEMMA CloseTypes ==
  ASSUME SessionInv, NEW s \in Conns, CloseConn(s)
  PROVE  /\ slot' \in [Conns -> {"empty", "idle", "held"}]
         /\ server' \in [Conns -> ServerState]
         /\ backend' \in [Conns -> BackendState]
         /\ hit' \in [Conns -> BOOLEAN]
         /\ taint' \in [Conns -> SUBSET {"abort", "cancel", "copy"}]
         /\ map' \in [Clients -> Conns \cup {None, Closed}]
         /\ cancel' \in [Clients -> Conns \cup {None, Closed}]
<1>inv. /\ TypeOK /\ HeldOnce /\ Unheld /\ FlagsRight /\ StagesRight /\ IdleClean
        /\ ReleasedFirst /\ MapSound
  BY Zenon, InvParts
<1>1. FreshServer \in ServerState /\ FreshBackend \in BackendState
  BY DEF FreshServer, FreshBackend, ServerState, BackendState
<1> QED BY Zenon, <1>inv, <1>1 DEF TypeOK, CloseConn, Forget

\* bb8 closes an idle connection.
LEMMA ReapConnStep ==
  ASSUME SessionInv, NEW s \in Conns, ReapConn(s)
  PROVE  SessionInv'
<1>inv. /\ TypeOK /\ HeldOnce /\ Unheld /\ FlagsRight /\ StagesRight /\ IdleClean
        /\ ReleasedFirst /\ MapSound
  BY Zenon, InvParts
<1>1. CloseConn(s) /\ UNCHANGED <<pc, msg, how, conn>> /\ slot[s] = "idle"
  BY Zenon DEF ReapConn, taskVars
<1>2. TypeOK'
  BY Zenon, <1>inv, <1>1, CloseTypes DEF TypeOK
<1>3. \A d \in Clients : conn[d] # s /\ (pc[d] \in Holding <=> conn[d] # None)
  BY Zenon, <1>inv, <1>1, ConstantsAssumption DEF HeldOnce
<1> QED BY Zenon, <1>1, <1>2, <1>3, CloseStep

\* The holder closes its connection.
LEMMA HolderCloseStep ==
  ASSUME SessionInv, NEW c \in Clients, NEW s \in Conns, conn[c] = s, CloseConn(s),
         NEW p \in {"idle", "returned"}, NEW h \in HowValues,
         NEW m \in Messages \cup {"none"},
         pc' = [pc EXCEPT ![c] = p], how' = [how EXCEPT ![c] = h],
         msg' = [msg EXCEPT ![c] = m], conn' = [conn EXCEPT ![c] = None]
  PROVE  SessionInv'
<1>inv. /\ TypeOK /\ HeldOnce /\ Unheld /\ FlagsRight /\ StagesRight /\ IdleClean
        /\ ReleasedFirst /\ MapSound
  BY Zenon, InvParts
<1>1. TypeOK'
  BY Zenon, <1>inv, CloseTypes DEF TypeOK, HowValues, PcValues
<1>2. s # None /\ \A d \in Clients : d # c => conn[d] # s
  BY Zenon, <1>inv, ConstantsAssumption DEF HeldOnce
<1>3. \A d \in Clients : pc'[d] \in Holding <=> conn'[d] # None
  BY <1>inv DEF TypeOK, HeldOnce, Holding, Waiting
<1>4. \A d \in Clients : /\ conn'[d] # s
                         /\ conn'[d] = conn[d] \/ (conn[d] = s /\ conn'[d] = None)
                         /\ conn[d] # s => /\ pc'[d] = pc[d] /\ msg'[d] = msg[d]
                                           /\ how'[d] = how[d]
  BY Zenon, <1>inv, <1>2 DEF TypeOK
<1> QED BY SMTT(30), <1>1, <1>3, <1>4, CloseStep

\* A failed health check (pool.rs:899) closes the connection.
LEMMA HealthCheckFailedStep ==
  ASSUME SessionInv, NEW c \in Clients, HealthCheckFailed(c)
  PROVE  SessionInv'
<1>0. pc[c] \in Holding
  BY Zenon DEF HealthCheckFailed, Holding, Waiting
<1>1. PICK s \in Conns : conn[c] = s
  BY Zenon, <1>0, HolderConn
<1>2. PICK p \in {"idle", "returned"} :
        /\ pc' = [pc EXCEPT ![c] = p]
        /\ how' = [how EXCEPT ![c] = IF p = "returned" THEN "error" ELSE "none"]
  BY Zenon DEF HealthCheckFailed, FailCheckout
<1>3. /\ msg' = [msg EXCEPT ![c] = "none"] /\ conn' = [conn EXCEPT ![c] = None]
      /\ CloseConn(s)
  BY Zenon, <1>1 DEF HealthCheckFailed, FailCheckout
<1>4. PICK h \in HowValues : how' = [how EXCEPT ![c] = h]
  BY Zenon, <1>2 DEF HowValues
<1> QED BY Zenon, <1>1, <1>2, <1>3, <1>4, HolderCloseStep

\* bb8 takes a connection back, which is clean unless tainted, or closes it (pool.rs:1238).
LEMMA DropConnStep ==
  ASSUME SessionInv, NEW c \in Clients, DropConn(c)
  PROVE  SessionInv'
<1>inv. /\ TypeOK /\ HeldOnce /\ Unheld /\ FlagsRight /\ StagesRight /\ IdleClean
        /\ ReleasedFirst /\ MapSound
  BY Zenon, InvParts
<1>0. pc[c] = "drop" /\ pc[c] \in Holding
  BY Zenon DEF DropConn, Holding, Waiting
<1>1. PICK s \in Conns : conn[c] = s
  BY Zenon, <1>0, HolderConn
<1>2. PICK p \in {"idle", "returned"} : pc' = [pc EXCEPT ![c] = p]
  BY Zenon DEF DropConn
<1>3. PICK h \in HowValues : how' = [how EXCEPT ![c] = h]
  BY Zenon, <1>1, HolderFacts DEF DropConn, HowValues
<1>4. /\ msg' = [msg EXCEPT ![c] = msg[c]] /\ conn' = [conn EXCEPT ![c] = None]
      /\ msg[c] \in Messages \cup {"none"}
  BY Zenon, <1>1, SameUpdate, HolderFacts DEF DropConn
<1>5. CASE CloseConn(s)
  BY Zenon, <1>1, <1>2, <1>3, <1>4, <1>5, HolderCloseStep
<1>6. CASE /\ ~server[s].bad
           /\ slot' = [slot EXCEPT ![s] = "idle"]
           /\ UNCHANGED <<map, cancel, server, backend, hit, taint>>
  <2>0. s # None /\ \A d \in Clients : d # c => conn[d] # s
    BY Zenon, <1>inv, <1>1, ConstantsAssumption DEF HeldOnce
  <2>1. TypeOK'
    BY Zenon, <1>inv, <1>2, <1>3, <1>4, <1>6 DEF TypeOK, HowValues, PcValues
  <2>9. /\ pc'[c] = p /\ conn'[c] = None /\ p \notin Holding
        /\ \A d \in Clients : d # c => pc'[d] = pc[d] /\ conn'[d] = conn[d]
        /\ \A x \in Conns : x # s => slot'[x] = slot[x]
        /\ \A d \in Clients : conn[d] \in Conns \cup {None}
    BY ZenonT(60), <1>inv, <1>2, <1>4, <1>6 DEF TypeOK, Holding, Waiting
  <2>2. HeldOnce'
    BY SMTT(30), <1>inv, <2>0, <2>9 DEF HeldOnce
  <2>3. Unheld'
    BY ZenonT(60), <1>inv, <1>6 DEF TypeOK, Unheld
  <2>4. FlagsRight'
    BY Zenon, <1>inv, <1>6 DEF FlagsRight
  <2>5. StagesRight'
    BY Zenon, <1>inv, <1>2, <1>4, <1>6 DEF TypeOK, StagesRight
  <2>6. IdleClean'
    <3>1. taint[s] = {} => Clean(backend[s])
      BY Zenon, <1>0, <1>1, <1>6, HolderFacts DEF Stage
    <3> QED BY ZenonT(60), <1>inv, <1>6, <3>1 DEF TypeOK, IdleClean, CleanDespite
  <2>7. MapSound'
    <3>1. how[c] = "loop" => map[c] \notin Conns
      BY Zenon, <1>inv, <1>0 DEF ReleasedFirst
    <3>2. how[c] # "loop" => p = "returned"
      BY Zenon, <1>inv, <1>2 DEF DropConn, TypeOK
    <3> QED BY ZenonT(60), <1>inv, <1>1, <1>2, <1>4, <1>6, <3>1, <3>2 DEF TypeOK, MapSound
  <2>8. ReleasedFirst'
    BY Zenon, <1>inv, <1>2, <1>3, <1>6 DEF TypeOK, ReleasedFirst
  <2> QED BY Zenon, InvNext, <2>1, <2>2, <2>3, <2>4, <2>5, <2>6, <2>7, <2>8
<1> QED BY Zenon, <1>1, <1>5, <1>6 DEF DropConn

\* A new connection (pool.rs:1185) is clean.
LEMMA OpenConnStep ==
  ASSUME SessionInv, NEW s \in Conns, OpenConn(s)
  PROVE  SessionInv'
<1>inv. /\ TypeOK /\ HeldOnce /\ Unheld /\ FlagsRight /\ StagesRight /\ IdleClean
        /\ ReleasedFirst /\ MapSound
  BY Zenon, InvParts
<1>1. /\ slot' = [slot EXCEPT ![s] = "idle"] /\ slot[s] = "empty"
      /\ UNCHANGED <<pc, msg, how, conn, map, cancel, server, backend, hit, taint>>
  BY Zenon DEF OpenConn, taskVars
<1>2. ~server[s].bad /\ backend[s] = FreshBackend
  BY Zenon, <1>inv, <1>1 DEF Unheld
<1>3. Clean(FreshBackend)
  BY Zenon DEF FreshBackend, Clean
<1>4. TypeOK'
  BY Zenon, <1>inv, <1>1 DEF TypeOK
<1>5. HeldOnce'
  BY ZenonT(60), <1>inv, <1>1, ConstantsAssumption DEF TypeOK, HeldOnce
<1>6. Unheld'
  BY ZenonT(60), <1>inv, <1>1, <1>2 DEF TypeOK, Unheld
<1>7. FlagsRight' /\ StagesRight' /\ ReleasedFirst' /\ MapSound'
  BY Zenon, <1>inv, <1>1 DEF FlagsRight, StagesRight, ReleasedFirst, MapSound
<1>8. IdleClean'
  BY ZenonT(60), <1>inv, <1>1, <1>2, <1>3 DEF TypeOK, IdleClean, CleanDespite
<1> QED BY Zenon, <1>inv, InvNext, <1>4, <1>5, <1>6, <1>7, <1>8

\* A checkout (pool.rs:787) hands out a connection that nobody holds.
LEMMA CheckoutStep ==
  ASSUME SessionInv, NEW c \in Clients, NEW s \in Conns, Checkout(c, s)
  PROVE  SessionInv'
<1>inv. /\ TypeOK /\ HeldOnce /\ Unheld /\ FlagsRight /\ StagesRight /\ IdleClean
        /\ ReleasedFirst /\ MapSound
  BY Zenon, InvParts
<1>1. /\ slot' = [slot EXCEPT ![s] = "held"] /\ slot[s] = "idle"
      /\ conn' = [conn EXCEPT ![c] = s] /\ pc[c] = "checkout"
      /\ UNCHANGED <<msg, how, cancel, server, backend, hit, taint>>
  BY Zenon DEF Checkout
<1>2. PICK p \in {"health", "sync", "send"} : pc' = [pc EXCEPT ![c] = p]
  BY Zenon DEF Checkout, Claim
<1>3. map' = map \/ map' = [map EXCEPT ![c] = s]
  BY Zenon DEF Checkout, Claim
<1>4. /\ conn[c] = None /\ s # None /\ \A d \in Clients : conn[d] # s
      /\ ~server[s].bad /\ (taint[s] = {} => Clean(backend[s]))
  <2>1. conn[c] = None /\ s # None /\ \A d \in Clients : conn[d] # s
    BY ZenonT(60), <1>inv, <1>1, ConstantsAssumption DEF HeldOnce, Holding, Waiting
  <2>2. ~server[s].bad /\ (taint[s] = {} => Clean(backend[s]))
    BY Zenon, <1>inv, <1>1 DEF Unheld, IdleClean, CleanDespite
  <2> QED BY Zenon, <2>1, <2>2
<1>5. TypeOK'
  <2>1. p \in PcValues
    BY Zenon, <1>2 DEF PcValues, Holding, Waiting
  <2> QED BY SMTT(30), <1>inv, <1>1, <1>2, <1>3, <2>1 DEF TypeOK
<1>12. /\ pc'[c] = p /\ conn'[c] = s /\ slot'[s] = "held" /\ p \in Holding
       /\ \A d \in Clients : d # c => pc'[d] = pc[d] /\ conn'[d] = conn[d]
       /\ \A x \in Conns : x # s => slot'[x] = slot[x]
       /\ \A d \in Clients : conn[d] \in Conns \cup {None}
  BY ZenonT(60), <1>inv, <1>1, <1>2 DEF TypeOK, Holding, Waiting
<1>6. HeldOnce'
  BY SMTT(30), <1>inv, <1>4, <1>12 DEF HeldOnce
<1>7. Unheld' /\ FlagsRight'
  BY ZenonT(60), <1>inv, <1>1 DEF TypeOK, Unheld, FlagsRight
<1>8. StagesRight'
  <2> SUFFICES ASSUME NEW d \in Clients, conn'[d] # None
               PROVE  Stage(pc'[d], msg[d], server[conn'[d]], backend[conn'[d]],
                            taint[conn'[d]])
    BY Zenon, <1>1 DEF StagesRight
  <2>1. CASE d = c
    <3>1. Stage(p, msg[c], server[s], backend[s], taint[s])
      BY Zenon, <1>2, <1>4 DEF Stage
    <3> QED BY Zenon, <1>inv, <1>1, <1>2, <2>1, <3>1 DEF TypeOK
  <2>2. CASE d # c
    BY Zenon, <1>inv, <1>1, <1>2, <2>2 DEF TypeOK, StagesRight
  <2> QED BY Zenon, <2>1, <2>2
<1>9. IdleClean'
  BY Zenon, <1>inv, <1>1 DEF TypeOK, IdleClean, CleanDespite
<1>10. ReleasedFirst'
  BY ZenonT(60), <1>inv, <1>1, <1>2, <1>3 DEF TypeOK, ReleasedFirst
<1>11. MapSound'
  BY SMTT(30), <1>inv, <1>1, <1>2, <1>3, <1>4, ConstantsAssumption DEF TypeOK, MapSound
<1> QED BY Zenon, <1>inv, InvNext, <1>5, <1>6, <1>7, <1>8, <1>9, <1>10, <1>11

\* Tasks without a connection.
LEMMA FreeSteps ==
  ASSUME SessionInv, NEW c \in Clients,
         \/ \E k \in Messages : StartQuery(c, k)
         \/ LeaveIdle(c) \/ CheckoutFailed(c) \/ DropClient(c)
  PROVE  SessionInv'
<1>inv. /\ TypeOK /\ HeldOnce /\ Unheld /\ FlagsRight /\ StagesRight /\ IdleClean
        /\ ReleasedFirst /\ MapSound
  BY Zenon, InvParts
<1>1. conn[c] = None
  BY Zenon, <1>inv DEF StartQuery, LeaveIdle, CheckoutFailed, DropClient, HeldOnce,
         Holding, Waiting
<1>2. UNCHANGED <<conn, cancel, slot, server, backend, hit, taint>>
  BY Zenon DEF StartQuery, LeaveIdle, CheckoutFailed, DropClient, FailCheckout
<1>3. PICK p \in {"idle", "checkout", "returned", "gone"} : pc' = [pc EXCEPT ![c] = p]
  BY Zenon DEF StartQuery, LeaveIdle, CheckoutFailed, DropClient, FailCheckout
<1>4. \E m \in Messages \cup {"none"} : msg' = [msg EXCEPT ![c] = m]
  <2>1. msg[c] \in Messages \cup {"none"} /\ msg = [msg EXCEPT ![c] = msg[c]]
    BY Zenon, <1>inv DEF TypeOK
  <2> QED BY Zenon, <2>1 DEF StartQuery, LeaveIdle, CheckoutFailed, DropClient, FailCheckout
<1>5. \E h \in HowValues : how' = [how EXCEPT ![c] = h]
  BY SMTT(30), <1>inv DEF StartQuery, LeaveIdle, CheckoutFailed, DropClient, FailCheckout, TypeOK, HowValues
<1>6. \/ map' = map /\ pc[c] # "returned"
      \/ map' = [map EXCEPT ![c] = None]
  BY Zenon DEF StartQuery, LeaveIdle, CheckoutFailed, DropClient, FailCheckout
<1> QED BY Zenon, <1>1, <1>2, <1>3, <1>4, <1>5, <1>6, FreeStep

\* Cancel requests touch neither connections nor flags; they can only make a
\* running query fail and drop an entry of the map.
LEMMA CancelSteps ==
  ASSUME SessionInv, NEW c \in Clients,
         CancelLookup(c) \/ CancelSend(c) \/ CancelDrop(c)
  PROVE  SessionInv'
<1>inv. /\ TypeOK /\ HeldOnce /\ Unheld /\ FlagsRight /\ StagesRight /\ IdleClean
        /\ ReleasedFirst /\ MapSound
  BY Zenon, InvParts
<1>1. UNCHANGED <<pc, msg, how, conn, slot, server, backend, taint>>
  BY Zenon DEF CancelLookup, CancelSend, CancelDrop, taskVars
<1>2. map' = map \/ map' = [map EXCEPT ![c] = None]
  BY Zenon DEF CancelLookup, CancelSend, CancelDrop
<1>3. hit' \in [Conns -> BOOLEAN]
  BY Zenon, <1>inv DEF CancelLookup, CancelSend, CancelDrop, TypeOK
<1>4. cancel' \in [Clients -> Conns \cup {None, Closed}]
  <2>1. /\ map \in [Clients -> Conns \cup {None, Closed}]
        /\ cancel \in [Clients -> Conns \cup {None, Closed}]
    BY Zenon, <1>inv DEF TypeOK
  <2> QED BY Zenon, <2>1 DEF CancelLookup, CancelSend, CancelDrop
<1>5. TypeOK'
  BY ZenonT(60), <1>inv, <1>1, <1>2, <1>3, <1>4 DEF TypeOK
<1>6. HeldOnce' /\ Unheld' /\ FlagsRight' /\ StagesRight'
  BY Zenon, <1>inv, <1>1 DEF HeldOnce, Unheld, FlagsRight, StagesRight
<1>7. IdleClean'
  BY Zenon, <1>inv, <1>1 DEF IdleClean, CleanDespite
<1>8. ReleasedFirst' /\ MapSound'
  BY <1>inv, <1>1, <1>2, ConstantsAssumption DEF TypeOK, ReleasedFirst, MapSound
<1> QED BY Zenon, <1>inv, InvNext, <1>5, <1>6, <1>7, <1>8

\* Init establishes the inductive invariant.
LEMMA InitInv ==
  Init => SessionInv
<1> SUFFICES ASSUME Init PROVE SessionInv
  BY Zenon
<1>1. /\ FreshServer \in ServerState /\ FreshBackend \in BackendState
      /\ ~FreshServer.bad /\ Tracks(FreshServer, FreshBackend)
      /\ Covers(FreshServer, FreshBackend)
  BY DEF FreshServer, FreshBackend, ServerState, BackendState, Tracks, Covers
<1>2. TypeOK
  BY Zenon, <1>1 DEF Init, TypeOK, PcValues
<1>3. HeldOnce /\ StagesRight /\ ReleasedFirst
  BY Zenon DEF Init, HeldOnce, StagesRight, ReleasedFirst, Holding, Waiting
<1>4. Unheld /\ FlagsRight
  BY Zenon, <1>1 DEF Init, Unheld, FlagsRight
<1>5. IdleClean /\ MapSound
  BY Zenon, ConstantsAssumption DEF Init, IdleClean, CleanDespite, MapSound
<1> QED BY Zenon, <1>2, <1>3, <1>4, <1>5 DEF SessionInv

\* Every step of every task, of bb8 and of a cancel request preserves the
\* invariant.
LEMMA NextInv ==
  SessionInv /\ [Next]_vars => SessionInv'
<1> SUFFICES ASSUME SessionInv, [Next]_vars PROVE SessionInv'
  BY Zenon
<1>1. CASE UNCHANGED vars
  BY ZenonT(60), <1>1 DEF vars, SessionInv, TypeOK, HeldOnce, Unheld, FlagsRight, StagesRight,
              IdleClean, CleanDespite, ReleasedFirst, MapSound
<1>2. ASSUME NEW s \in Conns, OpenConn(s) \/ ReapConn(s)
      PROVE  SessionInv'
  BY Zenon, <1>2, OpenConnStep, ReapConnStep
<1>3. ASSUME NEW c \in Clients, NEW k \in Messages, StartQuery(c, k) \/ SendQuery(c, k)
      PROVE  SessionInv'
  BY Zenon, <1>3, FreeSteps, SendQueryStep
<1>4. ASSUME NEW c \in Clients, NEW s \in Conns, Checkout(c, s)
      PROVE  SessionInv'
  BY Zenon, <1>4, CheckoutStep
<1>5. ASSUME NEW c \in Clients, NEW h \in {"exit", "error", "loop"}, EndTransaction(c, h)
      PROVE  SessionInv'
  BY Zenon, <1>5, EndTransactionStep
<1>6. ASSUME NEW c \in Clients, LeaveIdle(c) \/ CheckoutFailed(c)
      PROVE  SessionInv'
  BY Zenon, <1>6, FreeSteps
<1>7. ASSUME NEW c \in Clients,
             HealthCheckOk(c) \/ HealthCheckFailed(c) \/ SyncParameters(c)
      PROVE  SessionInv'
  BY Zenon, <1>7, HealthCheckOkStep, HealthCheckFailedStep, SyncParametersStep
<1>8. ASSUME NEW c \in Clients,
             \/ ReceiveAnswer(c) \/ ForwardFails(c) \/ SyncOnly(c)
             \/ PluginAnswers(c) \/ AbortTransaction(c) \/ ConnectionError(c)
      PROVE  SessionInv'
  BY Zenon, <1>8, ReceiveAnswerStep, ForwardFailsStep, SyncOnlyStep, PluginAnswersStep, AbortTransactionStep
<1>9. ASSUME NEW c \in Clients, CheckinStep(c)
      PROVE  SessionInv'
  BY Zenon, <1>9, RollbackDoneStep, ResetDoneStep, ReleaseStep, DropConnStep, FreeSteps
     DEF CheckinStep
<1>10. ASSUME NEW c \in Clients, CancelLookup(c) \/ CancelSend(c) \/ CancelDrop(c)
       PROVE  SessionInv'
  BY Zenon, <1>10, CancelSteps
<1> QED BY Zenon, <1>1, <1>2, <1>3, <1>4, <1>5, <1>6, <1>7, <1>8, <1>9, <1>10 DEF Next

\* pgcat's flags stay right and its tasks keep their connections apart, for
\* any number of clients and connections (server.rs:905, client.rs:830).
THEOREM SessionInvariant ==
  Spec => []SessionInv
<1> QED BY InitInv, NextInv, PTL DEF Spec

\* No connection is offered to a new client with the transaction, the COPY or
\* the tracked session state of an earlier one, except after the three events
\* recorded in taint (checkin_cleanup, server.rs:1324).
THEOREM IdleConnectionsClean ==
  Spec => []IdleClean
<1>1. SessionInv => IdleClean
  BY Zenon DEF SessionInv
<1> QED BY <1>1, SessionInvariant, PTL

\* A client is never mapped to a server that is not, or was not last, its own
\* (claim, release and Drop; server.rs:1288, client.rs:1971, 2089).
THEOREM MapIsSound ==
  Spec => []MapSound
<1>1. SessionInv => MapSound
  BY Zenon DEF SessionInv
<1> QED BY <1>1, SessionInvariant, PTL
-----------------------------------------------------------------------------
(* The connection is kept until COPY and transaction are over.             *)

LEMMA AnsweredOneCopy ==
  ASSUME NEW s \in Conns, backend[s] \in BackendState, OneCopy(backend[s]),
         NEW k, k # "copytwice"
  PROVE  OneCopy(Executed(s, k)) /\ (k = "copydone" => Executed(s, k).copy = 0)
<1>1. /\ Effective(s, k) # "copytwice"
      /\ k = "copydone" => Effective(s, k) \in {"copydone", "fail"}
  BY Zenon DEF Effective
<1> HIDE DEF Effective
<1> QED BY Zenon, <1>1, ExecOneCopy DEF Executed

\* What a step does to the messages and the sessions, as far as COPY is concerned.
LEMMA CopyFrame ==
  ASSUME CopyInv, TypeOK,
         \/ UNCHANGED msg
         \/ \E c \in Clients : \E k : k # "copytwice" /\ msg' = [msg EXCEPT ![c] = k],
         \/ UNCHANGED backend
         \/ \E s \in Conns : \E b : OneCopy(b) /\ backend' = [backend EXCEPT ![s] = b]
  PROVE  CopyInv'
<1>0. msg \in [Clients -> Messages \cup {"none"}] /\ backend \in [Conns -> BackendState]
  BY Zenon DEF TypeOK
<1>1. \A c \in Clients : msg'[c] # "copytwice"
  BY Zenon, <1>0 DEF CopyInv
<1>2. \A s \in Conns : OneCopy(backend'[s])
  BY Zenon, <1>0 DEF CopyInv
<1> QED BY Zenon, <1>1, <1>2 DEF CopyInv, OneCopy

\* A task's own queries, the answer to its client's, and the end of a connection.
LEMMA CopyAnswer ==
  ASSUME SessionInv, CopyInv, NEW c \in Clients, pc[c] \in Holding,
         NEW b, b = FreshBackend \/ b = Fail(backend[conn[c]])
                \/ b = ExecReset(backend[conn[c]], server[conn[c]])
                \/ \E k : k # "copytwice" /\ b = Executed(conn[c], k),
         backend' = [backend EXCEPT ![conn[c]] = b],
         UNCHANGED msg \/ msg' = [msg EXCEPT ![c] = "none"]
  PROVE  CopyInv'
<1>1. PICK s \in Conns : conn[c] = s
  BY Zenon, HolderConn
<1>2. backend[s] \in BackendState /\ OneCopy(backend[s])
  BY Zenon, <1>1, HolderFacts DEF CopyInv
<1>3. OneCopy(b)
  BY ZenonT(60), <1>1, <1>2, ResetOneCopy, AnsweredOneCopy
<1>4. "none" # "copytwice" /\ TypeOK
  BY Zenon, InvParts
<1> QED BY Zenon, <1>1, <1>3, <1>4, CopyFrame

LEMMA CopyNext ==
  ASSUME SingleCopies, SessionInv, CopyInv, [Next]_vars
  PROVE  CopyInv'
<1>0. TypeOK /\ "none" # "copytwice"
  BY Zenon, InvParts
<1>1. ASSUME UNCHANGED backend,
             \/ UNCHANGED msg
             \/ \E c \in Clients : \E k : k # "copytwice" /\ msg' = [msg EXCEPT ![c] = k]
      PROVE  CopyInv'
  BY Zenon, <1>0, <1>1, CopyFrame
<1>2. CASE UNCHANGED vars
  BY Zenon, <1>1, <1>2 DEF vars
<1>3. ASSUME NEW s \in Conns, OpenConn(s) \/ ReapConn(s) PROVE CopyInv'
  <2>1. CASE OpenConn(s)
    BY Zenon, <1>1, <2>1 DEF OpenConn, taskVars
  <2>2. CASE ReapConn(s)
    <3>1. OneCopy(FreshBackend)
      BY Zenon, <1>0, ResetOneCopy DEF TypeOK, CopyInv
    <3> QED BY Zenon, <1>0, <2>2, <3>1, CopyFrame DEF ReapConn, CloseConn, taskVars
  <2> QED BY Zenon, <1>3, <2>1, <2>2
<1>4. ASSUME NEW c \in Clients, NEW k \in Messages, StartQuery(c, k) \/ SendQuery(c, k)
      PROVE  CopyInv'
  <2>1. k # "copytwice"
    BY Zenon, <1>4 DEF StartQuery, SendQuery, Reads, SingleCopies, CopyInv
  <2> QED BY Zenon, <1>1, <1>4, <2>1 DEF StartQuery, SendQuery
<1>5. ASSUME NEW c \in Clients,
             \/ \E s \in Conns : Checkout(c, s)
             \/ \E h \in {"exit", "error", "loop"} : EndTransaction(c, h)
             \/ LeaveIdle(c) \/ Release(c) \/ DropClient(c)
             \/ CancelLookup(c) \/ CancelSend(c) \/ CancelDrop(c)
      PROVE  CopyInv'
  BY Zenon, <1>1, <1>5 DEF Checkout, EndTransaction, LeaveIdle, Release, DropClient,
     CancelLookup, CancelSend, CancelDrop, taskVars
<1>6. ASSUME NEW c \in Clients,
             \/ CheckoutFailed(c) \/ ForwardFails(c) \/ SyncOnly(c) \/ PluginAnswers(c)
             \/ AbortTransaction(c) \/ ConnectionError(c)
      PROVE  CopyInv'
  <2>1. msg' = [msg EXCEPT ![c] = "none"] /\ UNCHANGED backend
    BY Zenon, <1>6 DEF CheckoutFailed, FailCheckout, ForwardFails, SyncOnly, PluginAnswers,
       AbortTransaction, ConnectionError, EndIteration, ReturnErr
  <2> QED BY Zenon, <1>0, <1>1, <2>1
<1>7. ASSUME NEW c \in Clients,
             HealthCheckOk(c) \/ SyncParameters(c) \/ RollbackDone(c) \/ ReceiveAnswer(c)
      PROVE  CopyInv'
  <2>1. /\ pc[c] \in Holding
        /\ \E k : k # "copytwice" /\ backend' = [backend EXCEPT ![conn[c]] = Executed(conn[c], k)]
        /\ UNCHANGED msg \/ msg' = [msg EXCEPT ![c] = "none"]
    <3>1. "health_check" # "copytwice" /\ "set_parameters" # "copytwice" /\ "rollback" # "copytwice"
      BY Zenon
    <3>2. msg[c] # "copytwice"
      BY Zenon DEF CopyInv
    <3> QED BY Zenon, <1>7, <3>1, <3>2 DEF HealthCheckOk, SyncParameters, RollbackDone,
               ReceiveAnswer, EndIteration, Holding, Waiting
  <2> QED BY Zenon, <2>1, CopyAnswer
<1>8. ASSUME NEW c \in Clients, ResetDone(c) PROVE CopyInv'
  <2>1. /\ pc[c] \in Holding /\ UNCHANGED msg
        /\ \/ backend' = [backend EXCEPT ![conn[c]] = Fail(backend[conn[c]])]
           \/ backend' = [backend EXCEPT ![conn[c]] = ExecReset(backend[conn[c]], server[conn[c]])]
    BY Zenon, <1>8 DEF ResetDone, Holding, Waiting
  <2> QED BY Zenon, <2>1, CopyAnswer
<1>9. ASSUME NEW c \in Clients, HealthCheckFailed(c) \/ DropConn(c) PROVE CopyInv'
  <2>1. /\ pc[c] \in Holding
        /\ UNCHANGED msg \/ msg' = [msg EXCEPT ![c] = "none"]
        /\ UNCHANGED backend \/ backend' = [backend EXCEPT ![conn[c]] = FreshBackend]
    BY Zenon, <1>9 DEF HealthCheckFailed, FailCheckout, DropConn, CloseConn, Holding, Waiting
  <2>2. CASE UNCHANGED backend
    BY Zenon, <1>0, <1>1, <2>1, <2>2
  <2>3. CASE backend' = [backend EXCEPT ![conn[c]] = FreshBackend]
    BY Zenon, <2>1, <2>3, CopyAnswer
  <2> QED BY Zenon, <2>1, <2>2, <2>3
<1> QED BY Zenon, <1>2, <1>3, <1>4, <1>5, <1>6, <1>7, <1>8, <1>9 DEF Next, CheckinStep

\* Only the answer to a client's message takes a task from "recv" to check-in.
LEMMA LeavesRecv ==
  ASSUME TypeOK, Next, NEW c \in Clients, pc[c] = "recv",
         pc'[c] \in {"rollback", "reset", "release"}
  PROVE  ReceiveAnswer(c)
<1>0. pc \in [Clients -> PcValues]
  BY Zenon DEF TypeOK
<1>1. ASSUME UNCHANGED pc PROVE FALSE
  BY Zenon, <1>1
<1>2. ASSUME NEW d \in Clients, NEW p, pc' = [pc EXCEPT ![d] = p], pc[d] # "recv" \/ p = "drop"
      PROVE  FALSE
  BY Zenon, <1>0, <1>2
<1>3. ASSUME NEW s \in Conns, OpenConn(s) \/ ReapConn(s) PROVE FALSE
  BY Zenon, <1>1, <1>3 DEF OpenConn, ReapConn, taskVars
<1>4. ASSUME NEW d \in Clients, CancelLookup(d) \/ CancelSend(d) \/ CancelDrop(d) PROVE FALSE
  BY Zenon, <1>1, <1>4 DEF CancelLookup, CancelSend, CancelDrop, taskVars
<1>5. ASSUME NEW d \in Clients,
             \/ \E k \in Messages : StartQuery(d, k) \/ SendQuery(d, k)
             \/ \E s \in Conns : Checkout(d, s)
             \/ \E h \in {"exit", "error", "loop"} : EndTransaction(d, h)
             \/ LeaveIdle(d) \/ CheckoutFailed(d)
      PROVE  FALSE
  BY Zenon, <1>2, <1>5 DEF StartQuery, SendQuery, Reads, Checkout, Claim, EndTransaction,
     LeaveIdle, CheckoutFailed, FailCheckout
<1>6. ASSUME NEW d \in Clients,
             HealthCheckOk(d) \/ HealthCheckFailed(d) \/ SyncParameters(d) \/ CheckinStep(d)
      PROVE  FALSE
  BY Zenon, <1>2, <1>6 DEF HealthCheckOk, HealthCheckFailed, SyncParameters, Claim, FailCheckout,
     CheckinStep, RollbackDone, ResetDone, Release, DropConn, DropClient
<1>7. ASSUME NEW d \in Clients,
             \/ ForwardFails(d) \/ SyncOnly(d) \/ PluginAnswers(d)
             \/ AbortTransaction(d) \/ ConnectionError(d)
      PROVE  FALSE
  BY Zenon, <1>2, <1>7 DEF ForwardFails, SyncOnly, PluginAnswers, AbortTransaction,
     ConnectionError, Reads, EndIteration, ReturnErr
<1>8. ASSUME NEW d \in Clients, ReceiveAnswer(d) PROVE d = c
  BY Zenon, <1>0, <1>8 DEF ReceiveAnswer, EndIteration
<1> QED BY Zenon, <1>3, <1>4, <1>5, <1>6, <1>7, <1>8 DEF Next

\* In transaction mode a client gives up its connection only when its transaction and
\* its COPY are over, if no Query asks for two COPY FROM STDIN (KeptUntilOver; the
\* breaks of the transaction loop, client.rs:1166, 1568).
THEOREM KeptTillOver ==
  SingleCopies => (Spec => KeptUntilOver)
<1> SUFFICES ASSUME SingleCopies PROVE Spec => KeptUntilOver
  OBVIOUS
<1> DEFINE Kept == \A c \in Clients :
                     pc[c] = "recv" /\ pc'[c] \in {"rollback", "reset", "release"} =>
                       backend'[conn[c]].tx = "I" /\ backend'[conn[c]].copy = 0
<1>1. Init => CopyInv
  BY DEF Init, CopyInv, OneCopy, FreshBackend
<1>2. SessionInv /\ CopyInv /\ [Next]_vars => CopyInv'
  BY Zenon, CopyNext
<1>3. SessionInv /\ CopyInv /\ [Next]_vars => [Kept]_vars
  <2> SUFFICES ASSUME SessionInv, CopyInv, Next, NEW c \in Clients, pc[c] = "recv",
                      pc'[c] \in {"rollback", "reset", "release"}
               PROVE  backend'[conn[c]].tx = "I" /\ backend'[conn[c]].copy = 0
    BY Zenon
  <2>1. ReceiveAnswer(c) /\ pc[c] \in Holding /\ TypeOK
    BY Zenon, LeavesRecv, InvParts DEF Holding, Waiting
  <2>2. PICK s \in Conns : conn[c] = s
    BY Zenon, <2>1, HolderConn
  <2> DEFINE b == Executed(s, msg[c])
             v == Received(s, msg[c])
  <2>3. backend'[s] = b /\ Breaks(v, msg[c])
    <3>1. pc'[c] = (IF Breaks(v, msg[c]) THEN checkin_cleanup(v, "loop") ELSE "txread")
      BY Zenon, <2>1, <2>2 DEF ReceiveAnswer, EndIteration, TypeOK
    <3>2. backend'[s] = b
      BY Zenon, <2>1, <2>2 DEF ReceiveAnswer, TypeOK
    <3> QED BY Zenon, <3>1, <3>2
  <2>4. /\ server[s] \in ServerState /\ backend[s] \in BackendState /\ hit[s] \in BOOLEAN
        /\ ~server[s].bad /\ Tracks(server[s], backend[s])
        /\ msg[c] = "parse_named" => server[s].needs_cleanup_prepare
    BY ZenonT(60), <2>2, HolderFacts DEF Stage
  <2>5. Tracks(v, b) /\ b \in BackendState
    BY Zenon, <2>4, AnswerRight
  <2>6. msg[c] = "copydone" => b.copy = 0
    BY Zenon, <2>4, AnsweredOneCopy DEF CopyInv
  <2> HIDE DEF b, v
  <2>7. ~v.in_copy_mode => b.copy = 0
    <3>1. b.copy \in 0..2
      BY Zenon, <2>5 DEF BackendState
    <3>2. \A n \in 0..2 : n > 0 \/ n = 0
      BY SMT
    <3> QED BY Zenon, <2>5, <3>1, <3>2 DEF Tracks
  <2>8. b.copy = 0 /\ b.tx = "I"
    BY Zenon, <2>3, <2>5, <2>6, <2>7 DEF Breaks, Tracks
  <2> QED BY Zenon, <2>2, <2>3, <2>8
<1> QED BY <1>1, <1>2, <1>3, SessionInvariant, PTL DEF Spec, KeptUntilOver
=============================================================================
