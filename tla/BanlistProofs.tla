---------------------------- MODULE BanlistProofs ----------------------------
(* Proofs about Banlist, for any servers, shards, tasks and durations. *)
EXTENDS Banlist, FiniteSetTheorems, TLAPS

\* The sort keys of a checkout (pool.rs:745, 757) are natural numbers.
LEMMA SortKeyType ==
  ASSUME TypeOK, NEW a \in Addresses, NEW shard
  PROVE  SortKey(a, shard) \in Nat
<1> DEFINE S == {c \in Requests : pc[c] \in {"check", "using"} /\ cur[c] = a}
<1>1. IsFiniteSet(S)
  <2>1. S \subseteq Requests
    BY Zenon
  <2> HIDE DEF S
  <2>2. QED
    BY Zenon, <2>1, FS_Subset, BanlistAssumption DEF BanlistAssumption
<1>2. Cardinality(S) \in Nat
  <2> HIDE DEF S
  <2>1. QED
    BY Zenon, <1>1, FS_CardinalityType
<1>3. busy_connection_count(a) = Cardinality(S)
  BY Zenon DEF busy_connection_count
<1>4. MaxErrors \in Nat /\ errors[a] \in Nat
  BY SMTT(30), BanlistAssumption DEF BanlistAssumption, TypeOK
<1>5. QED
  <2> HIDE DEF S
  <2> DEFINE n == busy_connection_count(a)
  <2>1. n \in Nat
    BY Zenon, <1>2, <1>3
  <2>2. n * (MaxErrors + 1) \in Nat
    <3> HIDE DEF n
    <3>1. QED
      BY SMTT(30), <2>1, <1>4
  <2>3. QED
    BY <2>2, <1>4 DEF SortKey

\* What ban (pool.rs:909) does to the ban list: it only adds, and no primary.
LEMMA BanEffect ==
  ASSUME TypeOK, PrimaryNeverBanned, NEW a \in Addresses, NEW seconds \in Nat,
         NEW counts \in BOOLEAN, ban(a, seconds, counts)
  PROVE  /\ errors' \in [Addresses -> 0..MaxErrors]
         /\ banned' \subseteq Addresses
         /\ left' \in [Addresses -> Int]
         /\ banned \subseteq banned'
         /\ PrimaryNeverBanned'
         /\ banned' \subseteq banned \cup {a}
<1>1. errors' \in [Addresses -> 0..MaxErrors]
  BY SMTT(30), BanlistAssumption DEF BanlistAssumption, TypeOK, ban
<1>2. QED
  BY SMTT(30), <1>1 DEF TypeOK, ban, PrimaryNeverBanned

\* What removing entries (pool.rs:942, 983, 1007) does to the ban list.
LEMMA LiftEffect ==
  ASSUME TypeOK, PrimaryNeverBanned, NEW A, Lift(A)
  PROVE  /\ errors' \in [Addresses -> 0..MaxErrors]
         /\ banned' \subseteq Addresses
         /\ left' \in [Addresses -> Int]
         /\ PrimaryNeverBanned'
         /\ banned' \subseteq banned
BY DEF TypeOK, Lift, PrimaryNeverBanned

\* AllReplicasBanned looks at the keys of the ban list only.
LEMMA SameBanned ==
  ASSUME banned' = banned, NEW s
  PROVE  AllReplicasBanned(s)' = AllReplicasBanned(s)
BY Zenon DEF AllReplicasBanned, InShard, Replicas

\* The parts of the invariant about the checkout of one task.
OfCheckout(d) ==
  /\ pc[d] \in Trying \cup Unbanning => cur[d] \in Addresses
  /\ pc[d] = "down" => candidates[d] = {}
  /\ steady[d] \cap banned = {}
  /\ steady[d] \subseteq candidates[d] \cup (IF pc[d] \in Trying THEN {cur[d]} ELSE {})
  /\ \A a \in asked[d] : RoleOf[a] = "replica" => Replicas(ShardOf[a]) \subseteq asked[d]
  /\ pc[d] \in Unbanning \cup {"next", "down"} /\ tried[d] = {} /\ ~disturbed[d] =>
      /\ \A a \in Skipped(d) : a \in banned /\ ~AllReplicasBanned(ShardOf[a])
      /\ pc[d] \in Unbanning => cur[d] \in banned
      /\ pc[d] = "entry" => ~AllReplicasBanned(ShardOf[cur[d]])

\* The invariant is that of every checkout.
LEMMA ByCheckout ==
  BanInv <=> TypeOK /\ PrimaryNeverBanned /\ \A d \in Requests : OfCheckout(d)
BY Zenon DEF BanInv, CurRight, SteadyAhead, AskedShards, SkippedBanned, OfCheckout

\* A checkout that takes no step keeps its part of the invariant when another
\* task changes the ban list as Watch records it, or does not change it.
LEMMA OthersCheckout ==
  ASSUME BanInv, NEW d \in Requests,
         pc'[d] = pc[d], candidates'[d] = candidates[d], cur'[d] = cur[d],
         asked'[d] = asked[d], tried'[d] = tried[d],
         steady'[d] \subseteq steady[d], steady'[d] \cap banned' = {},
         disturbed'[d] = disturbed[d] \/ disturbed'[d] = TRUE,
         pc[d] = "idle" \/ banned' = banned \/ disturbed'[d]
  PROVE  OfCheckout(d)'
<1>1. OfCheckout(d)
  BY Zenon, ByCheckout
<1>2. \A a : Replicas(a)' = Replicas(a)
  BY Zenon DEF Replicas, InShard
<1>3. Skipped(d)' = Skipped(d)
  BY Zenon DEF Skipped
<1>4. CASE pc[d] # "idle" /\ ~disturbed'[d]
  <2>1. banned' = banned /\ ~disturbed[d]
    BY Zenon, <1>4
  <2>2. \A s : AllReplicasBanned(s)' = AllReplicasBanned(s)
    BY Zenon, <2>1, SameBanned
  <2>3. QED
    BY ZenonT(60), <1>1, <1>2, <1>3, <2>1, <2>2 DEF OfCheckout
<1>5. CASE pc[d] = "idle" \/ disturbed'[d]
  BY Zenon, <1>1, <1>2, <1>3, <1>5 DEF OfCheckout, Unbanning
<1>6. QED
  BY Zenon, <1>4, <1>5

\* A step of task c keeps the invariant if it does for c and types.
LEMMA OwnStep ==
  ASSUME BanInv, NEW c \in Requests, TypeOK', PrimaryNeverBanned', OfCheckout(c)',
         \A d \in Requests \ {c} :
           /\ pc'[d] = pc[d] /\ candidates'[d] = candidates[d] /\ cur'[d] = cur[d]
           /\ asked'[d] = asked[d] /\ tried'[d] = tried[d]
           /\ steady'[d] \subseteq steady[d] /\ steady'[d] \cap banned' = {}
           /\ disturbed'[d] = disturbed[d] \/ disturbed'[d] = TRUE
           /\ pc[d] = "idle" \/ banned' = banned \/ disturbed'[d]
  PROVE  BanInv'
<1>1. ASSUME NEW d \in Requests, d # c
      PROVE  OfCheckout(d)'
  <2>1. /\ pc'[d] = pc[d] /\ candidates'[d] = candidates[d] /\ cur'[d] = cur[d]
        /\ asked'[d] = asked[d] /\ tried'[d] = tried[d]
        /\ steady'[d] \subseteq steady[d] /\ steady'[d] \cap banned' = {}
        /\ disturbed'[d] = disturbed[d] \/ disturbed'[d] = TRUE
        /\ pc[d] = "idle" \/ banned' = banned \/ disturbed'[d]
    BY Zenon, <1>1
  <2>2. QED
    BY Zenon, <2>1, OthersCheckout
<1>2. \A d \in Requests : OfCheckout(d)'
  BY Zenon, <1>1
<1>3. QED
  BY ZenonT(60), <1>2 DEF BanInv, CurRight, SteadyAhead, AskedShards, SkippedBanned, OfCheckout

\* A step of task c that leaves the ban list alone.
LEMMA QuietStep ==
  ASSUME BanInv, NEW c \in Requests, TypeOK', OfCheckout(c)',
         UNCHANGED <<banned, disturbed>>,
         \A d \in Requests \ {c} :
           /\ pc'[d] = pc[d] /\ candidates'[d] = candidates[d] /\ cur'[d] = cur[d]
           /\ asked'[d] = asked[d] /\ tried'[d] = tried[d] /\ steady'[d] = steady[d]
  PROVE  BanInv'
<1>1. PrimaryNeverBanned'
  BY Zenon DEF BanInv, PrimaryNeverBanned
<1>2. \A d \in Requests : steady[d] \cap banned = {}
  BY Zenon DEF BanInv, SteadyAhead
<1>3. QED
  BY ZenonT(60), <1>1, <1>2, OwnStep DEF BanInv, TypeOK

\* A checkout starts with all its candidates ahead (pool.rs:726).
LEMMA GetStartStep ==
  ASSUME BanInv, NEW c \in Requests, NEW role, NEW shard, GetStart(c, role, shard)
  PROVE  BanInv'
<1> USE DEF GetStart, Goto
<1> DEFINE K == Candidates(role, shard)
<1>1. K \subseteq Addresses
  BY Zenon DEF Candidates
<1>2. \A a \in K : RoleOf[a] = "replica" => Replicas(ShardOf[a]) \subseteq K
  BY Zenon DEF Candidates, Replicas, InShard
<1>3. [a \in Addresses |-> SortKey(a, shard)] \in [Addresses -> Nat]
  BY Zenon, SortKeyType DEF BanInv
<1> HIDE DEF K
<1>4. TypeOK'
  BY ZenonT(60), <1>1, <1>3 DEF BanInv, TypeOK, Looking, K
<1>5. OfCheckout(c)'
  <2>1. /\ pc'[c] = "next" /\ candidates'[c] = K /\ asked'[c] = K
        /\ steady'[c] = K \ banned
    BY Zenon DEF BanInv, TypeOK, K
  <2>2. Skipped(c)' = {}
    BY Zenon, <2>1 DEF Skipped
  <2>3. \A s : Replicas(s)' = Replicas(s)
    BY Zenon DEF Replicas, InShard
  <2>4. QED
    BY Zenon, <1>2, <2>1, <2>2, <2>3 DEF OfCheckout, Unbanning, Trying
<1>6. QED
  BY ZenonT(60), <1>4, <1>5, QuietStep DEF BanInv, TypeOK

\* Facts about the checkout that takes a step.
LEMMA OwnFacts ==
  ASSUME BanInv, NEW c \in Requests
  PROVE  OfCheckout(c) /\ TypeOK /\ PrimaryNeverBanned
BY Zenon, ByCheckout

\* Popping a candidate (pool.rs:770) skips nothing yet.
LEMMA ConsiderStep ==
  ASSUME BanInv, NEW c \in Requests, NEW a \in Addresses, Consider(c, a)
  PROVE  BanInv'
<1> USE DEF Consider, Goto
<1>1. TypeOK'
  BY ZenonT(60) DEF BanInv, TypeOK, Looking, Unbanning
<1>2. OfCheckout(c)'
  <2>1. /\ pc[c] = "next" /\ pc'[c] = IF a \in banned THEN "count" ELSE "take"
        /\ candidates'[c] = candidates[c] \ {a} /\ cur'[c] = a /\ a \in candidates[c]
        /\ asked'[c] = asked[c] /\ steady'[c] = steady[c] /\ tried'[c] = tried[c]
        /\ disturbed'[c] = disturbed[c] /\ banned' = banned
    BY Zenon DEF BanInv, TypeOK
  <2>2. pc'[c] = "count" => Skipped(c)' = Skipped(c)
    BY ZenonT(60), <2>1 DEF Skipped, Unbanning
  <2>3. \A s : Replicas(s)' = Replicas(s) /\ AllReplicasBanned(s)' = AllReplicasBanned(s)
    BY Zenon, <2>1, SameBanned DEF Replicas, InShard
  <2>4. QED
    BY SMTT(30), <2>1, <2>2, <2>3, OwnFacts DEF OfCheckout, Unbanning, Trying
<1>3. QED
  BY ZenonT(60), <1>1, <1>2, QuietStep DEF BanInv, TypeOK

\* A step of task c inside get that changes only where it is.
LEMMA MoveStep ==
  ASSUME BanInv, NEW c \in Requests, NEW p, TypeOK', pc' = [pc EXCEPT ![c] = p],
         UNCHANGED <<candidates, cur, asked, tried, steady, disturbed, banned>>,
         pc[c] \in Looking, p # "idle",
         p \in Trying => pc[c] \in Trying \cup Unbanning,
         p \in Unbanning => pc[c] \in Unbanning,
         p = "down" => pc[c] = "next" /\ candidates[c] = {},
         p = "entry" => ~AllReplicasBanned(ShardOf[cur[c]]),
         p = "next" => pc[c] = "entry"
  PROVE  BanInv'
<1>1. pc'[c] = p
  BY Zenon DEF BanInv, TypeOK
<1>2. \A s : Replicas(s)' = Replicas(s) /\ AllReplicasBanned(s)' = AllReplicasBanned(s)
  BY Zenon, SameBanned DEF Replicas, InShard
<1>3. OfCheckout(c)'
  <2>1. CASE p \in Trying
    BY ZenonT(60), <1>1, <1>2, <2>1, OwnFacts DEF OfCheckout, Unbanning, Trying
  <2>2. CASE p \in Unbanning
    <3>1. Skipped(c)' = Skipped(c)
      BY Zenon, <1>1, <2>2 DEF Skipped
    <3>2. QED
      BY SMTT(30), <1>1, <1>2, <2>2, <3>1, OwnFacts DEF OfCheckout, Unbanning, Trying
  <2>3. CASE p = "next"
    <3>1. Skipped(c)' \subseteq Skipped(c) \cup {cur[c]}
      BY ZenonT(60), <1>1, <2>3 DEF Skipped, Unbanning
    <3>2. QED
      BY Zenon, <1>1, <1>2, <2>3, <3>1, OwnFacts DEF OfCheckout, Unbanning, Trying
  <2>4. CASE p = "down"
    <3>1. Skipped(c)' = Skipped(c)
      BY Zenon, <1>1, <2>4 DEF Skipped, Unbanning
    <3>2. QED
      BY SMTT(30), <1>1, <1>2, <2>4, <3>1, OwnFacts DEF OfCheckout, Unbanning, Trying
  <2>5. QED
    BY ZenonT(60), <1>1, <2>1, <2>2, <2>3, <2>4 DEF TypeOK, Looking, Trying
<1>4. QED
  BY Zenon, <1>3, QuietStep DEF BanInv, TypeOK

\* A step of task c that changes the ban list and is watched.
LEMMA WatchedStep ==
  ASSUME BanInv, NEW c \in Requests, NEW F, TypeOK', PrimaryNeverBanned', OfCheckout(c)',
         Watch(c, F), UNCHANGED <<candidates, cur, asked>>,
         \A d \in Requests \ {c} : pc'[d] = pc[d] /\ tried'[d] = tried[d]
  PROVE  BanInv'
<1>1. \A d \in Requests \ {c} :
        /\ steady'[d] \subseteq steady[d] /\ steady'[d] \cap banned' = {}
        /\ disturbed'[d] = disturbed[d] \/ disturbed'[d] = TRUE
        /\ pc[d] = "idle" \/ banned' = banned \/ disturbed'[d]
  BY ZenonT(60) DEF Watch, BanInv, TypeOK
<1>2. QED
  BY Zenon, <1>1, OwnStep

\* Lifting bans in try_unban (pool.rs:983, 1007) leads to a try.
LEMMA UnbanStep ==
  ASSUME BanInv, NEW c \in Requests, NEW A, pc[c] \in Unbanning, Lift(A), Watch(c, {}),
         Forced(c), UNCHANGED <<candidates, rank, cur, asked, tried, admin>>
  PROVE  BanInv'
<1>1. /\ errors' \in [Addresses -> 0..MaxErrors] /\ banned' \subseteq Addresses
      /\ left' \in [Addresses -> Int] /\ PrimaryNeverBanned' /\ banned' \subseteq banned
  BY Zenon, LiftEffect DEF BanInv
<1>2. steady' \in [Requests -> SUBSET Addresses] /\ disturbed' \in [Requests -> BOOLEAN]
  BY Zenon DEF Watch, BanInv, TypeOK
<1>3. TypeOK'
  BY Zenon, <1>1, <1>2 DEF BanInv, TypeOK, Forced, Goto, Looking
<1>4. OfCheckout(c)'
  <2>1. pc'[c] = "take" /\ steady'[c] \subseteq steady[c] /\ steady'[c] \cap banned' = {}
    BY Zenon DEF Forced, Goto, Watch, BanInv, TypeOK
  <2>2. \A s : Replicas(s)' = Replicas(s)
    BY Zenon DEF Replicas, InShard
  <2>3. QED
    BY Zenon, <2>1, <2>2, OwnFacts DEF OfCheckout, Unbanning, Trying
<1>5. QED
  BY Zenon, <1>1, <1>3, <1>4, WatchedStep DEF Forced, Goto, BanInv, TypeOK

\* A try that fails (pool.rs:800, 902) bans the server and is remembered.
LEMMA TryFailsStep ==
  ASSUME BanInv, NEW c \in Requests, TryFails(c)
  PROVE  BanInv'
<1> USE DEF TryFails, Goto
<1>0. cur[c] \in Addresses
  BY Zenon, OwnFacts DEF OfCheckout, Trying
<1>1. /\ errors' \in [Addresses -> 0..MaxErrors] /\ banned' \subseteq Addresses
      /\ left' \in [Addresses -> Int] /\ PrimaryNeverBanned'
  BY Zenon, <1>0, BanEffect, BanlistAssumption DEF BanInv, BanlistAssumption
<1>2. steady' \in [Requests -> SUBSET Addresses] /\ disturbed' \in [Requests -> BOOLEAN]
  BY Zenon DEF Watch, BanInv, TypeOK
<1>3. tried' \in [Requests -> SUBSET Addresses]
  BY ZenonT(60), <1>0 DEF BanInv, TypeOK
<1>4. TypeOK'
  BY Zenon, <1>1, <1>2, <1>3 DEF BanInv, TypeOK, Looking
<1>5. OfCheckout(c)'
  <2>1. /\ pc'[c] = "next" /\ steady'[c] \subseteq steady[c] \ {cur[c]}
        /\ steady'[c] \cap banned' = {} /\ tried'[c] # {}
    BY Zenon DEF Watch, BanInv, TypeOK
  <2>2. \A s : Replicas(s)' = Replicas(s)
    BY Zenon DEF Replicas, InShard
  <2>3. QED
    BY Zenon, <2>1, <2>2, OwnFacts DEF OfCheckout, Unbanning, Trying
<1>6. QED
  BY ZenonT(60), <1>1, <1>4, <1>5, WatchedStep DEF BanInv, TypeOK

\* The steps of get that only read the ban list, or only talk to a server.
LEMMA ReadSteps ==
  ASSUME BanInv, NEW c \in Requests,
         Exhausted(c) \/ CountBanned(c) \/ ReadEntry(c) \/ CheckoutOk(c) \/ HealthCheckOk(c)
  PROVE  BanInv'
<1> USE DEF Goto, Looking, Unbanning, Trying
<1>1. CASE Exhausted(c)
  <2>1. TypeOK'
    BY Zenon, <1>1 DEF Exhausted, BanInv, TypeOK
  <2>2. QED
    BY Zenon, <1>1, <2>1, MoveStep DEF Exhausted
<1>2. CASE CountBanned(c)
  <2>1. TypeOK'
    BY ZenonT(60), <1>2 DEF CountBanned, Forced, BanInv, TypeOK
  <2>2. QED
    BY Zenon, <1>2, <2>1, MoveStep DEF CountBanned, Forced
<1>3. CASE ReadEntry(c)
  <2>1. TypeOK'
    BY ZenonT(60), <1>3 DEF ReadEntry, Forced, BanInv, TypeOK
  <2>2. QED
    BY Zenon, <1>3, <2>1, MoveStep DEF ReadEntry, Forced
<1>4. CASE CheckoutOk(c)
  <2>1. 0 \in 0..MaxErrors
    BY BanlistAssumption DEF BanlistAssumption
  <2>2. errors' \in [Addresses -> 0..MaxErrors]
    BY Zenon, <1>4, <2>1 DEF CheckoutOk, BanInv, TypeOK
  <2>3. PICK p \in {"check", "using"} : pc' = [pc EXCEPT ![c] = p]
    BY Zenon, <1>4 DEF CheckoutOk
  <2>4. TypeOK'
    BY ZenonT(60), <1>4, <2>2, <2>3 DEF CheckoutOk, BanInv, TypeOK
  <2>5. QED
    BY Zenon, <1>4, <2>3, <2>4, MoveStep DEF CheckoutOk
<1>5. CASE HealthCheckOk(c)
  <2>1. TypeOK'
    BY Zenon, <1>5 DEF HealthCheckOk, BanInv, TypeOK
  <2>2. QED
    BY Zenon, <1>5, <2>1, MoveStep DEF HealthCheckOk
<1>6. QED
  BY Zenon, <1>1, <1>2, <1>3, <1>4, <1>5

\* After get has returned (client.rs:1063) the checkout is forgotten, also when
\* a query fails and bans the server (client.rs:2037).
LEMMA ReturnSteps ==
  ASSUME BanInv, NEW c \in Requests,
         Finish(c) \/ \E counts \in BOOLEAN : QueryFails(c, counts)
  PROVE  BanInv'
<1> USE DEF Goto
<1>1. Forget(c)
  BY Zenon DEF Finish, QueryFails
<1>2. /\ pc' \in [Requests -> Looking \cup {"idle", "using", "down"}]
      /\ candidates' \in [Requests -> SUBSET Addresses]
      /\ rank' \in [Requests -> [Addresses -> Nat]]
      /\ cur' \in [Requests -> Addresses \cup {Nobody}]
      /\ force' \in [Requests -> BOOLEAN]
      /\ asked' \in [Requests -> SUBSET Addresses]
      /\ tried' \in [Requests -> SUBSET Addresses]
  BY Zenon, <1>1 DEF Forget, NoRank, BanInv, TypeOK
<1>3. /\ pc'[c] = "idle" /\ asked'[c] = {}
      /\ \A d \in Requests \ {c} :
           /\ pc'[d] = pc[d] /\ candidates'[d] = candidates[d] /\ cur'[d] = cur[d]
           /\ asked'[d] = asked[d] /\ tried'[d] = tried[d]
  BY Zenon, <1>1 DEF Forget, BanInv, TypeOK
<1>4. steady'[c] = {} => OfCheckout(c)'
  BY Zenon, <1>3 DEF OfCheckout, Trying, Unbanning
<1>5. CASE Finish(c)
  <2>1. TypeOK'
    BY ZenonT(60), <1>2, <1>5 DEF Finish, BanInv, TypeOK
  <2>2. PrimaryNeverBanned' /\ \A d \in Requests : steady[d] \cap banned = {}
    BY Zenon, <1>5 DEF Finish, BanInv, PrimaryNeverBanned, SteadyAhead
  <2>3. /\ steady'[c] = {} /\ banned' = banned
        /\ \A d \in Requests \ {c} : steady'[d] = steady[d] /\ disturbed'[d] = disturbed[d]
    BY Zenon, <1>5 DEF Finish, BanInv, TypeOK
  <2>4. QED
    BY ZenonT(60), <1>3, <1>4, <2>1, <2>2, <2>3, OwnStep
<1>6. CASE \E counts \in BOOLEAN : QueryFails(c, counts)
  <2>1. PICK counts \in BOOLEAN : QueryFails(c, counts)
    BY Zenon, <1>6
  <2>2. cur[c] \in Addresses
    BY Zenon, <2>1, OwnFacts DEF QueryFails, OfCheckout, Trying
  <2>3. /\ errors' \in [Addresses -> 0..MaxErrors] /\ banned' \subseteq Addresses
        /\ left' \in [Addresses -> Int] /\ PrimaryNeverBanned'
    BY SMTT(30), <2>1, <2>2, BanEffect, BanlistAssumption DEF QueryFails, BanInv, BanlistAssumption
  <2>4. steady' \in [Requests -> SUBSET Addresses] /\ disturbed' \in [Requests -> BOOLEAN]
    BY ZenonT(60), <2>1 DEF QueryFails, BanInv, TypeOK
  <2>5. TypeOK'
    BY ZenonT(60), <1>2, <2>1, <2>3, <2>4 DEF QueryFails, BanInv, TypeOK
  <2>6. /\ steady'[c] = {}
        /\ \A d \in Requests \ {c} :
             /\ steady'[d] \subseteq steady[d] /\ steady'[d] \cap banned' = {}
             /\ disturbed'[d] = disturbed[d] \/ disturbed'[d] = TRUE
             /\ pc[d] = "idle" \/ banned' = banned \/ disturbed'[d]
    BY ZenonT(60), <2>1 DEF QueryFails, BanInv, TypeOK
  <2>7. QED
    BY ZenonT(60), <1>3, <1>4, <2>3, <2>5, <2>6, OwnStep
<1>7. QED
  BY Zenon, <1>5, <1>6

\* What the fields of a command are (admin.rs:409, 466).
LEMMA CommandType ==
  ASSUME NEW b \in BOOLEAN, NEW todo \in SUBSET Addresses,
         NEW sel \in Addresses \cup {Nobody}, NEW t \in Nat
  PROVE  Command(b, todo, sel, t) \in
           [ban: BOOLEAN, todo: SUBSET Addresses, sel: Addresses \cup {Nobody}, time: Nat]
BY Zenon DEF Command, NoCommand

\* A step outside get that leaves the checkouts and the list of bans alone.
LEMMA OutsideStep ==
  ASSUME BanInv, TypeOK', UNCHANGED <<getVars, banned, steady, disturbed>>
  PROVE  BanInv'
<1>1. \A s : Replicas(s)' = Replicas(s) /\ AllReplicasBanned(s)' = AllReplicasBanned(s)
  BY Zenon, SameBanned DEF Replicas, InShard
<1>2. \A c : Skipped(c)' = Skipped(c)
  BY Zenon DEF Skipped, getVars
<1>3. QED
  BY ZenonT(60), <1>1, <1>2 DEF BanInv, PrimaryNeverBanned, CurRight, SteadyAhead, AskedShards,
                    SkippedBanned, getVars

\* The commands of the administrator (admin.rs:409, 466) and the clock.
LEMMA AdminSteps ==
  ASSUME BanInv,
         \/ \E a \in Addresses, t \in AdminTimes : AdminCommand(HostOf[a], TRUE, t)
         \/ \E a \in Addresses : AdminCommand(HostOf[a], FALSE, 0)
         \/ \E a \in Addresses : AdminCheck(a)
         \/ Tick
  PROVE  BanInv'
<1> USE DEF getVars
<1>1. CASE \/ \E a \in Addresses, t \in AdminTimes : AdminCommand(HostOf[a], TRUE, t)
           \/ \E a \in Addresses : AdminCommand(HostOf[a], FALSE, 0)
  <2>1. PICK a \in Addresses, b \in BOOLEAN, t \in Nat : AdminCommand(HostOf[a], b, t)
    BY Zenon, <1>1, BanlistAssumption DEF BanlistAssumption
  <2>2. admin' \in [ban: BOOLEAN, todo: SUBSET Addresses, sel: Addresses \cup {Nobody},
                    time: Nat]
    BY Zenon, <2>1, CommandType DEF AdminCommand
  <2>3. TypeOK'
    BY Zenon, <2>1, <2>2 DEF AdminCommand, BanInv, TypeOK
  <2>4. QED
    BY Zenon, <2>1, <2>3, OutsideStep DEF AdminCommand
<1>2. CASE \E a \in Addresses : AdminCheck(a)
  <2>1. PICK a \in Addresses : AdminCheck(a)
    BY Zenon, <1>2
  <2>2. admin.ban \in BOOLEAN /\ admin.todo \in SUBSET Addresses /\ admin.time \in Nat
    BY Zenon DEF BanInv, TypeOK
  <2>3. admin' \in [ban: BOOLEAN, todo: SUBSET Addresses, sel: Addresses \cup {Nobody},
                    time: Nat]
    BY ZenonT(60), <2>1, <2>2, CommandType DEF AdminCheck
  <2>4. TypeOK'
    BY Zenon, <2>1, <2>3 DEF AdminCheck, BanInv, TypeOK
  <2>5. QED
    BY Zenon, <2>1, <2>4, OutsideStep DEF AdminCheck
<1>3. CASE Tick
  <2>1. left' \in [Addresses -> Int]
    BY SMTT(30), <1>3 DEF Tick, BanInv, TypeOK
  <2>2. TypeOK'
    BY ZenonT(60), <1>3, <2>1 DEF Tick, BanInv, TypeOK
  <2>3. QED
    BY ZenonT(60), <1>3, <2>2, OutsideStep DEF Tick
<1>4. QED
  BY Zenon, <1>1, <1>2, <1>3

\* BAN and UNBAN of one address (admin.rs:444, 487).
LEMMA AdminApplyStep ==
  ASSUME BanInv, AdminApply
  PROVE  BanInv'
<1> USE DEF AdminApply
<1>1. /\ admin.ban \in BOOLEAN /\ admin.todo \in SUBSET Addresses /\ admin.time \in Nat
      /\ admin.sel \in Addresses
  BY Zenon DEF BanInv, TypeOK
<1>2. admin' \in [ban: BOOLEAN, todo: SUBSET Addresses, sel: Addresses \cup {Nobody}, time: Nat]
  BY ZenonT(60), <1>1, CommandType
<1>3. /\ errors' \in [Addresses -> 0..MaxErrors] /\ banned' \subseteq Addresses
      /\ left' \in [Addresses -> Int] /\ PrimaryNeverBanned'
  <2>1. CASE admin.ban
    BY Zenon, <1>1, <2>1, BanEffect DEF BanInv
  <2>2. CASE ~admin.ban
    BY Zenon, <2>2, LiftEffect DEF BanInv
  <2>3. QED
    BY Zenon, <2>1, <2>2
<1>4. steady' \in [Requests -> SUBSET Addresses] /\ disturbed' \in [Requests -> BOOLEAN]
  BY Zenon DEF Watch, BanInv, TypeOK
<1>5. TypeOK'
  BY ZenonT(60), <1>2, <1>3, <1>4 DEF BanInv, TypeOK, getVars
<1>6. ASSUME NEW d \in Requests
      PROVE  OfCheckout(d)'
  <2>1. /\ steady'[d] \subseteq steady[d] /\ steady'[d] \cap banned' = {}
        /\ disturbed'[d] = disturbed[d] \/ disturbed'[d] = TRUE
        /\ pc[d] = "idle" \/ banned' = banned \/ disturbed'[d]
    BY ZenonT(60), BanlistAssumption DEF Watch, BanInv, TypeOK, BanlistAssumption
  <2>2. QED
    BY Zenon, <2>1, OthersCheckout DEF getVars
<1>7. QED
  BY ZenonT(60), <1>3, <1>5, <1>6
  DEF BanInv, CurRight, SteadyAhead, AskedShards, SkippedBanned, OfCheckout

\* Init establishes the inductive invariant.
LEMMA BanInit == Init => BanInv
<1> SUFFICES ASSUME Init PROVE BanInv
  BY Zenon
<1>0. 0 \in 0..MaxErrors
  BY SMTT(30), BanlistAssumption DEF BanlistAssumption
<1> USE DEF Init
<1>1. TypeOK
  <2>1. admin \in [ban: BOOLEAN, todo: SUBSET Addresses, sel: Addresses \cup {Nobody}, time: Nat]
    BY Zenon DEF NoCommand
  <2>2. QED
    BY SMTT(30), <1>0, <2>1 DEF TypeOK, NoRank
<1>2. QED
  BY Zenon, <1>1 DEF BanInv, PrimaryNeverBanned, CurRight, SteadyAhead, AskedShards, SkippedBanned,
              Trying, Unbanning

\* Every step keeps the inductive invariant.
LEMMA BanNext == BanInv /\ [Next]_vars => BanInv'
<1> SUFFICES ASSUME BanInv, [Next]_vars PROVE BanInv'
  BY Zenon
<1>1. ASSUME NEW c \in Requests, NEW role, NEW shard, GetStart(c, role, shard)
      PROVE  BanInv'
  BY Zenon, <1>1, GetStartStep
<1>2. ASSUME NEW c \in Requests, GetStep(c)
      PROVE  BanInv'
  <2>1. CASE \E a \in Addresses : Consider(c, a)
    BY Zenon, <2>1, ConsiderStep
  <2>2. CASE ClearBans(c)
    BY SMTT(30), <2>2, UnbanStep DEF ClearBans, Unbanning
  <2>3. CASE RemoveBan(c)
    BY SMTT(30), <2>3, UnbanStep DEF RemoveBan, Unbanning
  <2>4. CASE TryFails(c)
    BY Zenon, <2>4, TryFailsStep
  <2>5. QED
    BY Zenon, <1>2, <2>1, <2>2, <2>3, <2>4, ReadSteps DEF GetStep
<1>3. ASSUME NEW c \in Requests, Finish(c) \/ \E counts \in BOOLEAN : QueryFails(c, counts)
      PROVE  BanInv'
  BY Zenon, <1>3, ReturnSteps
<1>4. CASE AdminApply
  BY Zenon, <1>4, AdminApplyStep
<1>5. CASE UNCHANGED vars
  <2>1. UNCHANGED <<getVars, banned, steady, disturbed>> /\ TypeOK'
    BY Zenon, <1>5 DEF vars, getVars, BanInv, TypeOK
  <2>2. QED
    BY Zenon, <2>1, OutsideStep
<1>6. QED
  BY ZenonT(60), <1>1, <1>2, <1>3, <1>4, <1>5, AdminSteps DEF Next

\* The inductive invariant holds in every reachable state.
THEOREM BanInvariant == Spec => []BanInv
BY BanInit, BanNext, PTL DEF Spec

\* No interleaving of checkouts, failing queries and BAN commands puts a
\* primary on the ban list (pool.rs:922).
THEOREM PrimaryIsNeverBanned == Spec => []PrimaryNeverBanned
<1>1. BanInv => PrimaryNeverBanned
  BY Zenon DEF BanInv
<1>2. QED
  BY <1>1, BanInvariant, PTL

\* get answers AllServersDown (pool.rs:848) only if no candidate was fine for
\* the whole checkout, whatever the other tasks and the administrator do.
THEOREM SteadyServersServe == Spec => []SteadyServed
<1>1. BanInv => SteadyServed
  BY Zenon DEF BanInv, SteadyServed, SteadyAhead, CurRight, Trying
<1>2. QED
  BY <1>1, BanInvariant, PTL

\* A checkout that finds all its candidates banned tries one nevertheless,
\* unless the ban list is changed by others meanwhile (pool.rs:980).
THEOREM AllBannedAreTried == Spec => []AllBannedTried
<1>1. BanInv => AllBannedTried
  <2> SUFFICES ASSUME BanInv, NEW c \in Requests, pc[c] = "down", tried[c] = {},
                      ~disturbed[c], NEW a \in asked[c]
               PROVE  FALSE
    BY Zenon DEF AllBannedTried
  <2>1. asked[c] \subseteq banned /\ \A b \in asked[c] : ~AllReplicasBanned(ShardOf[b])
    BY Zenon DEF BanInv, SkippedBanned, Skipped, CurRight, Unbanning
  <2>2. RoleOf[a] = "replica" /\ a \in Addresses
    BY SMTT(30), <2>1, BanlistAssumption DEF BanInv, PrimaryNeverBanned, TypeOK, BanlistAssumption, Roles
  <2>3. Replicas(ShardOf[a]) \subseteq banned
    BY Zenon, <2>1, <2>2 DEF BanInv, AskedShards
  <2>4. banned \cap InShard(ShardOf[a]) = Replicas(ShardOf[a])
    <3>1. \A b \in banned : b \in Addresses /\ RoleOf[b] = "replica"
      BY ZenonT(60), BanlistAssumption DEF BanInv, PrimaryNeverBanned, TypeOK, BanlistAssumption, Roles
    <3>2. QED
      BY ZenonT(60), <2>3, <3>1 DEF Replicas, InShard
  <2>5. QED
    BY Zenon, <2>1, <2>4 DEF AllReplicasBanned
<1>2. QED
  BY <1>1, BanInvariant, PTL
=============================================================================
