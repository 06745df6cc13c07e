------------------------------- MODULE Banlist -------------------------------
(***************************************************************************)
(* ConnectionPool::get and the ban list of one pool (pool.rs), with the    *)
(* BAN and UNBAN commands of the admin database (admin.rs).                *)
(*                                                                         *)
(* Every task takes the ban list's RwLock for one read or one write at a   *)
(* time; a step is what a task does under one lock, or one await.          *)
(***************************************************************************)
EXTENDS Integers, FiniteSets

CONSTANTS
  Requests,         \* client tasks, each making one checkout at a time
  Addresses,        \* the servers of the pool
  RoleOf,           \* address.role
  ShardOf,          \* address.shard
  HostOf,           \* address.host
  Shards,           \* the shards of the pool
  Nobody,           \* "no address"
  AnyShard,         \* the query router did not choose a shard
  DefaultShard,     \* default_shard: a shard, "random" or "random_healthy"
  LeastOutstanding, \* load_balancing_mode = loc (else random)
  BanTime,          \* ban_time, in seconds
  AdminTimes,       \* the durations BAN is given
  MaxErrors         \* bound on error_count

Roles == {"primary", "replica"}

ASSUME BanlistAssumption ==
  /\ IsFiniteSet(Requests)
  /\ Nobody \notin Addresses
  /\ Nobody \notin Requests
  /\ RoleOf \in [Addresses -> Roles]
  /\ ShardOf \in [Addresses -> Shards]
  /\ AnyShard \notin Shards
  /\ BanTime \in Nat
  /\ AdminTimes \subseteq Nat
  /\ MaxErrors \in Nat

VARIABLES
  pc,          \* where the task is inside ConnectionPool::get
  candidates,  \* the candidates it has not considered yet
  rank,        \* the keys they were sorted by
  cur,         \* the address it considers or uses
  force,       \* force_healthcheck
  banned,      \* the addresses on the ban list
  left,        \* the seconds that are left of a ban, -1 when it has expired
  errors,      \* address.error_count
  admin,       \* the BAN or UNBAN command under way
  asked,       \* history: all the candidates of this checkout
  tried,       \* history: the candidates this checkout tried in vain
  steady,      \* history: the candidates not banned, and not tried in vain by
               \* anyone, since this checkout began
  disturbed    \* history: another task changed the ban list since then

getVars == <<pc, candidates, rank, cur, force, asked, tried>>
vars == <<getVars, banned, left, errors, admin, steady, disturbed>>

\* Inside try_unban; with a server that is not banned; inside get.
Unbanning == {"count", "clear", "entry", "remove"}
Trying == {"take", "check", "using"}
Looking == Unbanning \cup {"next", "take", "check"}
NoRank == [a \in Addresses |-> 0]
NoCommand == [ban |-> FALSE, todo |-> {}, sel |-> Nobody, time |-> 0]

Init ==
  /\ pc = [c \in Requests |-> "idle"]
  /\ candidates = [c \in Requests |-> {}]
  /\ rank = [c \in Requests |-> NoRank]
  /\ cur = [c \in Requests |-> Nobody]
  /\ force = [c \in Requests |-> FALSE]
  /\ banned = {}
  /\ left = [a \in Addresses |-> 0]
  /\ errors = [a \in Addresses |-> 0]
  /\ admin = NoCommand
  /\ asked = [c \in Requests |-> {}]
  /\ tried = [c \in Requests |-> {}]
  /\ steady = [c \in Requests |-> {}]
  /\ disturbed = [c \in Requests |-> FALSE]

-----------------------------------------------------------------------------
(* The ban list.                                                           *)

\* What the history variables see of a change of the ban list by task c, in
\* which the addresses F were tried in vain.
Watch(c, F) ==
  /\ steady' = [d \in Requests |-> steady[d] \ (banned' \cup F)]
  /\ disturbed' =
       [d \in Requests |-> disturbed[d] \/ (d # c /\ pc[d] # "idle" /\ banned' # banned)]

\* Mutation of ban: the primary is banned like any other server.
Mut_ban(a, seconds, counts) ==
  /\ errors' = [errors EXCEPT ![a] = IF counts /\ @ < MaxErrors THEN @ + 1 ELSE @]
  /\ banned' = banned \cup {a}
  /\ left' = [left EXCEPT ![a] = seconds]

\* ConnectionPool::ban, for a number of seconds.  counts: the reason is one
\* that counts as an error of the server.
ban(a, seconds, counts) ==
  /\ errors' = [errors EXCEPT ![a] = IF counts /\ @ < MaxErrors THEN @ + 1 ELSE @]
  /\ IF RoleOf[a] = "primary"
     THEN UNCHANGED <<banned, left>>
     ELSE /\ banned' = banned \cup {a}
          /\ left' = [left EXCEPT ![a] = seconds]

\* Entries A are removed from the ban list.
Lift(A) ==
  /\ banned' = banned \ A
  /\ left' = [a \in Addresses |-> IF a \in A THEN 0 ELSE left[a]]
  /\ UNCHANGED errors

InShard(s) == {a \in Addresses : ShardOf[a] = s}
Replicas(s) == {a \in InShard(s) : RoleOf[a] = "replica"}

\* Mutation of AllReplicasBanned: all servers of the shard are counted.
Mut_AllReplicasBanned(s) ==
  Cardinality(banned \cap InShard(s)) = Cardinality(InShard(s))

AllReplicasBanned(s) ==
  Cardinality(banned \cap InShard(s)) = Cardinality(Replicas(s))

\* A second passes.
Tick ==
  /\ \E a \in banned : left[a] >= 0
  /\ left' = [a \in Addresses |->
                IF a \in banned /\ left[a] >= 0 THEN left[a] - 1 ELSE left[a]]
  /\ UNCHANGED <<getVars, banned, errors, admin, steady, disturbed>>

-----------------------------------------------------------------------------
(* ConnectionPool::get.                                                    *)

Goto(c, p) == pc' = [pc EXCEPT ![c] = p]

\* The addresses of the role and the shard asked for; a pool with one shard
\* ignores the shard, and without one default_shard decides.
Candidates(role, shard) ==
  {a \in Addresses :
     /\ role \in {RoleOf[a], "any"}
     /\ \/ Cardinality(Shards) = 1
        \/ shard = ShardOf[a]
        \/ shard = AnyShard /\ DefaultShard \in {ShardOf[a], "random", "random_healthy"}}

\* Connections checked out of the bb8 pool of an address.
busy_connection_count(a) ==
  Cardinality({c \in Requests : pc[c] \in {"check", "using"} /\ cur[c] = a})

\* The stable sorts by error_count and then by busy connections.
SortKey(a, shard) ==
  (IF LeastOutstanding THEN busy_connection_count(a) * (MaxErrors + 1) ELSE 0)
  + (IF shard = AnyShard /\ Cardinality(Shards) # 1 /\ DefaultShard = "random_healthy"
     THEN errors[a] ELSE 0)

\* A shard that does not exist is refused before anything else (no step).
GetStart(c, role, shard) ==
  /\ pc[c] = "idle"
  /\ candidates' = [candidates EXCEPT ![c] = Candidates(role, shard)]
  /\ rank' = [rank EXCEPT ![c] = [a \in Addresses |-> SortKey(a, shard)]]
  /\ asked' = [asked EXCEPT ![c] = Candidates(role, shard)]
  /\ steady' = [steady EXCEPT ![c] = Candidates(role, shard) \ banned]
  /\ Goto(c, "next")
  /\ UNCHANGED <<cur, force, tried, disturbed, banned, left, errors, admin>>

\* Mutation of Consider: the candidate is looked at and not popped.
Mut_Consider(c, a) ==
  /\ pc[c] = "next"
  /\ a \in candidates[c]
  /\ \A b \in candidates[c] : rank[c][a] <= rank[c][b]
  /\ cur' = [cur EXCEPT ![c] = a]
  /\ force' = [force EXCEPT ![c] = FALSE]
  /\ Goto(c, IF a \in banned THEN "count" ELSE "take")
  /\ UNCHANGED <<candidates, rank, asked, tried, banned, left, errors, admin, steady, disturbed>>

\* The next candidate is popped, and is_banned is asked of it.
Consider(c, a) ==
  /\ pc[c] = "next"
  /\ a \in candidates[c]
  /\ \A b \in candidates[c] : rank[c][a] <= rank[c][b]
  /\ candidates' = [candidates EXCEPT ![c] = @ \ {a}]
  /\ cur' = [cur EXCEPT ![c] = a]
  /\ force' = [force EXCEPT ![c] = FALSE]
  /\ Goto(c, IF a \in banned THEN "count" ELSE "take")
  /\ UNCHANGED <<rank, asked, tried, banned, left, errors, admin, steady, disturbed>>

\* No candidate is left: AllServersDown.
Exhausted(c) ==
  /\ pc[c] = "next"
  /\ candidates[c] = {}
  /\ Goto(c, "down")
  /\ UNCHANGED <<candidates, rank, cur, force, asked, tried, banned, left, errors, admin,
                 steady, disturbed>>

\* try_unban returned true: the connection will have to pass a health check.
Forced(c) ==
  /\ force' = [force EXCEPT ![c] = TRUE]
  /\ Goto(c, "take")

\* try_unban: a primary passes, else the entries of the shard are counted.
CountBanned(c) ==
  /\ pc[c] = "count"
  /\ IF RoleOf[cur[c]] = "primary"
     THEN Forced(c)
     ELSE /\ Goto(c, IF AllReplicasBanned(ShardOf[cur[c]]) THEN "clear" ELSE "entry")
          /\ UNCHANGED force
  /\ UNCHANGED <<candidates, rank, cur, asked, tried, banned, left, errors, admin,
                 steady, disturbed>>

\* try_unban: all replicas of the shard are unbanned.
ClearBans(c) ==
  /\ pc[c] = "clear"
  /\ Lift(InShard(ShardOf[cur[c]]))
  /\ Watch(c, {})
  /\ Forced(c)
  /\ UNCHANGED <<candidates, rank, cur, asked, tried, admin>>

\* try_unban: the entry of the address is read again.
ReadEntry(c) ==
  /\ pc[c] = "entry"
  /\ IF cur[c] \notin banned
     THEN Forced(c)
     ELSE /\ Goto(c, IF left[cur[c]] < 0 THEN "remove" ELSE "next")
          /\ UNCHANGED force
  /\ UNCHANGED <<candidates, rank, cur, asked, tried, banned, left, errors, admin,
                 steady, disturbed>>

\* try_unban: the ban had expired.
RemoveBan(c) ==
  /\ pc[c] = "remove"
  /\ Lift({cur[c]})
  /\ Watch(c, {})
  /\ Forced(c)
  /\ UNCHANGED <<candidates, rank, cur, asked, tried, admin>>

\* The bb8 pool gives a connection, which is checked if it was idle for
\* healthcheck_delay.
CheckoutOk(c) ==
  /\ pc[c] = "take"
  /\ errors' = [errors EXCEPT ![cur[c]] = 0]
  /\ \E p \in {"check", "using"} : (force[c] => p = "check") /\ Goto(c, p)
  /\ UNCHANGED <<candidates, rank, cur, force, asked, tried, banned, left, admin,
                 steady, disturbed>>

\* Mutation of TryFails: get gives up at the first server that fails.
Mut_TryFails(c) ==
  /\ pc[c] \in {"take", "check"}
  /\ ban(cur[c], BanTime, TRUE)
  /\ Watch(c, {cur[c]})
  /\ tried' = [tried EXCEPT ![c] = @ \cup {cur[c]}]
  /\ Goto(c, "down")
  /\ UNCHANGED <<candidates, rank, cur, force, asked, admin>>

\* No connection within connect_timeout, or the health check fails.
TryFails(c) ==
  /\ pc[c] \in {"take", "check"}
  /\ ban(cur[c], BanTime, TRUE)
  /\ Watch(c, {cur[c]})
  /\ tried' = [tried EXCEPT ![c] = @ \cup {cur[c]}]
  /\ Goto(c, "next")
  /\ UNCHANGED <<candidates, rank, cur, force, asked, admin>>

HealthCheckOk(c) ==
  /\ pc[c] = "check"
  /\ Goto(c, "using")
  /\ UNCHANGED <<candidates, rank, cur, force, asked, tried, banned, left, errors, admin,
                 steady, disturbed>>

-----------------------------------------------------------------------------
(* The client after get has returned.                                      *)

Forget(c) ==
  /\ Goto(c, "idle")
  /\ candidates' = [candidates EXCEPT ![c] = {}]
  /\ rank' = [rank EXCEPT ![c] = NoRank]
  /\ cur' = [cur EXCEPT ![c] = Nobody]
  /\ force' = [force EXCEPT ![c] = FALSE]
  /\ asked' = [asked EXCEPT ![c] = {}]
  /\ tried' = [tried EXCEPT ![c] = {}]

\* The connection is returned, or the client is told that get failed.
Finish(c) ==
  /\ pc[c] \in {"using", "down"}
  /\ Forget(c)
  /\ steady' = [steady EXCEPT ![c] = {}]
  /\ disturbed' = [disturbed EXCEPT ![c] = FALSE]
  /\ UNCHANGED <<banned, left, errors, admin>>

\* A message cannot be sent to or received from the server, or (the only
\* reason that is not an error of the server) statement_timeout passes.
QueryFails(c, counts) ==
  /\ pc[c] = "using"
  /\ ban(cur[c], BanTime, counts)
  /\ steady' = [d \in Requests |-> IF d = c THEN {} ELSE steady[d] \ (banned' \cup {cur[c]})]
  /\ disturbed' = [d \in Requests |->
       d # c /\ (disturbed[d] \/ (pc[d] # "idle" /\ banned' # banned))]
  /\ Forget(c)
  /\ UNCHANGED admin

-----------------------------------------------------------------------------
(* BAN and UNBAN, one address of the host after the other.                 *)

Command(b, todo, sel, t) ==
  IF todo = {} /\ sel = Nobody THEN NoCommand
  ELSE [ban |-> b, todo |-> todo, sel |-> sel, time |-> t]

AdminCommand(h, b, t) ==
  /\ admin = NoCommand
  /\ admin' = Command(b, {a \in Addresses : HostOf[a] = h}, Nobody, t)
  /\ UNCHANGED <<getVars, banned, left, errors, steady, disturbed>>

\* is_banned
AdminCheck(a) ==
  /\ admin.sel = Nobody
  /\ a \in admin.todo
  /\ LET sel == IF a \in banned <=> admin.ban THEN Nobody ELSE a
     IN  admin' = Command(admin.ban, admin.todo \ {a}, sel, admin.time)
  /\ UNCHANGED <<getVars, banned, left, errors, steady, disturbed>>

\* ban or unban
AdminApply ==
  /\ admin.sel # Nobody
  /\ IF admin.ban THEN ban(admin.sel, admin.time, FALSE) ELSE Lift({admin.sel})
  /\ Watch(Nobody, {})
  /\ admin' = Command(admin.ban, admin.todo, Nobody, admin.time)
  /\ UNCHANGED getVars

-----------------------------------------------------------------------------
GetStep(c) ==
  \/ \E a \in Addresses : Consider(c, a)
  \/ Exhausted(c) \/ CountBanned(c) \/ ClearBans(c) \/ ReadEntry(c) \/ RemoveBan(c)
  \/ CheckoutOk(c) \/ TryFails(c) \/ HealthCheckOk(c)

Next ==
  \/ \E c \in Requests :
       \/ \E role \in Roles \cup {"any"}, shard \in Shards \cup {AnyShard} :
            GetStart(c, role, shard)
       \/ GetStep(c)
       \/ Finish(c)
       \/ \E counts \in BOOLEAN : QueryFails(c, counts)
  \/ \E a \in Addresses :
       \/ \E t \in AdminTimes : AdminCommand(HostOf[a], TRUE, t)
       \/ AdminTimes # {} /\ AdminCommand(HostOf[a], FALSE, 0)
       \/ AdminCheck(a)
  \/ AdminApply
  \/ Tick

Spec == Init /\ [][Next]_vars

\* The lock is held for a moment only, bb8 gives up after connect_timeout and
\* a health check after healthcheck_timeout.
FairSpec == Spec /\ \A c \in Requests : WF_vars(GetStep(c))
-----------------------------------------------------------------------------
(* Properties.                                                             *)

TypeOK ==
  /\ pc \in [Requests -> Looking \cup {"idle", "using", "down"}]
  /\ candidates \in [Requests -> SUBSET Addresses]
  /\ rank \in [Requests -> [Addresses -> Nat]]
  /\ cur \in [Requests -> Addresses \cup {Nobody}]
  /\ force \in [Requests -> BOOLEAN]
  /\ banned \subseteq Addresses
  /\ left \in [Addresses -> Int]
  /\ errors \in [Addresses -> 0..MaxErrors]
  /\ admin \in [ban: BOOLEAN, todo: SUBSET Addresses, sel: Addresses \cup {Nobody}, time: Nat]
  /\ asked \in [Requests -> SUBSET Addresses]
  /\ tried \in [Requests -> SUBSET Addresses]
  /\ steady \in [Requests -> SUBSET Addresses]
  /\ disturbed \in [Requests -> BOOLEAN]

\* No primary is ever on the ban list, whoever bans it: a failed checkout, a
\* failed query or the administrator (pool.rs:922).
PrimaryNeverBanned == \A a \in banned : RoleOf[a] # "primary"

\* A checkout answers AllServersDown (pool.rs:848) only if every one of its
\* candidates was on the ban list or failed some task while it looked: it does
\* not miss a server that was fine all the time, whatever the others do.
SteadyServed == \A c \in Requests : pc[c] = "down" => steady[c] = {}

\* A checkout that finds all its candidates banned still tries one of them
\* (the ban list is cleared, pool.rs:980) unless other tasks change the ban
\* list under it.
AllBannedTried ==
  \A c \in Requests :
    pc[c] = "down" => tried[c] # {} \/ disturbed[c] \/ asked[c] = {}

\* What a checkout knows of the address it is at.
CurRight ==
  \A c \in Requests :
    /\ pc[c] \in Trying \cup Unbanning => cur[c] \in Addresses
    /\ pc[c] = "down" => candidates[c] = {}

\* A server that has been fine all the time is still among the candidates, or
\* is the one that is tried.
SteadyAhead ==
  \A c \in Requests :
    /\ steady[c] \cap banned = {}
    /\ steady[c] \subseteq candidates[c] \cup (IF pc[c] \in Trying THEN {cur[c]} ELSE {})

\* With a replica, a checkout asks for all replicas of the shard.
AskedShards ==
  \A c \in Requests : \A a \in asked[c] :
    RoleOf[a] = "replica" => Replicas(ShardOf[a]) \subseteq asked[c]

\* The candidates a checkout has gone past without trying them.
Skipped(c) ==
  asked[c] \ (candidates[c] \cup IF pc[c] \in Unbanning THEN {cur[c]} ELSE {})

\* As long as nothing was tried and nobody else changed the ban list, they are
\* banned replicas of shards that are not banned altogether.
SkippedBanned ==
  \A c \in Requests :
    pc[c] \in Unbanning \cup {"next", "down"} /\ tried[c] = {} /\ ~disturbed[c] =>
      /\ \A a \in Skipped(c) : a \in banned /\ ~AllReplicasBanned(ShardOf[a])
      /\ pc[c] \in Unbanning => cur[c] \in banned
      /\ pc[c] = "entry" => ~AllReplicasBanned(ShardOf[cur[c]])

\* The inductive invariant behind the three properties above, of the loop of
\* get (pool.rs:768) and try_unban (pool.rs:962) under any interleaving.
BanInv ==
  /\ TypeOK
  /\ PrimaryNeverBanned
  /\ CurRight
  /\ SteadyAhead
  /\ AskedShards
  /\ SkippedBanned

\* A ban that has not expired is lifted only by UNBAN or because all replicas
\* of the shard are banned (README.md:178).
BanLasts ==
  [][\A a \in banned \ banned' :
       left[a] < 0 \/ AllReplicasBanned(ShardOf[a]) \/ admin.sel = a]_vars

\* The seconds an administrator banned a server for are not cut short
\* by another ban (tests/ruby/admin_spec.rb:55).
BanNotShortened ==
  [][\A a \in banned \cap banned' : left'[a] < left[a] => left'[a] = left[a] - 1]_vars

\* Every checkout ends, with a connection or with AllServersDown: the search
\* considers each candidate at most once (pool.rs:768).
GetReturns == \A c \in Requests : pc[c] \in Looking ~> pc[c] \in {"using", "down"}
=============================================================================
