-------------------------- MODULE ServerConnection --------------------------
(***************************************************************************)
(* A connection to Postgres from birth to death: ServerPool::connect and   *)
(* Server::startup, the prewarmer, use by clients, is_bad and Drop         *)
(* (pool.rs, prewarmer.rs, server.rs), composed with DnsCache and Mirrors. *)
(* The exchange of messages of a login is one step here; ServerStartup has *)
(* it in full.                                                             *)
(***************************************************************************)
EXTENDS DnsCache, Mirrors

CONSTANTS
  Conns,           \* connections to the host, one at a time each
  Mirrored,        \* those of an address that has a mirror
  MaxBorn,         \* bound: connections made
  MaxSent          \* bound: messages sent on a connection that has a mirror

ASSUME ConnsAssumption ==
  /\ Mirrored \subseteq Conns
  /\ FirstAddrs \in Addrs
  /\ None \notin {"login", "idle", "active"}

VARIABLES
  conn,            \* of each place: see Nobody
  stats,           \* SERVER_STATS of it, or None
  born             \* how many connections were begun

vars == <<dnsVars, mirrors, conn, stats, born>>

\* No connection.  addr_set is what the lookup found, in the resolver it began with.
Nobody ==
  [at |-> "none", resolver |-> 0, addr_set |-> None, mirror |-> 0, sent |-> 0, bad |-> FALSE]

Init ==
  /\ DnsInit
  /\ mirrors = <<>>
  /\ conn = [k \in Conns |-> Nobody]
  /\ stats = [k \in Conns |-> None]
  /\ born = 0

-----------------------------------------------------------------------------
(* The end of a connection, or of the attempt to make one *)

\* Mutation of StartupFails: the statistics keep the connection.
Mut_StartupFails(k) ==
  /\ conn' = [conn EXCEPT ![k] = Nobody]
  /\ UNCHANGED stats

\* connect, the error case: no mirror was started.
StartupFails(k) ==
  /\ conn' = [conn EXCEPT ![k] = Nobody]
  /\ stats' = [stats EXCEPT ![k] = None]

\* Drop
Dropped(k) ==
  /\ IF k \in Mirrored THEN mirror_disconnect(conn[k].mirror) ELSE UNCHANGED mirrors
  /\ conn' = [conn EXCEPT ![k] = Nobody]
  /\ stats' = [stats EXCEPT ![k] = None]

-----------------------------------------------------------------------------
(* Server::startup up to the socket *)

\* A new connection is asked for; it is known to the statistics at once.
Connect(k) ==
  /\ conn[k].at = "none"
  /\ born < MaxBorn
  /\ born' = born + 1
  /\ stats' = [stats EXCEPT ![k] = "login"]
  /\ conn' = [conn EXCEPT
                ![k].at = IF resolver.enabled /\ resolver.data = None THEN "lookup" ELSE "socket",
                ![k].resolver = resolver.id,
                ![k].addr_set = IF resolver.enabled THEN resolver.data ELSE None]
  /\ UNCHANGED <<dnsVars, mirrors>>

\* A miss: DNS is asked, and what it said is stored when it arrives.
LookupAnswer(k) ==
  /\ conn[k].at = "lookup"
  /\ conn' = [conn EXCEPT ![k].at = "answered", ![k].addr_set = dns]
  /\ UNCHANGED <<dnsVars, mirrors, stats, born>>

LookupStore(k) ==
  /\ conn[k].at = "answered"
  /\ store_in_cache(conn[k].resolver, conn[k].addr_set)
  /\ conn' = [conn EXCEPT ![k].at = "socket"]
  /\ UNCHANGED <<dns, refresh, flips, mirrors, stats, born>>

\* An error is only logged.
LookupError(k) ==
  /\ conn[k].at = "lookup"
  /\ conn' = [conn EXCEPT ![k].at = "socket"]
  /\ UNCHANGED <<dnsVars, mirrors, stats, born>>

\* The socket resolves the name anew, and pgcat logs in; the mirror is started last.
Login(k) ==
  /\ conn[k].at = "socket"
  /\ IF k \in Mirrored THEN spawn ELSE UNCHANGED mirrors
  /\ conn' = [conn EXCEPT ![k].at = "prewarm", ![k].resolver = 0,
                           ![k].mirror = IF k \in Mirrored THEN Len(mirrors') ELSE 0]
  /\ UNCHANGED <<dnsVars, stats, born>>

\* The connection cannot be made or breaks, or the login fails.
Broken(k) ==
  /\ conn[k].at = "socket"
  /\ StartupFails(k)
  /\ UNCHANGED <<dnsVars, mirrors, born>>

-----------------------------------------------------------------------------
(* In the pool *)

\* The prewarmer's queries; if one fails the Server is dropped.
Prewarm(k) ==
  /\ conn[k].at = "prewarm"
  /\ \/ /\ conn' = [conn EXCEPT ![k].at = "idle"]
        /\ stats' = [stats EXCEPT ![k] = "idle"]
        /\ UNCHANGED mirrors
     \/ Dropped(k)
  /\ UNCHANGED <<dnsVars, born>>

CheckOut(k) ==
  /\ conn[k].at = "idle"
  /\ conn' = [conn EXCEPT ![k].at = "used"]
  /\ stats' = [stats EXCEPT ![k] = "active"]
  /\ UNCHANGED <<dnsVars, mirrors, born>>

\* send: to the mirror, then to the server; if that fails the connection is bad.
Send(k) ==
  /\ conn[k].at = "used" /\ k \in Mirrored
  /\ ~conn[k].bad /\ conn[k].sent < MaxSent
  /\ mirror_send(conn[k].mirror, conn[k].sent + 1)
  /\ \E bad \in BOOLEAN : conn' = [conn EXCEPT ![k].sent = @ + 1, ![k].bad = bad]
  /\ UNCHANGED <<dnsVars, stats, born>>

\* A receive fails, or a client leaves it in the middle of something.
MarkBad(k) ==
  /\ conn[k].at = "used"
  /\ ~conn[k].bad
  /\ conn' = [conn EXCEPT ![k].bad = TRUE]
  /\ UNCHANGED <<dnsVars, mirrors, stats, born>>

is_bad(k) ==
  \/ conn[k].bad
  \/ resolver.enabled /\ conn[k].addr_set # None /\ has_changed(conn[k].addr_set)

\* The pool takes the connection back unless has_broken says otherwise.
CheckIn(k) ==
  /\ conn[k].at = "used"
  /\ IF is_bad(k)
     THEN Dropped(k)
     ELSE /\ conn' = [conn EXCEPT ![k].at = "idle"]
          /\ stats' = [stats EXCEPT ![k] = "idle"]
          /\ UNCHANGED mirrors
  /\ UNCHANGED <<dnsVars, born>>

\* idle_timeout and server_lifetime
Reap(k) ==
  /\ conn[k].at = "idle"
  /\ Dropped(k)
  /\ UNCHANGED <<dnsVars, born>>

-----------------------------------------------------------------------------

Starting(k) ==
  \/ LookupAnswer(k)
  \/ LookupStore(k)
  \/ Login(k)
  \/ Prewarm(k)

Next ==
  \/ \E k \in Conns :
       \/ Connect(k)
       \/ Starting(k)
       \/ LookupError(k)
       \/ Broken(k)
       \/ CheckOut(k)
       \/ Send(k)
       \/ MarkBad(k)
       \/ CheckIn(k)
       \/ Reap(k)
  \/ Dns /\ UNCHANGED <<mirrors, conn, stats, born>>
  \/ (\E t \in DOMAIN mirrors : MirrorTask(t)) /\ UNCHANGED <<dnsVars, conn, stats, born>>

Spec == Init /\ [][Next]_vars

\* A startup goes on as long as the backend does; clients keep using the
\* connections; DNS does not fail for ever; a mirror can be reached again and
\* again, and select! does not overlook a channel for ever.
FairSpec ==
  /\ Spec
  /\ \A k \in Conns :
       /\ WF_vars(Starting(k))
       /\ WF_vars(CheckOut(k) \/ CheckIn(k))
  /\ WF_vars((RefreshAsk \/ RefreshStore) /\ UNCHANGED <<mirrors, conn, stats, born>>)
  /\ SF_vars(RefreshAnswer /\ UNCHANGED <<mirrors, conn, stats, born>>)
  /\ \A t \in 1..MaxBorn :
       /\ WF_vars(t \in DOMAIN mirrors /\ MirrorGet(t) /\ UNCHANGED <<dnsVars, conn, stats, born>>)
       /\ SF_vars(t \in DOMAIN mirrors /\ MirrorExit(t) /\ UNCHANGED <<dnsVars, conn, stats, born>>)

-----------------------------------------------------------------------------
(* Properties *)

\* However a connection or a startup ends, nothing of it stays behind: the statistics
\* show exactly the connections there are, and every mirror without a
\* connection was told to end.
NoTrace ==
  /\ \A k \in Conns : stats[k] = None <=> conn[k].at = "none"
  /\ \A t \in DOMAIN mirrors : mirrors[t].exit \/ \E k \in Mirrored : conn[k].mirror = t

\* A mirror is sent a part of what its server was sent, in the same order and once,
\* whatever is lost on the way.
MirrorInOrder ==
  \A t \in DOMAIN mirrors :
    LET m == <<mirrors[t].last>> \o mirrors[t].bytes
    IN  /\ \A i \in 1..(Len(m) - 1) : m[i] < m[i + 1]
        /\ \A k \in Mirrored : conn[k].mirror = t => m[Len(m)] =< conn[k].sent

TypeOK ==
  /\ dns \in Addrs
  /\ resolver \in [id : Nat, enabled : BOOLEAN, data : Addrs \cup {None}]
  /\ refresh \in [at : {"sleep", "asked", "answered"}, old : Addrs \cup {None},
                  new : Addrs \cup {None}]
  /\ mirrors \in Seq([at : {"get", "select", "done"}, bytes : Seq(Nat), exit : BOOLEAN, last : Nat])
  /\ conn \in [Conns -> [at : {"none", "lookup", "answered", "socket", "prewarm", "idle", "used"},
                         resolver : Nat, addr_set : Addrs \cup {None}, mirror : Nat,
                         sent : Nat, bad : BOOLEAN]]
  /\ stats \in [Conns -> {None, "login", "idle", "active"}]

\* What the two rest on: exactly the connections that are ready, of an address that
\* has a mirror, have a task, each a task of its own.
OwnMirror ==
  /\ \A k \in Conns :
       conn[k].mirror \in IF k \in Mirrored /\ conn[k].at \in {"prewarm", "idle", "used"}
                          THEN DOMAIN mirrors ELSE {0}
  /\ \A k, l \in Mirrored : conn[k].mirror = conn[l].mirror /\ conn[k].mirror # 0 => k = l

ConnInv == TypeOK /\ OwnMirror /\ NoTrace /\ MirrorInOrder

\* The mirror of a dropped connection ends.
MirrorEnds ==
  \A t \in 1..MaxBorn :
    (t \in DOMAIN mirrors /\ \A k \in Mirrored : conn[k].mirror # t)
    ~> (t \in DOMAIN mirrors /\ mirrors[t].at = "done")

\* While the cache is on and knows the host, the connections that remain in use are, in
\* the end, those whose lookup agrees with DNS.
DnsFollowed ==
  <>[](resolver.enabled /\ resolver.data # None)
  => <>[](\A k \in Conns :
            conn[k].at \in {"idle", "used"} /\ conn[k].addr_set # None
            => conn[k].addr_set = dns)
=============================================================================
