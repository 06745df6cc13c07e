--------------------------- MODULE MCClientStartup ---------------------------
(* Instances of ClientStartup for TLC. *)
EXTENDS ClientStartup, TLC

CONSTANTS c1, c2, h1, h2, p1, p2

\* One client tries everything, the other is a user of the pool.
Asks_ == c1 :> ({"pool", "pgcat"} \X {p1, p2} \cup {<<"other", p1>>}) @@ c2 :> {<<"pool", p2>>}

\* One primary on each of two shards.
Two == 0 :> <<[host |-> h1, role |-> "primary"]>> @@ 1 :> <<[host |-> h2, role |-> "primary"]>>

\* One server.
Solo == 0 :> <<[host |-> h1, role |-> "primary"]>>

\* One shard of which both servers claim to be the primary.
Twice == 0 :> <<[host |-> h1, role |-> "primary"], [host |-> h2, role |-> "primary"]>>

\* A primary and a replica.
One == 0 :> <<[host |-> h1, role |-> "primary"], [host |-> h2, role |-> "replica"]>>

\* auth_query in the general section, for a pool that says nothing of it.
ByQuery ==
  [wellformed |-> TRUE,
   general |-> [auth_query |-> "q", auth_query_user |-> "u", auth_query_password |-> "w",
                validate_config |-> FALSE],
   pool |-> [auth_query |-> "q", auth_query_user |-> "u", auth_query_password |-> "w",
             auth_type |-> "md5", password |-> None, default_role |-> "any",
             shards |-> Solo, default_shard |-> 0, plugins |-> FALSE,
             query_parser_enabled |-> FALSE, query_parser_read_write_splitting |-> FALSE,
             min_pool_size |-> None, pool_size |-> 1]]

\* The pool names its own query and takes the user and the password of the general one.
Partly == [ByQuery EXCEPT !.pool.auth_query_user = None, !.pool.auth_query_password = None,
                          !.pool.query_parser_enabled = TRUE,
                          !.pool.query_parser_read_write_splitting = TRUE]

\* No auth_query, and no user and password for it.
Unset == [auth_query |-> None, auth_query_user |-> None, auth_query_password |-> None]

\* The password in clear text and no auth_query anywhere; with the user and the password
\* for a query but none; and with all three.
Clear == [ByQuery EXCEPT !.general = Unset @@ @, !.pool = Unset @@ @,
                         !.pool.password = p1, !.pool.shards = Two, !.pool.default_shard = 1,
                         !.general.validate_config = TRUE]
Half == [ByQuery EXCEPT !.general.auth_query = None, !.pool.auth_query = None,
                        !.pool.password = p1]
Both == [ByQuery EXCEPT !.pool.password = p1]

Trusting == [ByQuery EXCEPT !.pool.default_shard = None, !.pool.auth_type = "trust",
                            !.pool.shards = One]

\* Files that are not accepted.
NoWay == [Clear EXCEPT !.pool.password = None, !.pool.auth_query_user = "u"]
NoUser == [Clear EXCEPT !.general.auth_query = "q"]
NoShard == [ByQuery EXCEPT !.pool.default_shard = 1]
TwoPrimaries == [ByQuery EXCEPT !.pool.shards = Twice]
BadRole == [ByQuery EXCEPT !.pool.default_role = "both"]
BadSplit == [ByQuery EXCEPT !.pool.query_parser_read_write_splitting = TRUE]
BadSize == [ByQuery EXCEPT !.pool.min_pool_size = 2]

Files == {ByQuery, Partly, Clear, Half, Both, Trusting,
          NoWay, NoUser, NoShard, TwoPrimaries, BadRole, BadSplit, BadSize}
=============================================================================
