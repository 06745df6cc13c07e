------------------------------- MODULE Config -------------------------------
(***************************************************************************)
(* What a configuration file says of one pool, and which files are         *)
(* accepted (config.rs): parse fills up the auth_query settings of the     *)
(* pool from the general ones, then validates.  Then the pool that         *)
(* from_config builds from an accepted one (pool.rs).                      *)
(*                                                                         *)
(* A configuration is [general, pool].  Settings that are only copied, and *)
(* the checks of numbers, of regular expressions and of certificate files  *)
(* that concern one setting each, are the one flag wellformed.             *)
(***************************************************************************)
EXTENDS Naturals, Sequences, FiniteSets, Functions

CONSTANT None    \* Option::None

Roles == {"primary", "replica"}

\* A server is [host, role]; shards maps the number of a shard to its servers.
ShardValid(servers) ==
  /\ servers # <<>>
  /\ Cardinality({i \in DOMAIN servers : servers[i].role = "primary"}) <= 1
  /\ IsInjective(servers)

PoolValid(p) ==
  /\ p.default_role \in Roles \cup {"any"}
  /\ \A id \in DOMAIN p.shards : ShardValid(p.shards[id])
  /\ p.query_parser_read_write_splitting => p.query_parser_enabled
  /\ p.plugins => p.query_parser_enabled
  /\ p.default_shard # None => p.default_shard < Cardinality(DOMAIN p.shards)
  /\ p.min_pool_size # None => p.min_pool_size <= p.pool_size

\* The query itself is not asked for.
is_auth_query_configured(p) == p.auth_query_user # None /\ p.auth_query_password # None

\* What validate asks of a section.
HasAuthQuery(x) ==
  x.auth_query # None /\ x.auth_query_user # None /\ x.auth_query_password # None

Or(a, b) == IF a = None THEN b ELSE a

fill_up_auth_query_config(c) ==
  [c EXCEPT !.pool.auth_query = Or(@, c.general.auth_query),
            !.pool.auth_query_user = Or(@, c.general.auth_query_user),
            !.pool.auth_query_password = Or(@, c.general.auth_query_password)]

\* Mutation of Valid: a user without a password is fine wherever auth_query has a user.
Mut_Valid(c) ==
  /\ c.general.auth_query # None => HasAuthQuery(c.general)
  /\ c.pool.auth_query_user # None \/ c.pool.password # None
  /\ c.wellformed
  /\ PoolValid(c.pool)

\* validate, of a configuration that was filled up.
Valid(c) ==
  /\ c.general.auth_query # None => HasAuthQuery(c.general)
  /\ c.pool.auth_query # None => HasAuthQuery(c.pool)
  /\ HasAuthQuery(c.pool) \/ c.pool.password # None
  /\ c.wellformed
  /\ PoolValid(c.pool)

-----------------------------------------------------------------------------
(* from_config *)

\* The shards are sorted by number and then counted from 0.
shard_ids(p) ==
  CHOOSE ids \in [1..Cardinality(DOMAIN p.shards) -> DOMAIN p.shards] :
    \A i, j \in DOMAIN ids : i < j => ids[i] < ids[j]

\* Every address is known by the number of its shard and its place there; the
\* replicas of a shard are numbered in order.
Addresses(p) ==
  [i \in 1..Cardinality(DOMAIN p.shards) |->
     LET id == shard_ids(p)[i]
         servers == p.shards[id]
     IN  [j \in DOMAIN servers |->
            [shard |-> id, host |-> servers[j].host, role |-> servers[j].role,
             replica |-> Cardinality({k \in 1..(j - 1) : servers[k].role = "replica"})]]]
=============================================================================
