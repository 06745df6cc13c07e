----------------------------- MODULE MCBanlist -----------------------------
(* Instances of Banlist for TLC. *)
EXTENDS Banlist, TLC

CONSTANTS c1, c2, p1, r1, r2, r3, s0, s1

\* One shard with a primary and two replicas.
OneShard == {p1, r1, r2}
\* A shard with a primary and a replica, and one with a replica.
TwoShards == {p1, r1, r3}

Roles_ == [a \in Addresses |-> IF a = p1 THEN "primary" ELSE "replica"]
Shards_ == [a \in Addresses |-> IF a = r3 THEN s1 ELSE s0]
\* The primary shares its host with a replica.
Hosts_ == [a \in Addresses |-> IF a = r2 THEN "h2" ELSE "h1"]
=============================================================================
