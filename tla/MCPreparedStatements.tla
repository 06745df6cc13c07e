------------------------ MODULE MCPreparedStatements ------------------------
(* Instances of PreparedStatements for TLC. *)
EXTENDS PreparedStatements, TLC

CONSTANTS c1, c2, n1, n2, t1, t2, bad, s1, s2

\* Clients and valid texts are interchangeable.
Symm == Permutations({c1, c2}) \cup Permutations({t1, t2})
=============================================================================
