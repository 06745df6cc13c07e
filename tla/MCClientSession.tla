-------------------------- MODULE MCClientSession --------------------------
(* Instances of ClientSession for TLC. *)
EXTENDS ClientSession, TLC

CONSTANTS c1, c2, s1, s2

\* Clients are interchangeable, and so are the connections of the pool.
Symm == Permutations({c1, c2}) \cup Permutations({s1, s2})

\* What the clients send.  Transactions: blocks, session state, COPY FROM STDIN
\* inside and outside a block, and a message that ends a task on the spot.
Transactions ==
  {"begin", "commit", "set", "copyin", "begincopy", "copydone",
   "sync_only", "unknown_statement", "terminate"}

\* A session with state to clean up.
Sessions == {"begin", "prepare", "parse_named", "plugin", "terminate"}

\* Just enough for one client to be in the way of another.
Short == {"select", "begin", "unknown_statement", "terminate"}
=============================================================================
