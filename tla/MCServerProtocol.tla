-------------------------- MODULE MCServerProtocol --------------------------
(* Instances of ServerProtocol for TLC. *)
EXTENDS ServerProtocol

CONSTANTS c1, c2

M(k) == [k |-> k, v |-> 1]
S(v) == [k |-> "S", v |-> v]

\* The right password, a wrong one, the right hash, and nothing at all.
Creds_ ==
  {[password |-> "right", hash |-> None], [password |-> "wrong", hash |-> None],
   [password |-> None, hash |-> md5("right", None)], [password |-> None, hash |-> None]}

\* The replies to one statement, outside and inside a transaction.
Plain ==
  {<<M("T"), M("D"), M("D"), M("C"), M("ZI")>>,                \* SELECT
   <<M("C"), M("ZT")>>,                                        \* BEGIN
   <<M("T"), M("D"), M("E"), M("ZE")>>,                        \* fails after a row
   <<S(2), M("CSET"), M("ZI")>>, <<S(2), M("CSET"), M("ZT")>>, \* SET
   <<S(1), M("C"), M("ZI")>>,                                  \* ROLLBACK, RESET
   <<M("H"), M("d"), M("d"), M("c"), M("C"), M("ZI")>>,        \* COPY TO STDOUT
   <<M("G"), M("C"), M("ZI")>>, <<M("G"), M("C"), M("ZT")>>,   \* COPY FROM STDIN
   <<M("G"), M("E"), M("ZI")>>}

\* COPY FROM STDIN and a SELECT in one query string.
Mixed == Plain \cup {<<M("G"), M("C"), M("T"), M("D"), M("D"), M("C"), M("ZI")>>}
=============================================================================
