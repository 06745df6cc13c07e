--------------------------- MODULE MCQueryRouter ---------------------------
(***************************************************************************)
(* QueryRouter for TLC: two shards, the table "data" sharded by "id", and  *)
(* the table "log", which is not.                                          *)
(***************************************************************************)
EXTENDS QueryRouter, TLC

CONSTANTS c1, c2

mc_Keys == 0..2
mc_HashOf == [k \in mc_Keys |-> k]

Id == [col |-> "id", of |-> None]
DataId == [col |-> "id", of |-> "data"]
Col == [col |-> "c", of |-> None]
Num(k) == [num |-> k]
Ph(i) == [ph |-> i]
Eq(l, r) == [op |-> "=", l |-> l, r |-> r]
And(l, r) == [op |-> "AND", l |-> l, r |-> r]
Or(l, r) == [op |-> "OR", l |-> l, r |-> r]
Less(l, r) == [op |-> "<", l |-> l, r |-> r]

Stmt(kind, target, from, exprs) ==
  [kind |-> kind, target |-> target, from |-> from, exprs |-> exprs, locks |-> FALSE,
   mutation |-> FALSE, sets |-> {}]
Select(e) == Stmt("query", None, {"data"}, {e})
SelectLog == Stmt("query", None, {"log"}, {})
Lock == [SelectLog EXCEPT !.locks = TRUE]
Update(e) == Stmt("update", "data", {}, {e})
Insert(k) == Stmt("insert", "data", {}, {Eq(Id, Num(k)), Eq(Col, Num(0))})
Begin == Stmt("begin", None, {}, {})

Text(ast) == [hint |-> <<>>, parses |-> TRUE, ast |-> ast]

\* Of the first client: conditions on the key in the forms the parser knows; a
\* write before and after reads, on one shard and on two; a transaction; a hint;
\* statements with parameters; a role, and a shard that is out of range.  The
\* second client only writes.
mc_Queries ==
  (c1 :> {Text(<<Select(Or(Eq(Id, Num(0)), Eq(Id, Num(2)))),
                 Update(And(Less(Col, Num(2)), Eq(DataId, Num(2))))>>),
          Text(<<Select(Eq(Id, Num(1))), Update(Eq(Id, Num(2)))>>),
          Text(<<SelectLog, Insert(1), SelectLog>>),
          Text(<<Select(Less(Id, Num(2))), SelectLog>>),
          Text(<<Begin>>),
          Text(<<Stmt("query", None, {"audit"}, {})>>),
          [Text(<<Select(Eq(Id, Num(0)))>>) EXCEPT !.hint = [shard |-> 1]]}
   @@ c2 :> {Text(<<Update(Less(Id, Num(2)))>>)})
mc_Parses ==
  (c1 :> {Text(<<Select(Eq(Id, Ph(1)))>>),
          Text(<<Select(And(Less(Col, Ph(1)), Eq(Id, Ph(2))))>>),
          Text(<<Stmt("query", None, {"audit"}, {})>>)}
   @@ c2 :> {})
mc_Bindings == (c1 :> {<<1, 2>>} @@ c2 :> {})
mc_Commands ==
  (c1 :> {[set |-> "role", to |-> "replica"], [set |-> "role", to |-> "auto"],
          [set |-> "shard", to |-> 2]}
   @@ c2 :> {})

\* A parameter that is compared with a column that is not the key.
mc_AnyParses == (c1 :> {Text(<<Select(And(Eq(Col, Ph(1)), Eq(Id, Num(2))))>>)})
mc_NoQueries == (c1 :> {})

Sharded ==
  [shards |-> 2, default_role |-> None, default_shard |-> 0,
   query_parser_enabled |-> TRUE, query_parser_read_write_splitting |-> TRUE,
   primary_reads_enabled |-> FALSE, automatic_sharding_key |-> [of |-> "data", col |-> "id"],
   shard_id_regex |-> TRUE, sharding_key_regex |-> FALSE,
   db_activity_based_routing |-> FALSE, denied |-> {}, intercepted |-> {}]
Active ==
  [Sharded EXCEPT !.db_activity_based_routing = TRUE, !.automatic_sharding_key = None,
                 !.denied = {"audit"}]
Fewer == [Sharded EXCEPT !.shards = 1, !.automatic_sharding_key = None]
mc_Settings == {Sharded, Active, Fewer}
mc_Reloads == {<<Sharded, Fewer>>, <<Fewer, Sharded>>}
=============================================================================
