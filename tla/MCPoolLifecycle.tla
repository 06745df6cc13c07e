--------------------------- MODULE MCPoolLifecycle ---------------------------
(* Instances of PoolLifecycle for TLC. *)
EXTENDS PoolLifecycle, TLC

CONSTANTS c1, c2, a1, a2, a3, a4

Conf(p, g) == [pool |-> p, general |-> g]

\* Two versions of the pool's section, and none.
PoolConfigs == {Conf("p1", "g1"), Conf("p2", "g1"), Conf("none", "g1")}

\* A change of the pool's section and a change of the general settings.
GeneralConfigs == {Conf("p1", "g1"), Conf("p1", "g2")}
=============================================================================
