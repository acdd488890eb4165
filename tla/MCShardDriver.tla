---------------------------- MODULE MCShardDriver ----------------------------
(* A small instance of ShardDriver: c1 is the main future.  No symmetry,       *)
(* because the run checks liveness as well.                                   *)
EXTENDS ShardDriver

CONSTANTS c1, c2, c3, k1, k2

ThreeCalls == {c1, c2, c3}
TwoTasks   == {k1, k2}
===============================================================================
