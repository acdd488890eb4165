-------------------------------- MODULE MCCalls --------------------------------
(* A small instance of Calls: v1 and v2 share shard s1, v3 is on s2.            *)
EXTENDS Calls, TLC

CONSTANTS s1, s2, v1, v2, v3, c1, c2

TwoShards   == {s1, s2}
JustOne     == {s1}
ThreeValues == {v1, v2, v3}
OwnerOf     == v1 :> s1 @@ v2 :> s1 @@ v3 :> s2
TwoCalls    == {c1, c2}
===============================================================================
