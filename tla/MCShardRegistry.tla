--------------------------- MODULE MCShardRegistry ---------------------------
(* Small instances of ShardRegistry.  No symmetry, because the first run      *)
(* checks liveness as well.                                                  *)
EXTENDS ShardRegistry

CONSTANTS s1, s2

\* Callbacks of s1 may join s2, and s1 itself, which is refused.
OneWay == {<<s1, s2>>, <<s1, s1>>}
NoneJoin == {}
===============================================================================
