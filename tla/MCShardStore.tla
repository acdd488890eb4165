----------------------------- MODULE MCShardStore -----------------------------
(* Small instances of ShardStore.                                            *)
EXTENDS ShardStore, TLC

\* Threads and tokens are interchangeable.  (Safety runs only.)
Symmetry == Permutations(Threads) \cup Permutations(RcIds)
===============================================================================
