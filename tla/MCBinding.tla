------------------------------- MODULE MCBinding -------------------------------
(* A small instance of Binding: a background shard, a main shard, and a       *)
(* thread that hosts none.                                                    *)
EXTENDS Binding

CONSTANTS w, m, h, o

\* The thread o may wait for both shards, and w for the main shard.
Upwards == {<<o, w>>, <<o, h>>, <<w, h>>}
HostOfMain == [s \in {m} |-> h]
===============================================================================
