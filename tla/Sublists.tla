-------------------------------- MODULE Sublists --------------------------------
(* Taking some of the entries of a list, in their order, as Rust's partition, *)
(* retain and filter do: unregister_shard takes a shard's entries out of the  *)
(* registry, ShardRc::connect keeps the groups that are still connected, a    *)
(* scan of an event dispatches to the connections it did not reject, and      *)
(* conditions copies the attributes that decide about builds.                 *)
(* A recursive function, and not SelectSeq, so that it can be proved about.   *)
EXTENDS Naturals, Sequences

\* The entries of a list.
Entries(s) == {s[i] : i \in 1..Len(s)}

\* Keeping(s, S)[n] is what a pass over s that keeps the members of S has kept
\* after n entries.
Keeping(s, S) ==
  LET kept[n \in 0..Len(s)] ==
        IF n = 0 THEN <<>>
        ELSE IF s[n] \in S THEN Append(kept[n - 1], s[n]) ELSE kept[n - 1]
  IN kept

\* The entries of s that are members of S.
Filtered(s, S) == Keeping(s, S)[Len(s)]
===============================================================================
