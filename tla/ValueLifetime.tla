----------------------------- MODULE ValueLifetime -----------------------------
(***************************************************************************)
(* What a shard promises about the lifetime of the values bound to it      *)
(* (shard_handle.rs, the docs of ShardRc, ShardRcHandle and ShardWeak):    *)
(* a value in use is stored until the shard's store itself ends; a value   *)
(* that stays unused is destroyed; a destroyed value never comes back.     *)
(* Keys are numbered in the order their values are bound.                  *)
(***************************************************************************)
EXTENDS Naturals

CONSTANT MaxKeys

Keys == 1..MaxKeys

VARIABLES
  born,    (* values bound so far                                           *)
  stored,  (* the values of the shard                                       *)
  used,    (* the values some handle or call in flight refers to            *)
  ending   (* the store is being dropped                                    *)

vars == <<born, stored, used, ending>>

Init == born = 0 /\ stored = {} /\ used = {} /\ ending = FALSE

\* A new value starts in use, under a key no value had before.
BindValue ==
  /\ ~ending /\ born < MaxKeys
  /\ born' = born + 1
  /\ stored' = stored \cup {born + 1}
  /\ used' = used \cup {born + 1}
  /\ UNCHANGED ending

\* Only a stored value can come into use (again).
Use(k) ==
  /\ k \in stored
  /\ used' = used \cup {k}
  /\ UNCHANGED <<born, stored, ending>>

Unuse(k) ==
  /\ used' = used \ {k}
  /\ UNCHANGED <<born, stored, ending>>

\* Collection takes values nothing refers to.
Destroy(k) ==
  /\ k \in stored \ used
  /\ stored' = stored \ {k}
  /\ UNCHANGED <<born, used, ending>>

BeginEnd == ending' = TRUE /\ UNCHANGED <<born, stored, used>>

\* The end of the store takes every value with it, used or not.
Evict(S) ==
  /\ ending
  /\ stored' = stored \ S
  /\ \E gone \in SUBSET S : used' = used \ gone
  /\ UNCHANGED <<born, ending>>

Next ==
  \/ BindValue \/ BeginEnd
  \/ \E k \in Keys : Use(k) \/ Unuse(k) \/ Destroy(k)
  \/ \E S \in SUBSET stored : Evict(S)

\* What stays unused is destroyed.
Spec == Init /\ [][Next]_vars /\ \A k \in Keys : WF_vars(Destroy(k))
===============================================================================
