------------------------------ MODULE ShardScopes ------------------------------
(***************************************************************************)
(* Which shard owns an eventful type (eventful-rs-macros, affinity.rs):    *)
(* #[sharded] rewrites the types of its module through paths to an alias,  *)
(* rustc expands the attributes from the outside in, and #[eventful] uses  *)
(* what it then finds.  A path that is one super:: off would compile.      *)
(* A unit of source is a tree of inline modules: module 0 is the file, and *)
(* each module has one eventful type.                                      *)
(***************************************************************************)
EXTENDS Naturals, Sequences

CONSTANT MaxModules  (* inline modules of a unit (bound)                    *)

ASSUME ScopesAssumption == MaxModules \in Nat

VARIABLES
  tree,        (* input: the modules of the unit, their scopes and types    *)
  pick,        (* pick[m]: the shard argument of the #[eventful] in m       *)
  aliased,     (* modules that define __EventfulScopeShard                  *)
  shard        (* shard[m]: the shard type generated for the type in m      *)

affinity == <<tree, pick, aliased, shard>>

Mods == 0..MaxModules
Unset == <<>>

\* parent, #[sharded] on the module, use_shard! in it, shard = Marker on its
\* type.  (A file cannot carry #[sharded].)
Trees ==
  {t \in [parent : [Mods -> Mods], scoped : [Mods -> BOOLEAN],
          file : [Mods -> BOOLEAN], explicit : [Mods -> BOOLEAN]] :
     /\ \A m \in Mods : IF m = 0 THEN t.parent[m] = 0 ELSE t.parent[m] < m
     /\ ~t.scoped[0]}

Written(t) == [m \in Mods |-> IF t.explicit[m] THEN <<"Marker">> ELSE Unset]

\* Enclosing[m]: m and the modules around it.
Enclosing ==
  LET up[m \in Mods] == {m} \cup (IF m = 0 THEN {} ELSE up[tree.parent[m]])
  IN up

\* One level further in, the alias is one more super:: away.
Deeper(path) == <<"super">> \o (IF Head(path) = "self" THEN Tail(path) ELSE path)

\* (Mutant of ScopePaths: modules with a scope of their own are entered.)
ScopePathsEverywhere(r) ==
  LET path[m \in Mods] ==
        IF m = r THEN <<"self">>
        ELSE IF m < r THEN Unset
        ELSE LET outer == path[tree.parent[m]]
             IN IF outer = Unset THEN Unset ELSE Deeper(outer)
  IN path

\* apply_scope: the path it gives each module inside r; modules with a scope
\* of their own, and what is in them, are left alone.
ScopePaths(r) ==
  LET path[m \in Mods] ==
        IF m = r THEN <<"self">>
        ELSE IF m < r \/ tree.scoped[m] THEN Unset
        ELSE LET outer == path[tree.parent[m]]
             IN IF outer = Unset THEN Unset ELSE Deeper(outer)
  IN path

\* The attributes around m have been expanded.
Reached(m) == \A a \in Enclosing[m] \ {m} : tree.scoped[a] => a \in aliased

\* #[sharded] on module r: types without a selection get the path.
ExpandSharded(r) ==
  /\ tree.scoped[r] /\ r \notin aliased /\ Reached(r)
  /\ pick' = [m \in Mods |-> IF pick[m] = Unset THEN ScopePaths(r)[m] ELSE pick[m]]
  /\ aliased' = aliased \cup {r}
  /\ UNCHANGED <<tree, shard>>

\* What rustc makes of a path to the alias, as seen from m.
Resolve(m, path) ==
  LET up[n \in 0..Len(path)] == IF n = 0 THEN m ELSE tree.parent[up[n - 1]]
      at == IF path = <<"self">> THEN m ELSE up[Len(path)]
  IN IF at \in aliased THEN <<"scope", at>> ELSE <<"error", m>>

\* #[eventful] in module m: the selection, or the alias that use_shard! makes.
ExpandEventful(m) ==
  /\ shard[m] = Unset
  /\ Reached(m)
  /\ tree.scoped[m] => m \in aliased
  /\ shard' = [shard EXCEPT ![m] =
       CASE pick[m] = <<"Marker">> -> <<"explicit", m>>
         [] pick[m] = Unset -> IF tree.file[m] THEN <<"file", m>> ELSE <<"error", m>>
         [] OTHER -> Resolve(m, pick[m])]
  /\ UNCHANGED <<tree, pick, aliased>>

-------------------------------------------------------------------------------
\* Nothing is expanded at first.
Unexpanded ==
  /\ pick = Written(tree)
  /\ aliased = {}
  /\ shard = [m \in Mods |-> Unset]

ScopesInit == tree \in Trees /\ Unexpanded

ScopesNext == \E m \in Mods : ExpandSharded(m) \/ ExpandEventful(m)

ScopesSpec == ScopesInit /\ [][ScopesNext]_affinity

-------------------------------------------------------------------------------
(* Properties.                                                               *)

ScopesTypeOK ==
  /\ tree \in Trees
  /\ pick \in [Mods -> Seq({"self", "super", "Marker"})]
  /\ aliased \subseteq Mods
  /\ shard \in [Mods -> {"explicit", "file", "scope", "error"} \X Mods \cup {Unset}]

\* The innermost scope around m, where there is one.
Innermost(m) ==
  LET around == {a \in Enclosing[m] : tree.scoped[a]}
  IN IF around = {} THEN Unset
     ELSE <<"scope", CHOOSE a \in around : \A b \in around : b <= a>>

\* The type in m belongs to the shard its source says: its own selection, else
\* that of the innermost #[sharded] module around it, else its module's
\* use_shard!; however the rewriting of one scope meets that of another.  A
\* path that is one super:: off would name another scope's shard and compile.
InnermostScopeWins ==
  \A m \in Mods : shard[m] # Unset =>
     shard[m] = IF tree.explicit[m] THEN <<"explicit", m>>
                ELSE IF Innermost(m) # Unset THEN Innermost(m)
                ELSE IF tree.file[m] THEN <<"file", m>> ELSE <<"error", m>>
===============================================================================
