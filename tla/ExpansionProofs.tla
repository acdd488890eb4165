---------------------------- MODULE ExpansionProofs ----------------------------
(***************************************************************************)
(* That the attribute macros decide right, whatever they are given.        *)
(*                                                                         *)
(* Scopes: for units with any number of modules, nested in any way, a type *)
(* gets the shard its source says.  A scope writes a path into exactly the *)
(* modules it is the innermost one of (PathsReachTheirOwn), and such a     *)
(* path leads from the module to the scope (PathsLead).  Both are          *)
(* inductions over the tree.  With them the invariant is that a type       *)
(* without a selection has the path of its innermost scope as soon as that *)
(* one has been expanded (PickOK).                                         *)
(*                                                                         *)
(* Signals: for interfaces of any length under attributes nested to any    *)
(* depth, every build has the signals the source declares.  What the macro *)
(* copies of an attribute, and the predicate it makes of that, hold in the *)
(* builds in which rustc keeps the item (ConditionFits, an induction over  *)
(* the nesting): so the guards and errors that the scan records            *)
(* (SignalsInv) are those that each build needs.                           *)
(***************************************************************************)
EXTENDS Expansion, SublistsProofs

-------------------------------------------------------------------------------
(* Which shard owns a type.                                                  *)

\* r is the innermost scope around m.
ScopeOf(r, m) ==
  /\ tree.scoped[r] /\ r \in Enclosing[m]
  /\ \A b \in Enclosing[m] : tree.scoped[b] => b <= r

PickOK(m) ==
  /\ tree.explicit[m] => pick[m] = <<"Marker">>
  /\ ~tree.explicit[m] =>
       /\ \A r \in aliased : ScopeOf(r, m) => pick[m] = ScopePaths(r)[m]
       /\ (\A r \in aliased : ~ScopeOf(r, m)) => pick[m] = Unset

SInv ==
  /\ ScopesTypeOK
  /\ \A r \in aliased : tree.scoped[r]
  /\ \A m \in Mods : PickOK(m)
  /\ InnermostScopeWins

Segments == {"self", "super", "Marker"}

-------------------------------------------------------------------------------
(* Recursion and induction over a tree.                                      *)

\* What holds of a module when it holds of all before it holds of all.
LEMMA ModsInduction ==
  ASSUME NEW T, \A m \in Mods : (\A k \in Mods : k < m => k \in T) => m \in T
  PROVE  Mods \subseteq T
<1> SUFFICES ASSUME Mods \ T # {} PROVE FALSE
  OBVIOUS
<1>1. Mods \subseteq Nat
  BY ScopesAssumption DEF Mods
<1>2. PICK x \in Mods \ T : \A y \in Mods \ T : x <= y
  BY <1>1, LeastNatural
<1>3. \A k \in Mods : k < x => k \in T
  BY <1>1, <1>2
<1> QED  BY <1>2, <1>3

\* On the nodes 0..N of a tree whose parents p come first, f has base at the root
\* and at any other node what step makes of the parent's value.
Follows(f, N, V, base, p, step) ==
  /\ f \in [0..N -> V]
  /\ \A m \in 0..N : f[m] = IF m = 0 THEN base ELSE step[m][f[p[m]]]

Recursive(N, V, base, p, step) ==
  /\ N \in Nat /\ base \in V /\ step \in [1..N -> [V -> V]]
  /\ \A m \in 1..N : p[m] \in 0..(m - 1)

\* There is such a function.
LEMMA TreeRecursion ==
  ASSUME NEW N, NEW V, NEW base, NEW p, NEW step, Recursive(N, V, base, p, step)
  PROVE  \E f : Follows(f, N, V, base, p, step)
<1> USE DEF Recursive
<1> DEFINE Fits(f, n) == \A m \in 0..n : f[m] = IF m = 0 THEN base ELSE step[m][f[p[m]]]
           T == {n \in Nat : n <= N => \E f \in [0..n -> V] : Fits(f, n)}
<1>1. 0 \in T
  <2>1. Fits([m \in 0..0 |-> base], 0)
    OBVIOUS
  <2>2. [m \in 0..0 |-> base] \in [0..0 -> V]
    OBVIOUS
  <2> QED  BY <2>1, <2>2
<1>2. ASSUME NEW n \in Nat, n \in T PROVE n + 1 \in T
  <2> SUFFICES ASSUME n + 1 <= N PROVE \E f \in [0..(n + 1) -> V] : Fits(f, n + 1)
    OBVIOUS
  <2>1. PICK f \in [0..n -> V] : Fits(f, n)
    BY <1>2
  <2>2. n + 1 \in 1..N /\ p[n + 1] \in 0..n
    OBVIOUS
  <2> DEFINE last == step[n + 1][f[p[n + 1]]]
             h == [m \in 0..(n + 1) |-> IF m = n + 1 THEN last ELSE f[m]]
  <2>3. last \in V
    BY <2>2
  <2>4. \A m \in 0..n : h[m] = f[m]
    OBVIOUS
  <2>5. h[n + 1] = last /\ n + 1 # 0
    OBVIOUS
  <2>6. h \in [0..(n + 1) -> V]
    BY <2>3
  <2> HIDE DEF h
  <2>7. ASSUME NEW m \in 0..(n + 1) PROVE h[m] = IF m = 0 THEN base ELSE step[m][h[p[m]]]
    <3>1. CASE m = n + 1
      <4>1. h[p[m]] = f[p[n + 1]]
        BY <2>2, <2>4, <3>1
      <4> QED  BY <2>5, <3>1, <4>1
    <3>2. CASE m \in 1..n
      <4>1. p[m] \in 0..n
        <5>1. m \in 1..N
          BY <3>2
        <5>2. p[m] \in 0..(m - 1)
          BY <5>1
        <5> QED  BY <3>2, <5>2
      <4>2. h[m] = f[m] /\ h[p[m]] = f[p[m]]
        BY <2>4, <3>2, <4>1
      <4> QED  BY <2>1, <3>2, <4>2
    <3>3. CASE m = 0
      BY <2>1, <2>4, <3>3
    <3> QED  BY <3>1, <3>2, <3>3
  <2> QED  BY <2>6, <2>7
<1> HIDE DEF T
<1>3. Nat \subseteq T
  BY <1>1, <1>2, SetInduction
<1> QED  BY <1>3 DEF T, Follows

\* The tree: parents come first, and the file carries no scope.
LEMMA TreeShape ==
  ASSUME tree \in Trees
  PROVE  /\ 0 \in Mods /\ Mods \subseteq Nat /\ ~tree.scoped[0]
         /\ tree.parent \in [Mods -> Mods] /\ tree.scoped \in [Mods -> BOOLEAN]
         /\ tree.file \in [Mods -> BOOLEAN] /\ tree.explicit \in [Mods -> BOOLEAN]
         /\ \A m \in Mods : m # 0 => tree.parent[m] < m
         /\ \A m \in 1..MaxModules : tree.parent[m] \in 0..(m - 1)
<1>1. /\ 0 \in Mods /\ Mods \subseteq Nat /\ Mods = 0..MaxModules
  BY ScopesAssumption DEF Mods
<1>2. /\ tree.parent \in [Mods -> Mods] /\ tree.scoped \in [Mods -> BOOLEAN]
      /\ tree.file \in [Mods -> BOOLEAN] /\ tree.explicit \in [Mods -> BOOLEAN]
      /\ ~tree.scoped[0]
      /\ \A m \in Mods : IF m = 0 THEN tree.parent[m] = 0 ELSE tree.parent[m] < m
  BY DEF Trees
<1>3. ASSUME NEW m \in 1..MaxModules PROVE tree.parent[m] \in 0..(m - 1)
  <2>1. m \in Mods /\ m # 0
    BY <1>1
  <2>2. tree.parent[m] \in Nat /\ tree.parent[m] < m
    BY <1>1, <1>2, <2>1
  <2> QED  BY <1>1, <2>1, <2>2
<1> QED  BY <1>1, <1>2, <1>3

\* A module is enclosed by itself and by what encloses its parent.
LEMMA EnclosingIs ==
  ASSUME tree \in Trees
  PROVE  /\ \A m \in Mods : Enclosing[m] = {m} \cup (IF m = 0 THEN {} ELSE Enclosing[tree.parent[m]])
         /\ \A m \in Mods : Enclosing[m] \subseteq 0..m
<1> DEFINE Is(f) == f = [m \in Mods |-> {m} \cup (IF m = 0 THEN {} ELSE f[tree.parent[m]])]
<1>1. \E f : Is(f)
  <2> DEFINE step == [m \in 1..MaxModules |-> [x \in SUBSET Mods |-> {m} \cup x]]
             p == tree.parent
  <2>1. \A m \in 1..MaxModules : p[m] \in 0..(m - 1)
    BY TreeShape
  <2>2. {0} \in SUBSET Mods /\ \A m \in 1..MaxModules : m \in Mods
    BY ScopesAssumption DEF Mods
  <2>3. step \in [1..MaxModules -> [SUBSET Mods -> SUBSET Mods]]
    BY <2>2
  <2>4. \A m \in 1..MaxModules : \A x \in SUBSET Mods : step[m][x] = {m} \cup x
    OBVIOUS
  <2> DEFINE V == SUBSET Mods
             base == {0}
  <2> HIDE DEF step, p
  <2>5. PICK f \in [0..MaxModules -> V] :
          \A m \in 0..MaxModules : f[m] = IF m = 0 THEN base ELSE step[m][f[p[m]]]
    <3>1. Recursive(MaxModules, V, base, p, step)
      BY <2>1, <2>2, <2>3, ScopesAssumption DEF Recursive
    <3> HIDE DEF V, base
    <3>2. \E f : Follows(f, MaxModules, V, base, p, step)
      BY <3>1, TreeRecursion, Zenon
    <3> QED  BY <3>2 DEF Follows
  <2>6. ASSUME NEW m \in Mods PROVE f[m] = {m} \cup (IF m = 0 THEN {} ELSE f[p[m]])
    <3>1. CASE m = 0
      BY <2>5, <3>1, ScopesAssumption
    <3>2. CASE m # 0
      <4>1. m \in 1..MaxModules /\ m \in 0..MaxModules
        BY <3>2, ScopesAssumption DEF Mods
      <4>2. p[m] \in 0..MaxModules
        BY <2>1, <4>1, ScopesAssumption
      <4>3. f[p[m]] \in SUBSET Mods
        BY <2>5, <4>2
      <4> QED  BY <2>4, <2>5, <3>2, <4>1, <4>3
    <3> QED  BY <3>1, <3>2
  <2>7. f = [m \in Mods |-> {m} \cup (IF m = 0 THEN {} ELSE f[p[m]])]
    BY <2>5, <2>6 DEF Mods
  <2> QED  BY <2>7 DEF p
<1>2. Enclosing = CHOOSE f : Is(f)
  BY DEF Enclosing
<1>3. Is(Enclosing)
  <2> HIDE DEF Is
  <2> QED  BY <1>1, <1>2
<1> DEFINE e == Enclosing
           T == {m \in Mods : e[m] \subseteq 0..m}
<1> HIDE DEF e
<1>4. \A m \in Mods : e[m] = {m} \cup (IF m = 0 THEN {} ELSE e[tree.parent[m]])
  BY <1>3 DEF e
<1>5. ASSUME NEW m \in Mods, \A k \in Mods : k < m => k \in T PROVE m \in T
  <2>1. m \in Nat /\ m \in 0..m
    BY TreeShape
  <2>2. CASE m = 0
    BY <1>4, <2>1, <2>2
  <2>3. CASE m # 0
    <3> DEFINE o == tree.parent[m]
    <3>1. o \in Mods /\ o \in Nat /\ o < m
      BY <2>3, TreeShape
    <3>2. e[o] \subseteq 0..o /\ 0..o \subseteq 0..m
      BY <1>5, <2>1, <3>1
    <3> QED  BY <1>4, <2>1, <2>3, <3>2
  <2> QED  BY <2>2, <2>3
<1> HIDE DEF T
<1>6. Mods \subseteq T
  BY <1>5, ModsInduction
<1> QED  BY <1>4, <1>6 DEF e, T

\* The path a scope gives a module, from the path it gives the parent.
LEMMA ScopePathsIs ==
  ASSUME tree \in Trees, NEW r \in Mods
  PROVE  /\ ScopePaths(r) \in [Mods -> Seq(Segments)]
         /\ \A m \in Mods :
              ScopePaths(r)[m] =
                IF m = r THEN <<"self">>
                ELSE IF m < r \/ tree.scoped[m] \/ ScopePaths(r)[tree.parent[m]] = Unset THEN Unset
                ELSE Deeper(ScopePaths(r)[tree.parent[m]])
<1> DEFINE Value(f, m) ==
             IF m = r THEN <<"self">>
             ELSE IF m < r \/ tree.scoped[m] THEN Unset
             ELSE LET outer == f[tree.parent[m]]
                  IN IF outer = Unset THEN Unset ELSE Deeper(outer)
           Is(f) == f = [m \in Mods |-> Value(f, m)]
           V == Seq(Segments)
<1>1. <<"self">> \in V /\ Unset \in V
  BY DEF Segments, Unset
<1>2. ASSUME NEW x \in V, x # Unset PROVE Deeper(x) \in V
  <2>1. Tail(x) \in V /\ <<"super">> \in V
    BY <1>2 DEF Segments, Unset
  <2> QED  BY <2>1 DEF Deeper
<1>3. \E f \in [Mods -> V] : Is(f)
  <2> DEFINE step == [m \in 1..MaxModules |-> [x \in V |->
                       IF m = r THEN <<"self">>
                       ELSE IF m < r \/ tree.scoped[m] THEN Unset
                       ELSE IF x = Unset THEN Unset ELSE Deeper(x)]]
             base == IF 0 = r THEN <<"self">> ELSE Unset
             p == tree.parent
  <2>1. \A m \in 1..MaxModules : p[m] \in 0..(m - 1)
    BY TreeShape
  <2>2. base \in V
    BY <1>1
  <2> HIDE DEF V
  <2>3. step \in [1..MaxModules -> [V -> V]]
    BY <1>1, <1>2
  <2>4. \A m \in 1..MaxModules : \A x \in V :
          step[m][x] = IF m = r THEN <<"self">>
                       ELSE IF m < r \/ tree.scoped[m] THEN Unset
                       ELSE IF x = Unset THEN Unset ELSE Deeper(x)
    OBVIOUS
  <2> HIDE DEF step, p, base
  <2>5. PICK f \in [0..MaxModules -> V] :
          \A m \in 0..MaxModules : f[m] = IF m = 0 THEN base ELSE step[m][f[p[m]]]
    <3>1. Recursive(MaxModules, V, base, p, step)
      BY <2>1, <2>2, <2>3, ScopesAssumption DEF Recursive
    <3>2. \E f : Follows(f, MaxModules, V, base, p, step)
      BY <3>1, TreeRecursion, Zenon
    <3> QED  BY <3>2 DEF Follows
  <2>6. ASSUME NEW m \in Mods PROVE f[m] = Value(f, m)
    <3>1. CASE m = 0
      <4>1. m # r => m < r
        BY <3>1, TreeShape
      <4>2. f[m] = base
        BY <2>5, <3>1, ScopesAssumption
      <4> QED  BY <3>1, <4>1, <4>2 DEF base
    <3>2. CASE m # 0
      <4>1. m \in 1..MaxModules /\ m \in 0..MaxModules
        BY <3>2, ScopesAssumption DEF Mods
      <4>2. p[m] \in 0..MaxModules
        BY <2>1, <4>1, ScopesAssumption
      <4>3. f[p[m]] \in V /\ f[m] = step[m][f[p[m]]]
        BY <2>5, <3>2, <4>1, <4>2
      <4> QED  BY <2>4, <4>1, <4>3 DEF p
    <3> QED  BY <3>1, <3>2
  <2>7. f = [m \in Mods |-> Value(f, m)]
    <3> HIDE DEF Value
    <3> QED  BY <2>5, <2>6 DEF Mods
  <2> QED  BY <2>5, <2>7 DEF Mods
<1>4. ScopePaths(r) = CHOOSE f : Is(f)
  BY DEF ScopePaths
<1>5. Is(ScopePaths(r))
  <2> HIDE DEF Is
  <2> QED  BY <1>3, <1>4
<1> DEFINE s == ScopePaths(r)
<1> HIDE DEF s
<1>6. \A m \in Mods : s[m] = Value(s, m)
  BY <1>5 DEF s
<1>7. s = [m \in Mods |-> s[m]]
  <2>1. s = [m \in Mods |-> Value(s, m)]
    BY <1>5 DEF s
  <2> HIDE DEF Value
  <2> QED  BY <2>1
<1> DEFINE T == {m \in Mods : s[m] \in V}
<1>8. ASSUME NEW m \in Mods, \A k \in Mods : k < m => k \in T PROVE m \in T
  <2>1. CASE m = r \/ m < r \/ tree.scoped[m]
    BY <1>1, <1>6, <2>1
  <2>2. CASE m # r /\ ~(m < r) /\ ~tree.scoped[m]
    <3>1. m # 0
      BY <2>2, TreeShape
    <3>2. s[tree.parent[m]] \in V
      BY <1>8, <3>1, TreeShape
    <3> HIDE DEF V
    <3> QED  BY <1>1, <1>2, <1>6, <2>2, <3>2
  <2> QED  BY <2>1, <2>2
<1> HIDE DEF T
<1>9. Mods \subseteq T
  BY <1>8, ModsInduction
<1>10. s \in [Mods -> V]
  BY <1>7, <1>9 DEF T
<1> QED  BY <1>6, <1>10 DEF s

-------------------------------------------------------------------------------
(* What a scope writes, and where it leads.                                  *)

\* No path is empty once it has been made one super:: longer.
LEMMA DeeperIs ==
  ASSUME NEW q \in Seq(Segments), q # Unset
  PROVE  /\ Deeper(q) \in Seq(Segments) /\ Deeper(q) # Unset /\ Head(Deeper(q)) = "super"
         /\ Deeper(q) = <<"super">> \o (IF Head(q) = "self" THEN Tail(q) ELSE q)
<1> DEFINE t == IF Head(q) = "self" THEN Tail(q) ELSE q
<1>1. t \in Seq(Segments)
  BY DEF Unset
<1>2. Deeper(q) = <<"super">> \o t
  BY DEF Deeper
<1> HIDE DEF t
<1>3. /\ <<"super">> \o t \in Seq(Segments) /\ Len(<<"super">> \o t) = Len(t) + 1
      /\ Len(t) \in Nat /\ (<<"super">> \o t)[1] = "super"
  BY <1>1 DEF Segments
<1> QED  BY <1>2, <1>3 DEF t, Unset

\* A scope writes a path into exactly the modules it is the innermost scope of.
LEMMA PathsReachTheirOwn ==
  ASSUME tree \in Trees, NEW r \in Mods, tree.scoped[r]
  PROVE  \A m \in Mods : ScopePaths(r)[m] # Unset <=> ScopeOf(r, m)
<1> DEFINE s == ScopePaths(r)
           e == Enclosing
           T == {m \in Mods : s[m] # Unset <=> ScopeOf(r, m)}
<1>1. /\ s \in [Mods -> Seq(Segments)]
      /\ \A m \in Mods : s[m] = IF m = r THEN <<"self">>
                                ELSE IF m < r \/ tree.scoped[m] \/ s[tree.parent[m]] = Unset THEN Unset
                                ELSE Deeper(s[tree.parent[m]])
  BY ScopePathsIs, Zenon
<1>2. /\ \A m \in Mods : e[m] = {m} \cup (IF m = 0 THEN {} ELSE e[tree.parent[m]])
      /\ \A m \in Mods : e[m] \subseteq 0..m
  BY EnclosingIs, Zenon
<1>3. \A m \in Mods : ScopeOf(r, m) <=> r \in e[m] /\ \A b \in e[m] : tree.scoped[b] => b <= r
  BY DEF ScopeOf
<1> HIDE DEF s, e
<1>4. ASSUME NEW m \in Mods, \A k \in Mods : k < m => k \in T PROVE m \in T
  <2>0. m \in Nat /\ r \in Nat
    BY TreeShape
  <2>1. CASE m < r
    <3>1. r \notin e[m]
      BY <1>2, <2>0, <2>1
    <3>2. s[m] = Unset
      BY <1>1, <2>0, <2>1
    <3> QED  BY <1>3, <3>1, <3>2
  <2>2. CASE m = r
    <3>1. r \in e[m] /\ \A b \in e[m] : b <= r
      BY <1>2, <2>0, <2>2
    <3>2. s[m] = <<"self">>
      BY <1>1, <2>2
    <3>3. s[m] # Unset
      BY <3>2 DEF Unset
    <3> QED  BY <1>3, <3>1, <3>3
  <2>3. CASE m # r /\ tree.scoped[m] /\ ~(m < r)
    <3>1. m \in e[m] /\ ~(m <= r)
      BY <1>2, <2>0, <2>3
    <3>2. s[m] = Unset
      BY <1>1, <2>3
    <3> QED  BY <1>3, <2>3, <3>1, <3>2
  <2>4. CASE m # r /\ ~tree.scoped[m] /\ ~(m < r)
    <3> DEFINE o == tree.parent[m]
    <3>1. m # 0
      BY <2>0, <2>4
    <3>2. o \in Mods /\ o < m
      BY <3>1, TreeShape
    <3>3. s[o] # Unset <=> ScopeOf(r, o)
      BY <1>4, <3>2
    <3>4. e[m] = {m} \cup e[o]
      BY <1>2, <3>1
    <3>5. ScopeOf(r, m) <=> ScopeOf(r, o)
      <4> HIDE DEF o
      <4> QED  BY <1>3, <2>4, <3>2, <3>4
    <3>6. s[o] # Unset => Deeper(s[o]) # Unset
      <4>1. s[o] \in Seq(Segments)
        BY <1>1, <3>2
      <4> QED  BY <4>1, DeeperIs
    <3>7. s[m] = IF s[o] = Unset THEN Unset ELSE Deeper(s[o])
      BY <1>1, <2>4
    <3> QED  BY <3>3, <3>5, <3>6, <3>7
  <2> QED  BY <2>1, <2>2, <2>3, <2>4
<1> HIDE DEF T
<1>5. Mods \subseteq T
  BY <1>4, ModsInduction
<1> QED  BY <1>5 DEF T, s

\* u climbs from m, n parents up.
Climb(u, m, n) == u = [k \in 0..n |-> IF k = 0 THEN m ELSE tree.parent[u[k - 1]]]

\* The path leads from m to r.
Leads(path, m, r) ==
  IF m = r THEN path = <<"self">>
  ELSE /\ path # Unset /\ Head(path) = "super"
       /\ \E u : Climb(u, m, Len(path)) /\ u[Len(path)] = r

\* One parent more at the bottom.
LEMMA ClimbOn ==
  ASSUME NEW m, NEW n \in Nat, NEW u, Climb(u, tree.parent[m], n)
  PROVE  \E w : Climb(w, m, n + 1) /\ w[n + 1] = u[n]
<1> DEFINE w == [k \in 0..(n + 1) |-> IF k = 0 THEN m ELSE u[k - 1]]
           x == [k \in 0..(n + 1) |-> IF k = 0 THEN m ELSE tree.parent[w[k - 1]]]
<1>1. \A k \in 0..n : u[k] = IF k = 0 THEN tree.parent[m] ELSE tree.parent[u[k - 1]]
  BY DEF Climb
<1>2. ASSUME NEW k \in 0..(n + 1) PROVE w[k] = x[k]
  <2>1. CASE k = 0
    BY <2>1
  <2>2. CASE k # 0
    <3> DEFINE j == k - 1
    <3>1. j \in 0..n /\ j \in 0..(n + 1) /\ k = j + 1
      BY <2>2
    <3>2. w[k] = u[j] /\ w[j] = IF j = 0 THEN m ELSE u[j - 1]
      BY <2>2, <3>1
    <3>3. x[k] = tree.parent[w[j]]
      BY <2>2
    <3> HIDE DEF j, w, x
    <3> QED  BY <1>1, <3>1, <3>2, <3>3
  <2> QED  BY <2>1, <2>2
<1>3. w = x
  <2>1. DOMAIN w = DOMAIN x
    OBVIOUS
  <2> QED  BY <1>2
<1>4. w[n + 1] = u[n]
  OBVIOUS
<1>5. Climb(w, m, n + 1)
  <2> HIDE DEF w
  <2> QED  BY <1>3 DEF Climb
<1> QED  BY <1>4, <1>5

\* There is one climb of a given height.
LEMMA ClimbUnique ==
  ASSUME NEW m, NEW n \in Nat, NEW u, NEW w, Climb(u, m, n), Climb(w, m, n)
  PROVE  u[n] = w[n]
<1> DEFINE T == {k \in Nat : k <= n => u[k] = w[k]}
<1>1. /\ \A k \in 0..n : u[k] = IF k = 0 THEN m ELSE tree.parent[u[k - 1]]
      /\ \A k \in 0..n : w[k] = IF k = 0 THEN m ELSE tree.parent[w[k - 1]]
  BY DEF Climb
<1>2. 0 \in T
  BY <1>1
<1>3. ASSUME NEW k \in Nat, k \in T PROVE k + 1 \in T
  <2> SUFFICES ASSUME k + 1 <= n PROVE u[k + 1] = w[k + 1]
    OBVIOUS
  <2>1. k + 1 \in 0..n /\ k + 1 # 0 /\ (k + 1) - 1 = k /\ u[k] = w[k]
    BY <1>3
  <2> QED  BY <1>1, <2>1
<1> HIDE DEF T
<1>4. Nat \subseteq T
  BY <1>2, <1>3, SetInduction
<1> QED  BY <1>4 DEF T

\* The paths a scope writes lead to it.
LEMMA PathsLead ==
  ASSUME tree \in Trees, NEW r \in Mods
  PROVE  \A m \in Mods : ScopePaths(r)[m] # Unset => Leads(ScopePaths(r)[m], m, r)
<1> DEFINE s == ScopePaths(r)
           T == {m \in Mods : s[m] # Unset => Leads(s[m], m, r)}
<1>1. /\ s \in [Mods -> Seq(Segments)]
      /\ \A m \in Mods : s[m] = IF m = r THEN <<"self">>
                                ELSE IF m < r \/ tree.scoped[m] \/ s[tree.parent[m]] = Unset THEN Unset
                                ELSE Deeper(s[tree.parent[m]])
  BY ScopePathsIs, Zenon
<1> HIDE DEF s
<1>2. ASSUME NEW m \in Mods, \A k \in Mods : k < m => k \in T PROVE m \in T
  <2> SUFFICES ASSUME s[m] # Unset PROVE Leads(s[m], m, r)
    OBVIOUS
  <2>1. CASE m = r
    BY <1>1, <2>1 DEF Leads
  <2>2. CASE m # r
    <3> DEFINE o == tree.parent[m]
    <3>1. ~(m < r) /\ s[o] # Unset /\ s[m] = Deeper(s[o])
      BY <1>1, <2>2
    <3>2. m # 0 /\ m \in Nat /\ r \in Nat
      BY <2>2, <3>1, TreeShape
    <3>3. o \in Mods /\ o < m
      BY <3>2, TreeShape
    <3> DEFINE q == s[o]
    <3>4. q \in Seq(Segments) /\ Leads(q, o, r)
      BY <1>1, <1>2, <3>1, <3>3
    <3> DEFINE t == IF Head(q) = "self" THEN Tail(q) ELSE q
    <3>5. /\ s[m] \in Seq(Segments) /\ s[m] # Unset /\ Head(s[m]) = "super" /\ s[m] = <<"super">> \o t
      BY <3>1, <3>4, DeeperIs
    <3>6. t \in Seq(Segments) /\ \E u : Climb(u, o, Len(t)) /\ u[Len(t)] = r
      <4>1. CASE o = r
        <5>1. q = <<"self">>
          BY <3>4, <4>1 DEF Leads
        <5>2. t = <<>>
          BY <5>1
        <5>3. Climb([k \in 0..0 |-> o], o, 0)
          <6> DEFINE u == [k \in 0..0 |-> o]
          <6>1. u = [k \in 0..0 |-> IF k = 0 THEN o ELSE tree.parent[u[k - 1]]]
            OBVIOUS
          <6> HIDE DEF u
          <6>2. Climb(u, o, 0)
            BY <6>1 DEF Climb
          <6> QED  BY <6>2 DEF u
        <5>4. [k \in 0..0 |-> o][0] = r
          BY <4>1
        <5> HIDE DEF t, o
        <5>5. t \in Seq(Segments) /\ Len(t) = 0
          BY <5>2
        <5> QED  BY <5>3, <5>4, <5>5
      <4>2. CASE o # r
        <5>1. /\ Head(q) = "super" /\ \E u : Climb(u, o, Len(q)) /\ u[Len(q)] = r
          BY <3>4, <4>2 DEF Leads
        <5>2. t = q
          BY <5>1
        <5> HIDE DEF t, q, o
        <5> QED  BY <3>4, <5>1, <5>2
      <4> QED  BY <4>1, <4>2
    <3> HIDE DEF t
    <3>7. Len(s[m]) = Len(t) + 1 /\ Len(t) \in Nat
      BY <3>5, <3>6
    <3>8. PICK u : Climb(u, tree.parent[m], Len(t)) /\ u[Len(t)] = r
      BY <3>6
    <3>9. \E w : Climb(w, m, Len(t) + 1) /\ w[Len(t) + 1] = u[Len(t)]
      BY <3>7, <3>8, ClimbOn
    <3>10. \E w : Climb(w, m, Len(s[m])) /\ w[Len(s[m])] = r
      BY <3>7, <3>8, <3>9
    <3> QED  BY <2>2, <3>5, <3>10 DEF Leads
  <2> QED  BY <2>1, <2>2
<1> HIDE DEF T
<1>3. Mods \subseteq T
  BY <1>2, ModsInduction
<1> QED  BY <1>3 DEF T, s

\* rustc follows a path that leads to an expanded scope to that scope.
LEMMA LeadsHome ==
  ASSUME NEW m, NEW r, r \in aliased, NEW path \in Seq(Segments), Leads(path, m, r)
  PROVE  Resolve(m, path) = <<"scope", r>> /\ path # Unset /\ path # <<"Marker">>
<1> DEFINE up == CHOOSE u : Climb(u, m, Len(path))
           at == IF path = <<"self">> THEN m ELSE up[Len(path)]
<1>1. Resolve(m, path) = IF at \in aliased THEN <<"scope", at>> ELSE <<"error", m>>
  BY DEF Resolve, Climb
<1> HIDE DEF up
<1>2. CASE m = r
  <2>1. path = <<"self">>
    BY <1>2 DEF Leads
  <2>2. at = r
    BY <1>2, <2>1
  <2>3. path # Unset /\ path # <<"Marker">>
    BY <2>1 DEF Unset
  <2> QED  BY <1>1, <2>2, <2>3
<1>3. CASE m # r
  <2>1. path # Unset /\ Head(path) = "super" /\ Len(path) \in Nat
    BY <1>3 DEF Leads
  <2>2. PICK u : Climb(u, m, Len(path)) /\ u[Len(path)] = r
    BY <1>3 DEF Leads
  <2>3. Climb(up, m, Len(path))
    BY <2>2 DEF up
  <2>4. up[Len(path)] = r
    BY <2>1, <2>2, <2>3, ClimbUnique
  <2>5. path # <<"self">> /\ path # <<"Marker">>
    BY <2>1
  <2>6. at = r
    BY <2>4, <2>5
  <2> QED  BY <1>1, <2>1, <2>5, <2>6
<1> QED  BY <1>2, <1>3

-------------------------------------------------------------------------------
(* The innermost scope.                                                      *)

\* There is at most one, and Innermost names it.
LEMMA InnermostIs ==
  ASSUME tree \in Trees, NEW m \in Mods
  PROVE  /\ \A r, q \in Mods : ScopeOf(r, m) /\ ScopeOf(q, m) => r = q
         /\ \A r \in Mods : ScopeOf(r, m) => Innermost(m) = <<"scope", r>>
         /\ (\A r \in Mods : ~ScopeOf(r, m)) => Innermost(m) = Unset
<1> DEFINE around == {a \in Enclosing[m] : tree.scoped[a]}
           top == CHOOSE a \in around : \A b \in around : b <= a
<1>1. Enclosing[m] \subseteq Mods /\ Mods \subseteq Nat /\ Mods = 0..MaxModules
  <2>1. Enclosing[m] \subseteq 0..m
    BY EnclosingIs, Zenon
  <2> QED  BY <2>1, ScopesAssumption DEF Mods
<1>2. \A r \in Mods : ScopeOf(r, m) <=> r \in around /\ \A b \in around : b <= r
  BY DEF ScopeOf
<1>3. Innermost(m) = IF around = {} THEN Unset ELSE <<"scope", top>>
  BY DEF Innermost
<1>4. around \subseteq Mods
  BY <1>1
<1> HIDE DEF around
<1>5. \A r, q \in Mods : ScopeOf(r, m) /\ ScopeOf(q, m) => r = q
  BY <1>1, <1>2
<1>6. ASSUME NEW r \in Mods, ScopeOf(r, m) PROVE Innermost(m) = <<"scope", r>>
  <2>1. r \in around /\ \A b \in around : b <= r
    BY <1>2, <1>6
  <2>2. top \in around /\ \A b \in around : b <= top
    BY <2>1, Zenon
  <2>3. top = r
    <3> HIDE DEF top
    <3> QED  BY <1>1, <1>4, <2>1, <2>2
  <2> QED  BY <1>3, <2>1, <2>3
<1>7. ASSUME around # {} PROVE \E r \in Mods : ScopeOf(r, m)
  <2> DEFINE below == {MaxModules - a : a \in around}
  <2>1. below \subseteq Nat /\ below # {}
    <3>1. \A a \in around : MaxModules - a \in Nat
      BY <1>1, <1>4, ScopesAssumption
    <3> QED  BY <1>7, <3>1
  <2> HIDE DEF below
  <2>2. PICK x \in below : \A y \in below : x <= y
    BY <2>1, LeastNatural
  <2>3. PICK r \in around : x = MaxModules - r
    BY <2>2 DEF below
  <2>4. ASSUME NEW b \in around PROVE b <= r
    <3>1. x <= MaxModules - b
      BY <2>2 DEF below
    <3>2. b \in Nat /\ r \in Nat /\ MaxModules \in Nat
      BY <1>1, <1>4, <2>3, ScopesAssumption
    <3> QED  BY <2>3, <3>1, <3>2
  <2> QED  BY <1>2, <1>4, <2>3, <2>4
<1> QED  BY <1>3, <1>5, <1>6, <1>7

\* What the tree decides stays as it is while it does.
LEMMA SameTree ==
  ASSUME UNCHANGED tree
  PROVE  /\ \A r, m : ScopeOf(r, m)' = ScopeOf(r, m)
         /\ \A r : ScopePaths(r)' = ScopePaths(r)
         /\ \A m : Innermost(m)' = Innermost(m)
<1>1. Enclosing' = Enclosing
  BY DEF Enclosing
<1>2. \A r, m : ScopeOf(r, m)' = ScopeOf(r, m)
  BY <1>1 DEF ScopeOf
<1>3. \A r : ScopePaths(r)' = ScopePaths(r)
  BY DEF ScopePaths
<1>4. \A m : Innermost(m)' = Innermost(m)
  BY <1>1 DEF Innermost
<1> QED  BY <1>2, <1>3, <1>4

-------------------------------------------------------------------------------
(* The invariant.                                                            *)

\* At first nothing has been expanded.
LEMMA ScopesInitial == ScopesInit => SInv
<1> SUFFICES ASSUME ScopesInit PROVE SInv
  OBVIOUS
<1> USE DEF ScopesInit, Unexpanded
<1>1. ScopesTypeOK
  <2>1. Written(tree) \in [Mods -> Seq({"self", "super", "Marker"})]
    <3>1. <<"Marker">> \in Seq({"self", "super", "Marker"}) /\ Unset \in Seq({"self", "super", "Marker"})
      BY DEF Unset
    <3> QED  BY <3>1 DEF Written
  <2> QED  BY <2>1 DEF ScopesTypeOK
<1>2. \A m \in Mods : PickOK(m)
  BY DEF PickOK, Written
<1>3. InnermostScopeWins
  BY DEF InnermostScopeWins
<1> QED  BY <1>1, <1>2, <1>3 DEF SInv

\* A scope gives its path to what it is the innermost scope of, and to nothing else.
LEMMA ExpandShardedKeeps ==
  ASSUME SInv, NEW r \in Mods, ExpandSharded(r)
  PROVE  SInv'
<1>1. /\ tree.scoped[r] /\ r \notin aliased
      /\ pick' = [m \in Mods |-> IF pick[m] = Unset THEN ScopePaths(r)[m] ELSE pick[m]]
      /\ aliased' = aliased \cup {r} /\ tree' = tree /\ shard' = shard
  BY DEF ExpandSharded
<1>2. /\ tree \in Trees /\ pick \in [Mods -> Seq(Segments)] /\ aliased \subseteq Mods
      /\ ScopesTypeOK /\ InnermostScopeWins /\ \A m \in Mods : PickOK(m)
      /\ \A q \in aliased : tree.scoped[q]
  BY DEF SInv, ScopesTypeOK, Segments
<1>3. /\ ScopePaths(r) \in [Mods -> Seq(Segments)]
      /\ \A m \in Mods : ScopePaths(r)[m] # Unset <=> ScopeOf(r, m)
  BY <1>1, <1>2, ScopePathsIs, PathsReachTheirOwn
<1>4. /\ \A q, m : ScopeOf(q, m)' = ScopeOf(q, m)
      /\ \A q : ScopePaths(q)' = ScopePaths(q)
      /\ \A m : Innermost(m)' = Innermost(m)
  BY <1>1, SameTree
<1>5. ScopesTypeOK'
  <2>1. pick' \in [Mods -> Seq(Segments)]
    BY <1>1, <1>2, <1>3
  <2> QED  BY <1>1, <1>2, <2>1 DEF ScopesTypeOK, Segments
<1>6. ASSUME NEW m \in Mods PROVE PickOK(m)'
  <2>1. pick'[m] = IF pick[m] = Unset THEN ScopePaths(r)[m] ELSE pick[m]
    BY <1>1
  <2>2. CASE tree.explicit[m]
    <3>1. pick[m] = <<"Marker">>
      BY <1>2, <2>2 DEF PickOK
    <3>2. <<"Marker">> # Unset
      BY DEF Unset
    <3> QED  BY <1>1, <2>1, <2>2, <3>1, <3>2 DEF PickOK
  <2>3. CASE ~tree.explicit[m]
    <3>1. /\ \A q \in aliased : ScopeOf(q, m) => pick[m] = ScopePaths(q)[m]
          /\ (\A q \in aliased : ~ScopeOf(q, m)) => pick[m] = Unset
      BY <1>2, <2>3 DEF PickOK
    <3>2. \A q \in Mods : ScopeOf(r, m) /\ ScopeOf(q, m) => r = q
      BY <1>2, InnermostIs
    <3>3. ASSUME NEW q \in aliased', ScopeOf(q, m) PROVE pick'[m] = ScopePaths(q)[m]
      <4>1. CASE q \in aliased
        <5>1. ScopePaths(q)[m] # Unset
          BY <1>2, <3>3, <4>1, PathsReachTheirOwn
        <5> QED  BY <2>1, <3>1, <3>3, <4>1, <5>1
      <4>2. CASE q = r
        <5>1. \A a \in aliased : ~ScopeOf(a, m)
          BY <1>1, <1>2, <3>2, <3>3, <4>2
        <5> QED  BY <2>1, <3>1, <4>2, <5>1
      <4> QED  BY <1>1, <4>1, <4>2
    <3>4. ASSUME \A q \in aliased' : ~ScopeOf(q, m) PROVE pick'[m] = Unset
      <4>1. pick[m] = Unset /\ ~ScopeOf(r, m)
        BY <1>1, <3>1, <3>4
      <4> QED  BY <1>3, <2>1, <4>1
    <3>5. /\ \A q \in aliased' : ScopeOf(q, m)' => pick'[m] = (ScopePaths(q)')[m]
          /\ (\A q \in aliased' : ~ScopeOf(q, m)') => pick'[m] = Unset
      BY <1>4, <3>3, <3>4
    <3> QED  BY <1>1, <2>3, <3>5 DEF PickOK
  <2> QED  BY <2>2, <2>3
<1>7. InnermostScopeWins'
  BY <1>1, <1>2, <1>4 DEF InnermostScopeWins
<1>8. \A q \in aliased' : tree'.scoped[q]
  BY <1>1, <1>2
<1> QED  BY <1>5, <1>6, <1>7, <1>8 DEF SInv

\* The attributes around a type are expanded before its own, so that its selection
\* is its own, the path of its innermost scope, or none.
LEMMA ExpandEventfulKeeps ==
  ASSUME SInv, NEW m \in Mods, ExpandEventful(m)
  PROVE  SInv'
<1>1. /\ shard[m] = Unset /\ Reached(m) /\ (tree.scoped[m] => m \in aliased)
      /\ shard' = [shard EXCEPT ![m] =
           CASE pick[m] = <<"Marker">> -> <<"explicit", m>>
             [] pick[m] = Unset -> IF tree.file[m] THEN <<"file", m>> ELSE <<"error", m>>
             [] OTHER -> Resolve(m, pick[m])]
      /\ UNCHANGED <<tree, pick, aliased>>
  BY DEF ExpandEventful
<1>2. /\ tree \in Trees /\ pick \in [Mods -> Seq(Segments)] /\ aliased \subseteq Mods
      /\ shard \in [Mods -> {"explicit", "file", "scope", "error"} \X Mods \cup {Unset}]
      /\ InnermostScopeWins /\ \A k \in Mods : PickOK(k)
      /\ \A q \in aliased : tree.scoped[q]
  BY DEF SInv, ScopesTypeOK, Segments
<1>3. \A r \in Mods : ScopeOf(r, m) => r \in aliased
  BY <1>1 DEF ScopeOf, Reached
<1> DEFINE Source(k) == IF tree.explicit[k] THEN <<"explicit", k>>
                        ELSE IF Innermost(k) # Unset THEN Innermost(k)
                        ELSE IF tree.file[k] THEN <<"file", k>> ELSE <<"error", k>>
           new == CASE pick[m] = <<"Marker">> -> <<"explicit", m>>
                    [] pick[m] = Unset -> IF tree.file[m] THEN <<"file", m>> ELSE <<"error", m>>
                    [] OTHER -> Resolve(m, pick[m])
<1>4. new = Source(m) /\ new \in {"explicit", "file", "scope", "error"} \X Mods
  <2>1. CASE tree.explicit[m]
    <3>1. pick[m] = <<"Marker">>
      BY <1>2, <2>1 DEF PickOK
    <3> HIDE DEF Source
    <3>2. Source(m) = <<"explicit", m>>
      BY <2>1 DEF Source
    <3>3. new = <<"explicit", m>>
      <4>1. Unset # <<"Marker">>
        BY DEF Unset
      <4> QED  BY <3>1, <4>1
    <3> HIDE DEF new
    <3> QED  BY <3>2, <3>3
  <2>2. CASE ~tree.explicit[m] /\ \E r \in Mods : ScopeOf(r, m)
    <3>1. PICK r \in Mods : ScopeOf(r, m)
      BY <2>2
    <3>2. r \in aliased /\ tree.scoped[r]
      BY <1>2, <1>3, <3>1
    <3>3. pick[m] = ScopePaths(r)[m]
      BY <1>2, <2>2, <3>1, <3>2 DEF PickOK
    <3>4. Leads(pick[m], m, r)
      <4>1. ScopePaths(r)[m] # Unset
        BY <1>2, <3>1, <3>2, PathsReachTheirOwn
      <4> QED  BY <1>2, <3>3, <4>1, PathsLead
    <3>5. Resolve(m, pick[m]) = <<"scope", r>> /\ pick[m] # Unset /\ pick[m] # <<"Marker">>
      BY <1>2, <3>2, <3>4, LeadsHome
    <3>6. Innermost(m) = <<"scope", r>> /\ <<"scope", r>> # Unset
      BY <1>2, <3>1, InnermostIs DEF Unset
    <3>7. new = <<"scope", r>>
      BY <3>5
    <3> HIDE DEF new
    <3> QED  BY <2>2, <3>6, <3>7
  <2>3. CASE ~tree.explicit[m] /\ \A r \in Mods : ~ScopeOf(r, m)
    <3>1. pick[m] = Unset
      BY <1>2, <2>3 DEF PickOK
    <3>2. Innermost(m) = Unset
      BY <1>2, <2>3, InnermostIs
    <3>3. Unset # <<"Marker">>
      BY DEF Unset
    <3> QED  BY <2>3, <3>1, <3>2, <3>3
  <2> QED  BY <2>1, <2>2, <2>3
<1>5. shard' = [shard EXCEPT ![m] = new]
  BY <1>1
<1> HIDE DEF new
<1>6. ScopesTypeOK'
  <2>1. shard' \in [Mods -> {"explicit", "file", "scope", "error"} \X Mods \cup {Unset}]
    BY <1>2, <1>4, <1>5
  <2> QED  BY <1>1, <1>2, <2>1 DEF ScopesTypeOK, Segments
<1>7. InnermostScopeWins'
  <2>1. ASSUME NEW k \in Mods, shard'[k] # Unset PROVE shard'[k] = Source(k)
    <3>1. CASE k = m
      <4> HIDE DEF Source
      <4> QED  BY <1>2, <1>4, <1>5, <3>1
    <3>2. CASE k # m
      <4>1. shard'[k] = shard[k]
        BY <1>5, <1>2, <3>2
      <4> QED  BY <1>2, <2>1, <4>1 DEF InnermostScopeWins
    <3> QED  BY <3>1, <3>2
  <2>2. \A k : Innermost(k)' = Innermost(k)
    BY <1>1, SameTree
  <2> QED  BY <1>1, <2>1, <2>2 DEF InnermostScopeWins
<1>8. \A k \in Mods : PickOK(k)'
  <2>1. /\ \A q, k : ScopeOf(q, k)' = ScopeOf(q, k)
        /\ \A q : ScopePaths(q)' = ScopePaths(q)
    BY <1>1, SameTree
  <2> QED  BY <1>1, <1>2, <2>1 DEF PickOK
<1> QED  BY <1>1, <1>2, <1>6, <1>7, <1>8 DEF SInv

\* The invariant holds: what the macros write into a type that selects no shard
\* is, from the expansion of its innermost scope on, the path to that scope.
THEOREM ScopesInvariant == ScopesSpec => []SInv
<1>1. ScopesInit => SInv
  BY ScopesInitial
<1>2. SInv /\ [ScopesNext]_affinity => SInv'
  <2> SUFFICES ASSUME SInv, [ScopesNext]_affinity PROVE SInv'
    OBVIOUS
  <2>1. CASE ScopesNext
    <3>1. PICK m \in Mods : ExpandSharded(m) \/ ExpandEventful(m)
      BY <2>1 DEF ScopesNext
    <3> QED  BY <3>1, ExpandShardedKeeps, ExpandEventfulKeeps
  <2>2. CASE UNCHANGED affinity
    <3>1. tree' = tree /\ pick' = pick /\ aliased' = aliased /\ shard' = shard
      BY <2>2 DEF affinity
    <3>2. /\ \A q, k : ScopeOf(q, k)' = ScopeOf(q, k)
          /\ \A q : ScopePaths(q)' = ScopePaths(q)
          /\ \A k : Innermost(k)' = Innermost(k)
      BY <3>1, SameTree
    <3>3. \A k \in Mods : PickOK(k)'
      BY <3>1, <3>2 DEF PickOK, SInv
    <3>4. InnermostScopeWins'
      BY <3>1, <3>2 DEF InnermostScopeWins, SInv
    <3>5. ScopesTypeOK'
      BY <3>1 DEF ScopesTypeOK, SInv
    <3> QED  BY <3>1, <3>3, <3>4, <3>5 DEF SInv
  <2> QED  BY <2>1, <2>2
<1> QED  BY <1>1, <1>2, PTL DEF ScopesSpec

\* A unit's expansion stays within its types.
THEOREM ScopesTypesCorrect == ScopesSpec => []ScopesTypeOK
<1>1. SInv => ScopesTypeOK
  BY DEF SInv
<1> QED  BY <1>1, ScopesInvariant, PTL

\* A type belongs to the shard its source says, whatever the nesting of the
\* modules and the order in which rustc reaches their attributes.
THEOREM InnermostScopeIsTaken == ScopesSpec => []InnermostScopeWins
<1>1. SInv => InnermostScopeWins
  BY DEF SInv
<1> QED  BY <1>1, ScopesInvariant, PTL

-------------------------------------------------------------------------------
(* Attributes.                                                               *)

Leaves == [path : {"cfg", "doc"}, pred : SUBSET Builds, nested : {<<>>}]
Around(S) == [path : {"cfg_attr"}, pred : SUBSET Builds, nested : Seq(S)]

NestValue(g, n) == IF n = 0 THEN Leaves ELSE g[n - 1] \cup Around(g[n - 1])
Nest(g, n) == g = [k \in 0..n |-> NestValue(g, k)]

\* The levels of nesting, from below.
LEMMA NestedIs ==
  /\ Nested[0] = Leaves
  /\ \A n \in 1..MaxNesting : Nested[n] = Nested[n - 1] \cup Around(Nested[n - 1])
<1> DEFINE T == {n \in Nat : \E g : Nest(g, n)}
<1>1. 0 \in T
  <2>1. Nest([k \in 0..0 |-> Leaves], 0)
    BY DEF Nest, NestValue
  <2> QED  BY <2>1
<1>2. ASSUME NEW n \in Nat, n \in T PROVE n + 1 \in T
  <2>1. PICK g : Nest(g, n)
    BY <1>2
  <2> DEFINE h == [k \in 0..(n + 1) |-> NestValue(g, k)]
  <2>2. \A k \in 0..n : h[k] = g[k]
    BY <2>1 DEF Nest
  <2>3. \A k \in 0..(n + 1) : NestValue(g, k) = NestValue(h, k)
    <3> SUFFICES ASSUME NEW k \in 0..(n + 1), k # 0 PROVE h[k - 1] = g[k - 1]
      BY DEF NestValue
    <3>1. k - 1 \in 0..n
      OBVIOUS
    <3> HIDE DEF h
    <3> QED  BY <3>1, <2>2
  <2>4. h = [k \in 0..(n + 1) |-> NestValue(h, k)]
    <3> DEFINE hh == [k \in 0..(n + 1) |-> NestValue(h, k)]
    <3> SUFFICES h = hh
      OBVIOUS
    <3>1. \A k \in 0..(n + 1) : h[k] = hh[k]
      BY <2>3, Zenon
    <3> QED  BY <3>1
  <2> HIDE DEF h
  <2> QED  BY <2>4 DEF Nest
<1> HIDE DEF T
<1>3. Nat \subseteq T
  BY <1>1, <1>2, SetInduction
<1>4. PICK g : Nest(g, MaxNesting)
  BY <1>3, ExpansionAssumption DEF T
<1>5. Nested = CHOOSE h : Nest(h, MaxNesting)
  BY DEF Nested, Nest, NestValue, Leaves, Around
<1>6. Nest(Nested, MaxNesting)
  BY <1>4, <1>5
<1> DEFINE e == Nested
<1> HIDE DEF e
<1>7. \A k \in 0..MaxNesting : e[k] = NestValue(e, k)
  BY <1>6 DEF Nest, e
<1>8. e[0] = Leaves
  <2>1. e[0] = NestValue(e, 0)
    BY <1>7, ExpansionAssumption
  <2> QED  BY <2>1 DEF NestValue
<1>9. ASSUME NEW n \in 1..MaxNesting PROVE e[n] = e[n - 1] \cup Around(e[n - 1])
  <2>1. n \in 0..MaxNesting /\ n # 0
    OBVIOUS
  <2>2. e[n] = NestValue(e, n)
    BY <1>7, <2>1
  <2> QED  BY <2>1, <2>2 DEF NestValue
<1> QED  BY <1>8, <1>9 DEF e

\* What is true at the lowest level, and at each level if at the one below, is true
\* of all attributes.
LEMMA NestingInduction ==
  ASSUME NEW T, 0 \in T, \A n \in 1..MaxNesting : n - 1 \in T => n \in T
  PROVE  \A n \in 0..MaxNesting : n \in T
<1> DEFINE U == {n \in Nat : n <= MaxNesting => n \in T}
<1>1. 0 \in U
  OBVIOUS
<1>2. ASSUME NEW n \in Nat, n \in U PROVE n + 1 \in U
  <2> SUFFICES ASSUME n + 1 <= MaxNesting PROVE n + 1 \in T
    OBVIOUS
  <2> DEFINE k == n + 1
  <2>1. k \in 1..MaxNesting /\ k - 1 = n /\ n \in T
    BY <1>2, ExpansionAssumption
  <2> HIDE DEF k
  <2>2. k \in T
    BY <2>1
  <2> QED  BY <2>2 DEF k
<1> HIDE DEF U
<1>3. Nat \subseteq U
  BY <1>1, <1>2, SetInduction
<1> QED  BY <1>3 DEF U

\* An attribute of level n has attributes of the level below nested in it, if any.
Shaped(a, n) ==
  /\ a = [path |-> a.path, pred |-> a.pred, nested |-> a.nested]
  /\ a.path \in {"cfg", "doc", "cfg_attr"} /\ a.pred \in SUBSET Builds
  /\ a.path # "cfg_attr" => a.nested = <<>>
  /\ a.path = "cfg_attr" => n # 0 /\ a.nested \in Seq(Nested[n - 1])

LEMMA NestedShape ==
  \A n \in 0..MaxNesting : \A a \in Nested[n] : Shaped(a, n)
<1> DEFINE e == Nested
           T == {n \in 0..MaxNesting : \A a \in e[n] : Shaped(a, n)}
<1>1. /\ e[0] = Leaves /\ 0 \in 0..MaxNesting
      /\ \A n \in 1..MaxNesting : e[n] = e[n - 1] \cup Around(e[n - 1])
  BY NestedIs, ExpansionAssumption
<1> HIDE DEF e
<1>2. 0 \in T
  <2>1. ASSUME NEW a \in Leaves PROVE Shaped(a, 0)
    <3>1. a.path \in {"cfg", "doc"} /\ a.pred \in SUBSET Builds /\ a.nested = <<>>
      BY DEF Leaves
    <3>2. a = [path |-> a.path, pred |-> a.pred, nested |-> a.nested]
      BY DEF Leaves
    <3> QED  BY <3>1, <3>2 DEF Shaped
  <2> QED  BY <1>1, <2>1
<1>3. ASSUME NEW n \in 1..MaxNesting, n - 1 \in T PROVE n \in T
  <2>1. n \in 0..MaxNesting /\ n # 0 /\ n - 1 \in 0..MaxNesting
    BY ExpansionAssumption
  <2>2. ASSUME NEW a \in e[n] PROVE Shaped(a, n)
    <3>1. CASE a \in e[n - 1]
      <4>1. Shaped(a, n - 1)
        BY <1>3, <3>1
      <4>2. CASE a.path # "cfg_attr"
        BY <4>1, <4>2 DEF Shaped
      <4>3. CASE a.path = "cfg_attr"
        <5>1. n - 1 # 0 /\ a.nested \in Seq(e[(n - 1) - 1])
          BY <4>1, <4>3 DEF Shaped, e
        <5> DEFINE k == n - 1
        <5>2. k \in 1..MaxNesting
          BY <2>1, <5>1
        <5> HIDE DEF k
        <5>3. e[k - 1] \subseteq e[k]
          BY <1>1, <5>2
        <5>4. a.nested \in Seq(e[k])
          BY <5>1, <5>3 DEF k
        <5> QED  BY <2>1, <4>1, <4>3, <5>4 DEF Shaped, k, e
      <4> QED  BY <4>2, <4>3
    <3>2. CASE a \in Around(e[n - 1])
      <4>1. /\ a = [path |-> a.path, pred |-> a.pred, nested |-> a.nested]
            /\ a.path = "cfg_attr" /\ a.pred \in SUBSET Builds /\ a.nested \in Seq(e[n - 1])
        BY <3>2 DEF Around
      <4> QED  BY <2>1, <4>1 DEF Shaped, e
    <3> QED  BY <1>1, <2>2, <3>1, <3>2
  <2> QED  BY <2>1, <2>2
<1> HIDE DEF T
<1>4. \A n \in 0..MaxNesting : n \in T
  BY <1>2, <1>3, NestingInduction
<1> QED  BY <1>4 DEF T, e

\* Each level has those below it.
LEMMA NestedGrows ==
  /\ \A n \in 1..MaxNesting : Nested[n - 1] \subseteq Nested[n]
  /\ \A n \in 0..MaxNesting : Nested[n] \subseteq Attributes
<1> DEFINE e == Nested
           T == {k \in Nat : k <= MaxNesting => e[MaxNesting - k] \subseteq e[MaxNesting]}
<1>1. \A n \in 1..MaxNesting : e[n - 1] \subseteq e[n]
  BY NestedIs
<1> HIDE DEF e
<1>2. 0 \in T
  BY ExpansionAssumption
<1>3. ASSUME NEW k \in Nat, k \in T PROVE k + 1 \in T
  <2> SUFFICES ASSUME k + 1 <= MaxNesting PROVE e[MaxNesting - (k + 1)] \subseteq e[MaxNesting]
    OBVIOUS
  <2>1. e[MaxNesting - k] \subseteq e[MaxNesting]
    BY <1>3, ExpansionAssumption
  <2> DEFINE m == MaxNesting - k
  <2>2. m \in 1..MaxNesting /\ MaxNesting - (k + 1) = m - 1
    BY ExpansionAssumption
  <2> HIDE DEF m
  <2>3. e[m - 1] \subseteq e[m]
    BY <1>1, <2>2
  <2> QED  BY <2>1, <2>2, <2>3 DEF m
<1> HIDE DEF T
<1>4. Nat \subseteq T
  BY <1>2, <1>3, SetInduction
<1>5. ASSUME NEW n \in 0..MaxNesting PROVE e[n] \subseteq e[MaxNesting]
  <2>1. MaxNesting - n \in Nat /\ MaxNesting - n <= MaxNesting /\ MaxNesting - (MaxNesting - n) = n
    BY ExpansionAssumption
  <2>2. MaxNesting - n \in T
    BY <1>4, <2>1
  <2> QED  BY <2>1, <2>2 DEF T
<1> QED  BY <1>1, <1>5 DEF e, Attributes

\* An attribute has attributes nested in it; None is not one.
LEMMA AttributeShape ==
  /\ \A a \in Attributes : /\ a.path \in {"cfg", "doc", "cfg_attr"} /\ a.pred \in SUBSET Builds
                           /\ a.nested \in Seq(Attributes)
                           /\ a.path # "cfg_attr" => a.nested = <<>>
  /\ None \notin Attributes
  /\ \A p \in SUBSET Builds : Cfg(p) \in Attributes
<1>1. MaxNesting \in 0..MaxNesting /\ 0 \in 0..MaxNesting
  BY ExpansionAssumption
<1>2. ASSUME NEW a \in Attributes
      PROVE  /\ a.path \in {"cfg", "doc", "cfg_attr"} /\ a.pred \in SUBSET Builds
             /\ a.nested \in Seq(Attributes)
             /\ a.path # "cfg_attr" => a.nested = <<>>
  <2>1. Shaped(a, MaxNesting)
    BY <1>1, NestedShape DEF Attributes
  <2>2. CASE a.path # "cfg_attr"
    <3>1. a.nested = <<>>
      BY <2>1, <2>2 DEF Shaped
    <3> QED  BY <2>1, <2>2, <3>1 DEF Shaped
  <2>3. CASE a.path = "cfg_attr"
    <3>1. MaxNesting # 0 /\ a.nested \in Seq(Nested[MaxNesting - 1])
      BY <2>1, <2>3 DEF Shaped
    <3>2. MaxNesting - 1 \in 0..MaxNesting
      BY <3>1, ExpansionAssumption
    <3>3. Nested[MaxNesting - 1] \subseteq Attributes
      BY <3>2, NestedGrows
    <3>4. a.nested \in Seq(Attributes)
      BY <3>1, <3>3
    <3> QED  BY <2>1, <2>3, <3>4 DEF Shaped
  <2> QED  BY <2>2, <2>3
<1>3. None \notin Attributes
  <2>1. None.path = "none"
    BY DEF None
  <2> QED  BY <1>2, <2>1
<1>4. ASSUME NEW p \in SUBSET Builds PROVE Cfg(p) \in Attributes
  <2>1. Cfg(p) \in Leaves
    BY DEF Cfg, Leaves
  <2> QED  BY <1>1, <2>1, NestedIs, NestedGrows
<1> QED  BY <1>2, <1>3, <1>4

-------------------------------------------------------------------------------
(* Functions of attributes.                                                  *)

\* What f makes of the attributes nested in a.
Parts(f, a) == [i \in DOMAIN a.nested |-> f[a.nested[i]]]

\* On S, f is what step makes of an attribute and of the parts.
Steps(f, step, S) == \A a \in S : f[a] = step[<<a, Parts(f, a)>>]

PartLists(V, n) == IF n = 0 THEN {<<>>} ELSE Seq(V[n - 1])

Typed(step, V) ==
  \A n \in 0..MaxNesting : \A a \in Nested[n] : \A p \in PartLists(V, n) : step[<<a, p>>] \in V[n]

\* The parts of an attribute are those of the level below.
LEMMA PartsTyped ==
  ASSUME NEW f, NEW V, NEW n \in 0..MaxNesting,
         n # 0 => \A a \in Nested[n - 1] : f[a] \in V[n - 1],
         NEW a \in Nested[n]
  PROVE  Parts(f, a) \in PartLists(V, n)
<1>1. Shaped(a, n)
  BY NestedShape
<1>2. CASE a.path = "cfg_attr"
  <2>1. n # 0 /\ a.nested \in Seq(Nested[n - 1])
    BY <1>1, <1>2 DEF Shaped
  <2>2. Parts(f, a) \in Seq(V[n - 1])
    <3> DEFINE s == a.nested
               W == Nested[n - 1]
    <3>1. s \in Seq(W) /\ \A x \in W : f[x] \in V[n - 1]
      BY <2>1
    <3> HIDE DEF s, W
    <3>2. [i \in DOMAIN s |-> f[s[i]]] \in Seq(V[n - 1])
      BY <3>1
    <3> QED  BY <3>2 DEF Parts, s
  <2> QED  BY <2>1, <2>2 DEF PartLists
<1>3. CASE a.path # "cfg_attr"
  <2>1. a.nested = <<>>
    BY <1>1, <1>3 DEF Shaped
  <2>2. Parts(f, a) = <<>>
    BY <2>1 DEF Parts
  <2>3. <<>> \in PartLists(V, n)
    BY DEF PartLists
  <2> QED  BY <2>2, <2>3
<1> QED  BY <1>2, <1>3

\* There is such a function of attributes for every step.
LEMMA AttributeRecursion ==
  ASSUME NEW step
  PROVE  \E f : f = [a \in Attributes |-> step[<<a, Parts(f, a)>>]]
<1> DEFINE T == {n \in 0..MaxNesting : \E f : Steps(f, step, Nested[n])}
<1>0. 0 \in 0..MaxNesting /\ MaxNesting \in 0..MaxNesting
  BY ExpansionAssumption
<1>1. 0 \in T
  <2> DEFINE f == [a \in Nested[0] |-> step[<<a, <<>>>>]]
  <2>1. ASSUME NEW a \in Nested[0] PROVE f[a] = step[<<a, Parts(f, a)>>]
    <3>1. Shaped(a, 0)
      BY <1>0, NestedShape
    <3>2. a.nested = <<>>
      BY <3>1 DEF Shaped
    <3> HIDE DEF f
    <3>3. Parts(f, a) = <<>>
      BY <3>2 DEF Parts
    <3> QED  BY <3>3 DEF f
  <2>2. Steps(f, step, Nested[0])
    <3> HIDE DEF f
    <3> QED  BY <2>1 DEF Steps
  <2> QED  BY <1>0, <2>2
<1>2. ASSUME NEW n \in 1..MaxNesting, n - 1 \in T PROVE n \in T
  <2>1. PICK f : Steps(f, step, Nested[n - 1])
    BY <1>2
  <2> DEFINE h == [a \in Nested[n] |-> step[<<a, Parts(f, a)>>]]
  <2>2. n \in 0..MaxNesting /\ Nested[n - 1] \subseteq Nested[n]
    BY NestedGrows
  <2>3. \A a \in Nested[n - 1] : h[a] = f[a]
    BY <2>1, <2>2 DEF Steps
  <2>4. \A a \in Nested[n] : h[a] = step[<<a, Parts(f, a)>>]
    OBVIOUS
  <2> HIDE DEF h
  <2>5. ASSUME NEW a \in Nested[n] PROVE Parts(h, a) = Parts(f, a)
    <3>1. Shaped(a, n)
      BY <2>2, NestedShape
    <3>2. \A i \in DOMAIN a.nested : a.nested[i] \in Nested[n - 1]
      <4>1. a.path # "cfg_attr" => DOMAIN a.nested = {}
        BY <3>1 DEF Shaped
      <4>2. a.path = "cfg_attr" => a.nested \in Seq(Nested[n - 1])
        BY <3>1 DEF Shaped
      <4> QED  BY <4>1, <4>2
    <3> QED  BY <2>3, <3>2 DEF Parts
  <2>6. Steps(h, step, Nested[n])
    BY <2>4, <2>5 DEF Steps
  <2> QED  BY <2>2, <2>6
<1> HIDE DEF T
<1>3. \A n \in 0..MaxNesting : n \in T
  BY <1>1, <1>2, NestingInduction
<1>4. PICK f : Steps(f, step, Attributes)
  BY <1>0, <1>3 DEF T, Attributes
<1> DEFINE g == [a \in Attributes |-> step[<<a, Parts(f, a)>>]]
<1>5. \A a \in Attributes : g[a] = f[a]
  BY <1>4 DEF Steps
<1>6. g = [a \in Attributes |-> step[<<a, Parts(f, a)>>]]
  OBVIOUS
<1> HIDE DEF g
<1>7. ASSUME NEW a \in Attributes PROVE Parts(g, a) = Parts(f, a)
  <2>1. a.nested \in Seq(Attributes)
    BY AttributeShape
  <2> QED  BY <1>5, <2>1 DEF Parts
<1>8. g = [a \in Attributes |-> step[<<a, Parts(g, a)>>]]
  BY <1>6, <1>7
<1> QED  BY <1>8

\* If step keeps to the types, the parts do.
LEMMA RecursionTyped ==
  ASSUME NEW step, NEW V, Typed(step, V), NEW f, f = [a \in Attributes |-> step[<<a, Parts(f, a)>>]]
  PROVE  \A a \in Attributes : Parts(f, a) \in PartLists(V, MaxNesting)
<1> DEFINE T == {n \in 0..MaxNesting : \A a \in Nested[n] : f[a] \in V[n]}
<1>0. 0 \in 0..MaxNesting /\ MaxNesting \in 0..MaxNesting
  BY ExpansionAssumption
<1>1. ASSUME NEW n \in 0..MaxNesting, n # 0 => n - 1 \in T PROVE n \in T
  <2>1. ASSUME NEW a \in Nested[n] PROVE f[a] \in V[n]
    <3>1. Parts(f, a) \in PartLists(V, n)
      BY <1>1, PartsTyped
    <3>2. a \in Attributes
      BY NestedGrows
    <3>3. f[a] = step[<<a, Parts(f, a)>>]
      BY <3>2
    <3> QED  BY <3>1, <3>3 DEF Typed
  <2> QED  BY <2>1
<1> HIDE DEF T
<1>2. 0 \in T
  BY <1>0, <1>1
<1>3. ASSUME NEW n \in 1..MaxNesting, n - 1 \in T PROVE n \in T
  <2>1. n \in 0..MaxNesting
    BY ExpansionAssumption
  <2> QED  BY <1>1, <1>3, <2>1
<1>4. \A n \in 0..MaxNesting : n \in T
  BY <1>2, <1>3, NestingInduction
<1>5. MaxNesting # 0 => \A a \in Nested[MaxNesting - 1] : f[a] \in V[MaxNesting - 1]
  <2>1. MaxNesting # 0 => MaxNesting - 1 \in 0..MaxNesting
    BY ExpansionAssumption
  <2> QED  BY <1>4, <2>1 DEF T
<1> QED  BY <1>0, <1>5, PartsTyped DEF Attributes

-------------------------------------------------------------------------------
(* What attributes mean, and what the macro makes of them.                   *)

ActiveOf(a, p) ==
  IF a.path = "cfg" THEN a.pred
  ELSE IF a.path = "cfg_attr" THEN Not(a.pred) \cup AllOf(p)
  ELSE Builds

PredicateOf(a, p) == IF a.path = "cfg" THEN a.pred ELSE AnyOf(<<Not(a.pred), AllOf(p)>>)

ConditionOf(a, p) ==
  IF a.path = "cfg" THEN a
  ELSE IF a.path = "cfg_attr"
    THEN LET nested == Filtered(p, Attributes)
         IN IF nested = <<>> THEN None ELSE CfgAttr(a.pred, nested)
  ELSE None

\* Conditions are about builds.
LEMMA SetsOfBuilds ==
  /\ \A p : Not(p) \in SUBSET Builds /\ AllOf(p) \in SUBSET Builds /\ AnyOf(p) \in SUBSET Builds
  /\ \A p, q : \A on \in Builds : on \in AnyOf(<<Not(p), q>>) <=> on \notin p \/ on \in q
<1>1. \A p : Not(p) \in SUBSET Builds /\ AllOf(p) \in SUBSET Builds /\ AnyOf(p) \in SUBSET Builds
  BY DEF Not, AllOf, AnyOf
<1>2. ASSUME NEW p, NEW q, NEW on \in Builds
      PROVE  on \in AnyOf(<<Not(p), q>>) <=> on \notin p \/ on \in q
  <2> DEFINE s == <<Not(p), q>>
  <2>1. DOMAIN s = {1, 2} /\ s[1] = Not(p) /\ s[2] = q
    OBVIOUS
  <2> HIDE DEF s
  <2>2. on \in AnyOf(s) <=> on \in Not(p) \/ on \in q
    BY <2>1 DEF AnyOf
  <2> QED  BY <2>2 DEF s, Not
<1> QED  BY <1>1, <1>2

\* Active, by its equation.
LEMMA ActiveIs ==
  \A a \in Attributes : /\ Active[a] = ActiveOf(a, Parts(Active, a))
                        /\ Active[a] \in SUBSET Builds
<1> DEFINE D == Seq(SUBSET Builds)
           step == [x \in Attributes \X D |-> ActiveOf(x[1], x[2])]
           V == [n \in 0..MaxNesting |-> SUBSET Builds]
           Is(f) == f = [a \in Attributes |-> ActiveOf(a, Parts(f, a))]
<1>1. \A a \in Attributes : \A p : ActiveOf(a, p) \in SUBSET Builds
  BY AttributeShape, SetsOfBuilds DEF ActiveOf
<1>2. ASSUME NEW n \in 0..MaxNesting PROVE PartLists(V, n) \subseteq D /\ V[n] = SUBSET Builds
  <2>0. V[n] = SUBSET Builds
    OBVIOUS
  <2>1. CASE n = 0
    BY <2>1 DEF PartLists
  <2>2. CASE n # 0
    <3> DEFINE k == n - 1
    <3>1. k \in 0..MaxNesting
      BY <2>2, ExpansionAssumption
    <3>2. PartLists(V, n) = Seq(V[k])
      BY <2>2 DEF PartLists
    <3> HIDE DEF k
    <3>3. V[k] = SUBSET Builds
      BY <3>1
    <3> HIDE DEF V
    <3>4. PartLists(V, n) = D
      BY <3>2, <3>3
    <3> QED  BY <2>0, <3>4
  <2> QED  BY <2>1, <2>2
<1>3. \A a \in Attributes : \A p \in D : step[<<a, p>>] = ActiveOf(a, p)
  OBVIOUS
<1> HIDE DEF step, V, D
<1>4. ASSUME NEW n \in 0..MaxNesting, NEW a \in Nested[n], NEW p \in PartLists(V, n)
      PROVE  step[<<a, p>>] \in V[n]
  <2>1. a \in Attributes /\ p \in D /\ V[n] = SUBSET Builds
    BY <1>2, NestedGrows
  <2>2. step[<<a, p>>] = ActiveOf(a, p)
    BY <1>3, <2>1
  <2> QED  BY <1>1, <2>1, <2>2
<1>5. PICK f : f = [a \in Attributes |-> step[<<a, Parts(f, a)>>]]
  BY AttributeRecursion
<1>6. \A a \in Attributes : Parts(f, a) \in D
  <2>1. Typed(step, V)
    BY <1>4 DEF Typed
  <2>2. \A a \in Attributes : Parts(f, a) \in PartLists(V, MaxNesting)
    BY <1>5, <2>1, RecursionTyped
  <2> QED  BY <1>2, <2>2, ExpansionAssumption
<1>7. Is(f)
  BY <1>3, <1>5, <1>6
<1>8. Active = CHOOSE h : Is(h)
  BY DEF Active, ActiveOf, Parts
<1>9. Is(Active)
  <2> HIDE DEF Is
  <2> QED  BY <1>7, <1>8
<1> DEFINE A == Active
<1> HIDE DEF A
<1>10. \A a \in Attributes : A[a] = ActiveOf(a, Parts(A, a))
  BY <1>9 DEF A
<1> QED  BY <1>1, <1>10 DEF A

\* Predicate, by its equation.
LEMMA PredicateIs ==
  \A a \in Attributes : /\ Predicate[a] = PredicateOf(a, Parts(Predicate, a))
                        /\ Predicate[a] \in SUBSET Builds
<1> DEFINE D == Seq(SUBSET Builds)
           step == [x \in Attributes \X D |-> PredicateOf(x[1], x[2])]
           V == [n \in 0..MaxNesting |-> SUBSET Builds]
           Is(f) == f = [a \in Attributes |-> PredicateOf(a, Parts(f, a))]
<1>1. \A a \in Attributes : \A p : PredicateOf(a, p) \in SUBSET Builds
  BY AttributeShape, SetsOfBuilds DEF PredicateOf
<1>2. ASSUME NEW n \in 0..MaxNesting PROVE PartLists(V, n) \subseteq D /\ V[n] = SUBSET Builds
  <2>0. V[n] = SUBSET Builds
    OBVIOUS
  <2>1. CASE n = 0
    BY <2>1 DEF PartLists
  <2>2. CASE n # 0
    <3> DEFINE k == n - 1
    <3>1. k \in 0..MaxNesting
      BY <2>2, ExpansionAssumption
    <3>2. PartLists(V, n) = Seq(V[k])
      BY <2>2 DEF PartLists
    <3> HIDE DEF k
    <3>3. V[k] = SUBSET Builds
      BY <3>1
    <3> HIDE DEF V
    <3>4. PartLists(V, n) = D
      BY <3>2, <3>3
    <3> QED  BY <2>0, <3>4
  <2> QED  BY <2>1, <2>2
<1>3. \A a \in Attributes : \A p \in D : step[<<a, p>>] = PredicateOf(a, p)
  OBVIOUS
<1> HIDE DEF step, V, D
<1>4. ASSUME NEW n \in 0..MaxNesting, NEW a \in Nested[n], NEW p \in PartLists(V, n)
      PROVE  step[<<a, p>>] \in V[n]
  <2>1. a \in Attributes /\ p \in D /\ V[n] = SUBSET Builds
    BY <1>2, NestedGrows
  <2>2. step[<<a, p>>] = PredicateOf(a, p)
    BY <1>3, <2>1
  <2> QED  BY <1>1, <2>1, <2>2
<1>5. PICK f : f = [a \in Attributes |-> step[<<a, Parts(f, a)>>]]
  BY AttributeRecursion
<1>6. \A a \in Attributes : Parts(f, a) \in D
  <2>1. Typed(step, V)
    BY <1>4 DEF Typed
  <2>2. \A a \in Attributes : Parts(f, a) \in PartLists(V, MaxNesting)
    BY <1>5, <2>1, RecursionTyped
  <2> QED  BY <1>2, <2>2, ExpansionAssumption
<1>7. Is(f)
  BY <1>3, <1>5, <1>6
<1>8. Predicate = CHOOSE h : Is(h)
  BY DEF Predicate, PredicateOf, Parts
<1>9. Is(Predicate)
  <2> HIDE DEF Is
  <2> QED  BY <1>7, <1>8
<1> DEFINE A == Predicate
<1> HIDE DEF A
<1>10. \A a \in Attributes : A[a] = PredicateOf(a, Parts(A, a))
  BY <1>9 DEF A
<1> QED  BY <1>1, <1>10 DEF A

\* What is left of a list of attributes and Nones at one level.
LEMMA FilteredParts ==
  ASSUME NEW n \in 0..MaxNesting, NEW p \in Seq(Nested[n] \cup {None})
  PROVE  /\ Filtered(p, Attributes) \in Seq(Nested[n])
         /\ Entries(Filtered(p, Attributes)) = Entries(p) \ {None}
<1> DEFINE W == Nested[n] \cup {None}
           s == Filtered(p, Attributes)
<1>1. s \in Seq(W) /\ Entries(s) = Entries(p) \cap Attributes
  BY FilteredEntries
<1>2. Entries(p) \subseteq W
  BY DEF Entries
<1>3. None \notin Attributes /\ Nested[n] \subseteq Attributes
  BY AttributeShape, NestedGrows
<1>4. Entries(s) = Entries(p) \ {None} /\ Entries(s) \subseteq Nested[n]
  <2> HIDE DEF s
  <2> QED  BY <1>1, <1>2, <1>3
<1>5. s \in Seq(Nested[n])
  <2>1. Len(s) \in Nat /\ s = [i \in 1..Len(s) |-> s[i]]
    BY <1>1
  <2>2. \A i \in 1..Len(s) : s[i] \in Nested[n]
    BY <1>4 DEF Entries
  <2> HIDE DEF s
  <2> QED  BY <2>1, <2>2
<1> QED  BY <1>4, <1>5

\* Condition, by its equation.
LEMMA ConditionIs ==
  \A a \in Attributes : Condition[a] = ConditionOf(a, Parts(Condition, a))
<1> DEFINE D == Seq(Attributes \cup {None})
           step == [x \in Attributes \X D |-> ConditionOf(x[1], x[2])]
           V == [n \in 0..MaxNesting |-> Nested[n] \cup {None}]
           Is(f) == f = [a \in Attributes |-> ConditionOf(a, Parts(f, a))]
<1>1. \A n \in 1..MaxNesting : V[n - 1] = Nested[n - 1] \cup {None} /\ n - 1 \in 0..MaxNesting
  BY ExpansionAssumption
<1>2. \A n \in 0..MaxNesting : V[n] = Nested[n] \cup {None}
  OBVIOUS
<1>3. \A a \in Attributes : \A p \in D : step[<<a, p>>] = ConditionOf(a, p)
  OBVIOUS
<1> HIDE DEF step, V
<1>4. \A n \in 0..MaxNesting : PartLists(V, n) \subseteq D
  <2> SUFFICES ASSUME NEW n \in 0..MaxNesting PROVE PartLists(V, n) \subseteq D
    OBVIOUS
  <2>1. CASE n = 0
    BY <2>1 DEF PartLists
  <2>2. CASE n # 0
    <3>1. n \in 1..MaxNesting
      BY <2>2
    <3>2. V[n - 1] = Nested[n - 1] \cup {None} /\ Nested[n - 1] \subseteq Attributes
      BY <1>1, <3>1, NestedGrows
    <3> QED  BY <2>2, <3>2 DEF PartLists
  <2> QED  BY <2>1, <2>2
<1>5. ASSUME NEW n \in 0..MaxNesting, NEW a \in Nested[n], NEW p \in PartLists(V, n)
      PROVE  ConditionOf(a, p) \in Nested[n] \cup {None}
  <2>1. Shaped(a, n)
    BY NestedShape
  <2>2. CASE a.path # "cfg_attr"
    BY <2>2 DEF ConditionOf
  <2>3. CASE a.path = "cfg_attr"
    <3>1. n \in 1..MaxNesting
      BY <2>1, <2>3 DEF Shaped
    <3>2. p \in Seq(Nested[n - 1] \cup {None}) /\ n - 1 \in 0..MaxNesting
      BY <1>1, <3>1 DEF PartLists
    <3> DEFINE s == Filtered(p, Attributes)
    <3>3. s \in Seq(Nested[n - 1])
      BY <3>2, FilteredParts
    <3>4. ConditionOf(a, p) = IF s = <<>> THEN None ELSE CfgAttr(a.pred, s)
      BY <2>3 DEF ConditionOf
    <3>5. CfgAttr(a.pred, s) \in Around(Nested[n - 1])
      <4> HIDE DEF s
      <4> QED  BY <2>1, <3>3 DEF Shaped, CfgAttr, Around
    <3>6. Around(Nested[n - 1]) \subseteq Nested[n]
      BY <3>1, NestedIs
    <3> QED  BY <3>4, <3>5, <3>6
  <2> QED  BY <2>2, <2>3
<1> HIDE DEF D
<1>6. ASSUME NEW n \in 0..MaxNesting, NEW a \in Nested[n], NEW p \in PartLists(V, n)
      PROVE  step[<<a, p>>] \in V[n]
  <2>1. a \in Attributes /\ p \in D
    BY <1>4, NestedGrows
  <2>2. step[<<a, p>>] = ConditionOf(a, p)
    BY <1>3, <2>1
  <2> QED  BY <1>2, <1>5, <2>2
<1>7. PICK f : f = [a \in Attributes |-> step[<<a, Parts(f, a)>>]]
  BY AttributeRecursion
<1>8. \A a \in Attributes : Parts(f, a) \in D
  <2>1. Typed(step, V)
    BY <1>6 DEF Typed
  <2>2. \A a \in Attributes : Parts(f, a) \in PartLists(V, MaxNesting)
    BY <1>7, <2>1, RecursionTyped
  <2> QED  BY <1>4, <2>2, ExpansionAssumption
<1>9. Is(f)
  BY <1>3, <1>7, <1>8
<1>10. Condition = CHOOSE h : Is(h)
  BY DEF Condition, ConditionOf, Parts
<1>11. Is(Condition)
  <2> HIDE DEF Is
  <2> QED  BY <1>9, <1>10
<1> DEFINE A == Condition
<1> HIDE DEF A
<1>12. \A a \in Attributes : A[a] = ConditionOf(a, Parts(A, a))
  BY <1>11 DEF A
<1> QED  BY <1>12 DEF A

-------------------------------------------------------------------------------
(* Conditions: what is left of attributes that only decides about builds.    *)

\* The builds that f has in common for all of S.
Throughout(f, S) == {on \in Builds : \A x \in S : on \in f[x]}

\* The condition of an attribute says what the attribute does, and Predicate does
\* not change it.
Fits(a, n) ==
  LET c == Condition[a] IN
  /\ c \in Nested[n] \cup {None}
  /\ c = None => Active[a] = Builds
  /\ c # None => Active[a] = Active[c] /\ Predicate[c] = Active[c]

ConditionList(t) == Filtered([i \in DOMAIN t |-> Condition[t[i]]], Attributes)

LEMMA AllOfEntries ==
  ASSUME NEW A, NEW s \in Seq(A), NEW f
  PROVE  AllOf([i \in DOMAIN s |-> f[s[i]]]) = Throughout(f, Entries(s))
<1> DEFINE g == [i \in DOMAIN s |-> f[s[i]]]
<1>1. DOMAIN s = 1..Len(s) /\ DOMAIN g = DOMAIN s /\ \A i \in DOMAIN s : g[i] = f[s[i]]
  OBVIOUS
<1> HIDE DEF g
<1>2. ASSUME NEW on \in Builds
      PROVE  (\A i \in DOMAIN g : on \in g[i]) <=> (\A x \in Entries(s) : on \in f[x])
  BY <1>1 DEF Entries
<1>3. AllOf(g) = Throughout(f, Entries(s))
  BY <1>2 DEF AllOf, Throughout
<1> QED  BY <1>3 DEF g

\* A list of attributes and its conditions are about the same builds.
LEMMA ConditionsFit ==
  ASSUME NEW n \in 0..MaxNesting, \A a \in Nested[n] : Fits(a, n), NEW t \in Seq(Nested[n])
  PROVE  /\ ConditionList(t) \in Seq(Nested[n])
         /\ Throughout(Active, Entries(t)) = Throughout(Active, Entries(ConditionList(t)))
         /\ \A x \in Entries(ConditionList(t)) : Predicate[x] = Active[x]
<1> DEFINE p == [i \in DOMAIN t |-> Condition[t[i]]]
           s == ConditionList(t)
<1>1. /\ DOMAIN t = 1..Len(t) /\ Len(t) \in Nat
      /\ \A i \in 1..Len(t) : t[i] \in Nested[n]
  OBVIOUS
<1>2. \A i \in 1..Len(t) : Condition[t[i]] \in Nested[n] \cup {None}
  BY <1>1 DEF Fits
<1>3. p \in Seq(Nested[n] \cup {None}) /\ Len(p) = Len(t) /\ \A i \in 1..Len(t) : p[i] = Condition[t[i]]
  BY <1>1, <1>2
<1>4. s = Filtered(p, Attributes)
  BY DEF ConditionList
<1> HIDE DEF p, s
<1>5. s \in Seq(Nested[n]) /\ Entries(s) = Entries(p) \ {None}
  BY <1>3, <1>4, FilteredParts
<1>6. \A i \in 1..Len(t) : Fits(t[i], n)
  BY <1>1
<1>7. ASSUME NEW x \in Entries(s) PROVE \E i \in 1..Len(t) : x = Condition[t[i]] /\ x # None
  <2>1. x \in Entries(p) /\ x # None
    BY <1>5
  <2>2. PICK i \in 1..Len(p) : x = p[i]
    BY <2>1 DEF Entries
  <2> QED  BY <1>3, <2>1, <2>2
<1>8. \A x \in Entries(s) : Predicate[x] = Active[x]
  BY <1>6, <1>7 DEF Fits
<1>9. \A i \in 1..Len(t) : Condition[t[i]] # None => Condition[t[i]] \in Entries(s)
  BY <1>3, <1>5 DEF Entries
<1>10. ASSUME NEW on \in Builds
       PROVE  (\A x \in Entries(t) : on \in Active[x]) <=> (\A x \in Entries(s) : on \in Active[x])
  <2>1. ASSUME \A x \in Entries(t) : on \in Active[x], NEW x \in Entries(s) PROVE on \in Active[x]
    <3>1. PICK i \in 1..Len(t) : x = Condition[t[i]] /\ x # None
      BY <1>7
    <3>2. on \in Active[t[i]]
      BY <2>1 DEF Entries
    <3>3. Active[t[i]] = Active[x]
      BY <1>6, <3>1 DEF Fits
    <3> QED  BY <3>2, <3>3
  <2>2. ASSUME \A x \in Entries(s) : on \in Active[x], NEW i \in 1..Len(t) PROVE on \in Active[t[i]]
    <3>1. CASE Condition[t[i]] = None
      BY <1>6, <3>1 DEF Fits
    <3>2. CASE Condition[t[i]] # None
      <4>1. on \in Active[Condition[t[i]]]
        BY <1>9, <2>2, <3>2
      <4>2. Active[t[i]] = Active[Condition[t[i]]]
        BY <1>6, <3>2 DEF Fits
      <4> QED  BY <4>1, <4>2
    <3> QED  BY <3>1, <3>2
  <2> QED  BY <2>1, <2>2 DEF Entries
<1>11. Throughout(Active, Entries(t)) = Throughout(Active, Entries(s))
  BY <1>10 DEF Throughout
<1> QED  BY <1>5, <1>8, <1>11 DEF s

LEMMA ConditionFits ==
  \A n \in 0..MaxNesting : \A a \in Nested[n] : Fits(a, n)
<1> DEFINE T == {n \in 0..MaxNesting : \A a \in Nested[n] : Fits(a, n)}
<1>1. ASSUME NEW n \in 0..MaxNesting, n # 0 => n - 1 \in T, NEW a \in Nested[n] PROVE Fits(a, n)
  <2>1. Shaped(a, n) /\ a \in Attributes /\ None \notin Attributes
    BY NestedShape, NestedGrows, AttributeShape
  <2>2. /\ Condition[a] = ConditionOf(a, Parts(Condition, a))
        /\ Active[a] = ActiveOf(a, Parts(Active, a))
        /\ Predicate[a] = PredicateOf(a, Parts(Predicate, a))
    BY <2>1, ConditionIs, ActiveIs, PredicateIs
  <2>3. CASE a.path = "cfg"
    <3>1. Condition[a] = a /\ Active[a] = a.pred /\ Predicate[a] = a.pred
      BY <2>2, <2>3 DEF ConditionOf, ActiveOf, PredicateOf
    <3> QED  BY <2>1, <3>1 DEF Fits
  <2>4. CASE a.path = "doc"
    <3>1. Condition[a] = None /\ Active[a] = Builds
      BY <2>2, <2>4 DEF ConditionOf, ActiveOf
    <3> QED  BY <3>1 DEF Fits
  <2>5. CASE a.path = "cfg_attr"
    <3> DEFINE m == n - 1
               t == a.nested
               s == ConditionList(t)
               c == CfgAttr(a.pred, s)
    <3>1. m \in 0..MaxNesting /\ n \in 1..MaxNesting /\ t \in Seq(Nested[m]) /\ m \in T
      BY <1>1, <2>1, <2>5, ExpansionAssumption DEF Shaped
    <3>2. Around(Nested[m]) \subseteq Nested[n] /\ Nested[n] \subseteq Attributes
      BY <3>1, NestedIs, NestedGrows
    <3> HIDE DEF m
    <3>3. /\ s \in Seq(Nested[m])
          /\ Throughout(Active, Entries(t)) = Throughout(Active, Entries(s))
          /\ \A x \in Entries(s) : Predicate[x] = Active[x]
      BY <3>1, ConditionsFit
    <3>4. Condition[a] = IF s = <<>> THEN None ELSE c
      BY <2>2, <2>5 DEF ConditionOf, Parts, ConditionList
    <3>5. AllOf(Parts(Active, a)) = Throughout(Active, Entries(t))
      BY <3>1, AllOfEntries DEF Parts
    <3>6. Active[a] = Not(a.pred) \cup Throughout(Active, Entries(s))
      BY <2>2, <2>5, <3>3, <3>5 DEF ActiveOf
    <3> HIDE DEF s, t
    <3>7. CASE s = <<>>
      <4>1. Entries(s) = {}
        BY <3>7 DEF Entries
      <4>2. Active[a] = Builds
        BY <3>6, <4>1 DEF Throughout, Not
      <4> QED  BY <3>4, <3>7, <4>2 DEF Fits
    <3>8. CASE s # <<>>
      <4>1. c \in Around(Nested[m])
        BY <2>1, <3>3 DEF Shaped, CfgAttr, Around
      <4>2. c \in Nested[n] /\ c \in Attributes /\ c # None
        BY <2>1, <3>2, <4>1
      <4>3. c.path = "cfg_attr" /\ c.pred = a.pred /\ c.nested = s
        BY DEF CfgAttr
      <4> HIDE DEF c
      <4>4. /\ Active[c] = ActiveOf(c, Parts(Active, c))
            /\ Predicate[c] = PredicateOf(c, Parts(Predicate, c))
            /\ Active[c] \in SUBSET Builds /\ Predicate[c] \in SUBSET Builds
        BY <4>2, ActiveIs, PredicateIs
      <4>5. /\ AllOf(Parts(Active, c)) = Throughout(Active, Entries(s))
            /\ AllOf(Parts(Predicate, c)) = Throughout(Predicate, Entries(s))
        BY <3>3, <4>3, AllOfEntries DEF Parts
      <4>6. Throughout(Predicate, Entries(s)) = Throughout(Active, Entries(s))
        BY <3>3 DEF Throughout
      <4>7. Active[c] = Not(a.pred) \cup Throughout(Active, Entries(s))
        BY <4>3, <4>4, <4>5 DEF ActiveOf
      <4>8. Predicate[c] = AnyOf(<<Not(a.pred), Throughout(Active, Entries(s))>>)
        BY <4>3, <4>4, <4>5, <4>6 DEF PredicateOf
      <4>9. \A on \in Builds : on \in Predicate[c] <=> on \in Active[c]
        BY <4>7, <4>8, SetsOfBuilds DEF Not
      <4>10. Predicate[c] = Active[c]
        BY <4>4, <4>9
      <4>11. Condition[a] = c /\ Active[a] = Active[c]
        BY <3>4, <3>6, <3>8, <4>7
      <4> QED  BY <4>2, <4>10, <4>11 DEF Fits
    <3> QED  BY <3>7, <3>8
  <2> QED  BY <2>1, <2>3, <2>4, <2>5 DEF Shaped
<1>2. 0 \in 0..MaxNesting /\ \A n \in 1..MaxNesting : n \in 0..MaxNesting
  BY ExpansionAssumption
<1>3. 0 \in T /\ \A n \in 1..MaxNesting : n - 1 \in T => n \in T
  BY <1>1, <1>2
<1> HIDE DEF T
<1>4. \A n \in 0..MaxNesting : n \in T
  BY <1>3, NestingInduction
<1> QED  BY <1>4 DEF T

\* The builds an item with these attributes is part of.
KeptIn(attrs) == {on \in Builds : Kept(attrs, on)}

LEMMA KeptEntries ==
  ASSUME NEW s \in Seq(Attributes)
  PROVE  KeptIn(s) = Throughout(Active, Entries(s))
<1>1. DOMAIN s = 1..Len(s)
  OBVIOUS
<1> QED  BY <1>1 DEF KeptIn, Kept, Throughout, Entries

LEMMA KeptConcat ==
  ASSUME NEW s \in Seq(Attributes), NEW t \in Seq(Attributes)
  PROVE  KeptIn(s \o t) = KeptIn(s) \cap KeptIn(t)
<1>1. s \o t \in Seq(Attributes) /\ Entries(s \o t) = Entries(s) \cup Entries(t)
  BY ConcatEntries
<1>2. Throughout(Active, Entries(s) \cup Entries(t)) =
        Throughout(Active, Entries(s)) \cap Throughout(Active, Entries(t))
  BY DEF Throughout
<1> QED  BY <1>1, <1>2, KeptEntries

LEMMA AllOfConcat ==
  ASSUME NEW s \in Seq(SUBSET Builds), NEW t \in Seq(SUBSET Builds)
  PROVE  AllOf(s \o t) = AllOf(s) \cap AllOf(t)
<1>1. \A u \in Seq(SUBSET Builds) : AllOf(u) = {on \in Builds : \A p \in Entries(u) : on \in p}
  BY DEF AllOf, Entries
<1>2. s \o t \in Seq(SUBSET Builds) /\ Entries(s \o t) = Entries(s) \cup Entries(t)
  BY ConcatEntries
<1> HIDE DEF Builds
<1> QED  BY <1>1, <1>2

\* An attribute written as one predicate.
LEMMA CfgIs ==
  \A p \in SUBSET Builds : Cfg(p) \in Attributes /\ Active[Cfg(p)] = p /\ Predicate[Cfg(p)] = p
<1> SUFFICES ASSUME NEW p \in SUBSET Builds
             PROVE  Cfg(p) \in Attributes /\ Active[Cfg(p)] = p /\ Predicate[Cfg(p)] = p
  OBVIOUS
<1> DEFINE a == Cfg(p)
<1>1. a \in Attributes /\ a.path = "cfg" /\ a.pred = p
  BY AttributeShape DEF Cfg
<1> HIDE DEF a
<1>2. Active[a] = p /\ Predicate[a] = p
  BY <1>1, ActiveIs, PredicateIs DEF ActiveOf, PredicateOf
<1> QED  BY <1>1, <1>2 DEF a

\* What conditions and predicate promise: nothing is lost but what does not decide.
LEMMA ConditionsKeep ==
  ASSUME NEW s \in Seq(Attributes)
  PROVE  /\ Conditions(s) \in Seq(Attributes)
         /\ \A x \in Entries(Conditions(s)) : Predicate[x] = Active[x]
         /\ KeptIn(Conditions(s)) = KeptIn(s)
         /\ Predicates(s) \in Seq(SUBSET Builds)
         /\ AllOf(Predicates(s)) = KeptIn(s)
<1> DEFINE c == Conditions(s)
           n == MaxNesting
<1>1. n \in 0..MaxNesting /\ Attributes = Nested[n]
  BY ExpansionAssumption DEF Attributes
<1>2. c = ConditionList(s)
  BY DEF Conditions, ConditionList
<1>3. Predicates(s) = [i \in DOMAIN c |-> Predicate[c[i]]]
  BY DEF Predicates
<1> HIDE DEF c, n
<1>4. /\ c \in Seq(Attributes) /\ \A x \in Entries(c) : Predicate[x] = Active[x]
      /\ Throughout(Active, Entries(s)) = Throughout(Active, Entries(c))
  BY <1>1, <1>2, ConditionFits, ConditionsFit
<1>5. KeptIn(c) = KeptIn(s)
  BY <1>4, KeptEntries
<1>6. \A i \in DOMAIN c : Predicate[c[i]] \in SUBSET Builds
  BY <1>4, PredicateIs
<1>7. Predicates(s) \in Seq(SUBSET Builds)
  <2> HIDE DEF Builds
  <2> QED  BY <1>3, <1>4, <1>6
<1>8. AllOf(Predicates(s)) = Throughout(Predicate, Entries(c))
  BY <1>3, <1>4, AllOfEntries
<1>9. Throughout(Predicate, Entries(c)) = Throughout(Active, Entries(c))
  BY <1>4 DEF Throughout
<1> QED  BY <1>4, <1>5, <1>7, <1>8, <1>9, KeptEntries DEF c

-------------------------------------------------------------------------------
(* Interfaces.                                                               *)

InterfaceOK ==
  /\ interface.attrs \in Seq(Attributes)
  /\ Methods \in Seq([name : Names \cup {Rejected}, attrs : Seq(Attributes)])

LEMMA MethodTypes ==
  ASSUME InterfaceOK
  PROVE  /\ Len(Methods) \in Nat /\ DOMAIN Methods = 1..Len(Methods)
         /\ \A i \in 1..Len(Methods) : Methods[i].attrs \in Seq(Attributes)
         /\ \A i \in 1..Len(Methods) : Clashes(i) \subseteq 1..(i - 1)
         /\ \A i \in 1..Len(Methods) : Clashes(i) \subseteq 1..Len(Methods)
<1> DEFINE ms == Methods
<1>1. ms \in Seq([name : Names \cup {Rejected}, attrs : Seq(Attributes)])
  BY DEF InterfaceOK
<1> HIDE DEF ms
<1>2. /\ Len(ms) \in Nat /\ DOMAIN ms = 1..Len(ms)
      /\ \A i \in 1..Len(ms) : ms[i] \in [name : Names \cup {Rejected}, attrs : Seq(Attributes)]
  <2> DEFINE R == [name : Names \cup {Rejected}, attrs : Seq(Attributes)]
  <2>1. ms \in Seq(R)
    BY <1>1
  <2> HIDE DEF R
  <2>2. Len(ms) \in Nat /\ DOMAIN ms = 1..Len(ms) /\ \A i \in 1..Len(ms) : ms[i] \in R
    BY <2>1
  <2> QED  BY <2>2 DEF R
<1>3. \A i \in 1..Len(ms) : ms[i].attrs \in Seq(Attributes)
  BY <1>2
<1>4. \A i \in 1..Len(ms) : Clashes(i) \subseteq 1..(i - 1) /\ 1..(i - 1) \subseteq 1..Len(ms)
  BY <1>2 DEF Clashes
<1> QED  BY <1>2, <1>3, <1>4 DEF ms

\* Builds without an earlier method of the same name.
First(i) == {on \in Builds : \A j \in Clashes(i) : on \notin KeptIn(Methods[j].attrs)}

LEMMA GuardsKeep ==
  ASSUME InterfaceOK, NEW i \in 1..Len(Methods)
  PROVE  /\ GuardsOf(i) \in Seq(Attributes)
         /\ \A x \in Entries(GuardsOf(i)) : Predicate[x] = Active[x]
         /\ KeptIn(GuardsOf(i)) = First(i)
<1> DEFINE before == [j \in 1..(i - 1) |-> j]
           e == Filtered(before, Clashes(i))
           guard(j) == Cfg(Not(AllOf(Predicates(Methods[j].attrs))))
           g == GuardsOf(i)
<1>1. i \in Nat /\ i - 1 \in Nat /\ i - 1 <= Len(Methods) /\ Clashes(i) \subseteq 1..(i - 1)
  BY MethodTypes
<1>2. before \in Seq(1..(i - 1)) /\ Entries(before) = 1..(i - 1)
  BY <1>1 DEF Entries
<1>3. g = [k \in DOMAIN e |-> guard(e[k])]
  BY DEF GuardsOf
<1> HIDE DEF before
<1>4. e \in Seq(1..(i - 1)) /\ Entries(e) = Clashes(i)
  <2>1. e \in Seq(1..(i - 1)) /\ Entries(e) = Entries(before) \cap Clashes(i)
    BY <1>2, FilteredEntries
  <2> HIDE DEF e
  <2> QED  BY <1>1, <1>2, <2>1
<1>5. ASSUME NEW j \in Clashes(i)
      PROVE  /\ guard(j) \in Attributes
             /\ Active[guard(j)] = Builds \ KeptIn(Methods[j].attrs)
             /\ Predicate[guard(j)] = Active[guard(j)]
  <2> DEFINE s == Methods[j].attrs
             p == Not(AllOf(Predicates(s)))
  <2>1. s \in Seq(Attributes)
    BY <1>1, MethodTypes
  <2> HIDE DEF s
  <2>2. p = Builds \ KeptIn(s) /\ p \in SUBSET Builds
    BY <2>1, ConditionsKeep DEF Not
  <2> HIDE DEF p
  <2>3. Cfg(p) \in Attributes /\ Active[Cfg(p)] = p /\ Predicate[Cfg(p)] = p
    BY <2>2, CfgIs
  <2> QED  BY <2>2, <2>3 DEF p, s
<1> HIDE DEF e, g, guard
<1>6. DOMAIN e = 1..Len(e) /\ Len(e) \in Nat /\ \A k \in 1..Len(e) : e[k] \in Clashes(i)
  BY <1>4 DEF Entries
<1>7. g \in Seq(Attributes) /\ Len(g) = Len(e) /\ \A k \in 1..Len(e) : g[k] = guard(e[k])
  BY <1>3, <1>5, <1>6
<1>8. Entries(g) = {guard(j) : j \in Clashes(i)}
  <2>1. Entries(g) = {guard(e[k]) : k \in 1..Len(e)}
    BY <1>7 DEF Entries
  <2>2. Clashes(i) = {e[k] : k \in 1..Len(e)}
    BY <1>4 DEF Entries
  <2> QED  BY <2>1, <2>2
<1>9. \A x \in Entries(g) : Predicate[x] = Active[x]
  BY <1>5, <1>8
<1>10. Throughout(Active, Entries(g)) = First(i)
  BY <1>5, <1>8 DEF Throughout, First
<1>11. KeptIn(g) = First(i)
  BY <1>7, <1>10, KeptEntries
<1> QED  BY <1>7, <1>9, <1>11 DEF g

\* What the expansion puts on the items of a method, and the predicate of it.
LEMMA SignalKept ==
  ASSUME InterfaceOK, NEW i \in 1..Len(Methods), guards[i] = GuardsOf(i)
  PROVE  /\ KeptIn(SignalAttrs(i)) = KeptIn(Methods[i].attrs) \cap First(i)
         /\ Enabled(i) = KeptIn(SignalAttrs(i))
<1> DEFINE s == Methods[i].attrs
           c == Conditions(s)
           g == guards[i]
           u == SignalAttrs(i)
<1>1. s \in Seq(Attributes)
  BY MethodTypes
<1>2. u = c \o g
  BY DEF SignalAttrs
<1>3. Enabled(i) = AllOf([k \in DOMAIN u |-> Predicate[u[k]]])
  BY DEF Enabled
<1> HIDE DEF s, u
<1>4. /\ c \in Seq(Attributes) /\ KeptIn(c) = KeptIn(s)
      /\ \A x \in Entries(c) : Predicate[x] = Active[x]
  BY <1>1, ConditionsKeep
<1>5. /\ g \in Seq(Attributes) /\ KeptIn(g) = First(i)
      /\ \A x \in Entries(g) : Predicate[x] = Active[x]
  BY GuardsKeep
<1> HIDE DEF c, g
<1>6. u \in Seq(Attributes) /\ Entries(u) = Entries(c) \cup Entries(g) /\ KeptIn(u) = KeptIn(c) \cap KeptIn(g)
  BY <1>2, <1>4, <1>5, ConcatEntries, KeptConcat
<1>7. Throughout(Predicate, Entries(u)) = Throughout(Active, Entries(u))
  BY <1>4, <1>5, <1>6 DEF Throughout
<1>8. Enabled(i) = KeptIn(u)
  BY <1>3, <1>6, <1>7, AllOfEntries, KeptEntries
<1> QED  BY <1>4, <1>5, <1>6, <1>8 DEF u, s

-------------------------------------------------------------------------------
(* The scan of an interface.                                                 *)

Refused(i) ==
  \/ Methods[i].name = Rejected
  \/ Unconditional(i) /\ \E j \in Clashes(i) : Unconditional(j)

GuardsOK ==
  /\ guards \in Seq(Seq(Attributes)) /\ Len(guards) = seen
  /\ \A i \in 1..seen : guards[i] = GuardsOf(i)

CollisionsOK == collisions = UNION {CollisionsOf(i) : i \in 1..seen}

SignalsInv ==
  /\ InterfaceOK
  /\ seen \in 0..Len(Methods)
  /\ failed => \E i \in 1..Len(Methods) : Refused(i)
  /\ GuardsOK
  /\ CollisionsOK

LEMMA SignalsInitial == Init => SignalsInv
<1> SUFFICES ASSUME Init PROVE SignalsInv
  OBVIOUS
<1>1. seen = 0 /\ guards = <<>> /\ collisions = {} /\ failed = FALSE
  BY DEF Init
<1>2. InterfaceOK
  <2> DEFINE R == [name : Names \cup {Rejected}, attrs : AttrLists]
             Q == [name : Names \cup {Rejected}, attrs : Seq(Attributes)]
  <2>1. CASE interface = NoInterface
    <3>1. interface.attrs = <<>> /\ Methods = <<>>
      BY <2>1 DEF NoInterface, Methods
    <3> QED  BY <3>1 DEF InterfaceOK
  <2>2. CASE interface \in Interfaces
    <3>1. interface.attrs \in AttrLists /\ Methods \in UNION {[1..n -> R] : n \in 0..MaxMethods}
      BY <2>2 DEF Interfaces, Methods
    <3>2. PICK n \in 0..MaxMethods : Methods \in [1..n -> R]
      BY <3>1
    <3>3. AttrLists \subseteq Seq(Attributes) /\ n \in Nat
      BY ExpansionAssumption
    <3>4. R \subseteq Q
      BY <3>3
    <3> HIDE DEF R, Q
    <3>5. Methods \in Seq(Q)
      BY <3>2, <3>3, <3>4
    <3> QED  BY <3>1, <3>3, <3>5 DEF InterfaceOK, Q
  <2> QED  BY <2>1, <2>2 DEF Init
<1>3. Len(Methods) \in Nat
  BY <1>2, MethodTypes
<1>4. GuardsOK
  BY <1>1 DEF GuardsOK
<1>5. CollisionsOK
  BY <1>1 DEF CollisionsOK
<1> QED  BY <1>1, <1>2, <1>3, <1>4, <1>5 DEF SignalsInv

\* The operators of an interface are about the interface alone.
LEMMA SameInterface ==
  ASSUME UNCHANGED interface
  PROVE  /\ InterfaceOK' = InterfaceOK /\ Methods' = Methods
         /\ \A i : GuardsOf(i)' = GuardsOf(i) /\ CollisionsOf(i)' = CollisionsOf(i)
         /\ \A i : Refused(i)' = Refused(i)
BY DEF InterfaceOK, Methods, GuardsOf, CollisionsOf, Refused, Clashes, Unconditional

LEMMA ScanKeeps ==
  ASSUME SignalsInv, ScanMethod
  PROVE  SignalsInv'
<1> DEFINE i == seen + 1
<1>0. /\ ~failed /\ seen < Len(Methods) /\ seen \in 0..Len(Methods) /\ Len(Methods) \in Nat
      /\ UNCHANGED interface
  BY MethodTypes DEF ScanMethod, SignalsInv
<1>1. i \in 1..Len(Methods)
  BY <1>0
<1>2. /\ InterfaceOK' /\ Methods' = Methods
      /\ \A k : GuardsOf(k)' = GuardsOf(k) /\ CollisionsOf(k)' = CollisionsOf(k)
      /\ \A k : Refused(k)' = Refused(k)
  BY <1>0, SameInterface DEF SignalsInv
<1>3. CASE Refused(i)
  <2>1. failed' = TRUE /\ UNCHANGED <<seen, guards, collisions>>
    BY <1>3 DEF ScanMethod, Refused
  <2>2. GuardsOK' /\ CollisionsOK'
    BY <1>2, <2>1 DEF SignalsInv, GuardsOK, CollisionsOK
  <2> QED  BY <1>0, <1>1, <1>2, <1>3, <2>1, <2>2 DEF SignalsInv
<1>4. CASE ~Refused(i)
  <2>1. /\ seen' = i /\ guards' = Append(guards, GuardsOf(i))
        /\ collisions' = collisions \cup CollisionsOf(i) /\ UNCHANGED failed
    BY <1>4 DEF ScanMethod, Refused
  <2>2. GuardsOf(i) \in Seq(Attributes)
    BY <1>1, GuardsKeep DEF SignalsInv
  <2>3. guards' \in Seq(Seq(Attributes)) /\ Len(guards') = i
        /\ \A k \in 1..i : guards'[k] = GuardsOf(k)
    <3> DEFINE gs == guards
               S == Seq(Attributes)
               x == GuardsOf(i)
    <3>1. gs \in Seq(S) /\ Len(gs) = seen /\ \A k \in 1..seen : gs[k] = GuardsOf(k)
      BY DEF SignalsInv, GuardsOK
    <3>2. x \in S /\ guards' = Append(gs, x)
      BY <2>1, <2>2
    <3> HIDE DEF S, x
    <3>3. /\ Append(gs, x) \in Seq(S) /\ Len(Append(gs, x)) = i
          /\ \A k \in 1..seen : Append(gs, x)[k] = gs[k]
          /\ Append(gs, x)[i] = x
      BY <1>0, <3>1, <3>2
    <3>4. \A k \in 1..i : k \in 1..seen \/ k = i
      BY <1>0
    <3> QED  BY <3>1, <3>2, <3>3, <3>4 DEF x, S
  <2>4. GuardsOK'
    BY <1>2, <2>1, <2>3 DEF GuardsOK
  <2>5. CollisionsOK'
    <3>1. 1..i = 1..seen \cup {i}
      BY <1>0
    <3> DEFINE C(k) == CollisionsOf(k)
    <3>2. UNION {C(k) : k \in 1..i} = (UNION {C(k) : k \in 1..seen}) \cup C(i)
      <4> HIDE DEF C, i
      <4> QED  BY <3>1
    <3>3. collisions = UNION {C(k) : k \in 1..seen}
      BY DEF SignalsInv, CollisionsOK
    <3>4. collisions' = UNION {C(k) : k \in 1..i}
      BY <2>1, <3>2, <3>3
    <3> HIDE DEF i
    <3> QED  BY <1>2, <2>1, <3>4 DEF CollisionsOK
  <2> QED  BY <1>0, <1>1, <1>2, <2>1, <2>4, <2>5 DEF SignalsInv
<1> QED  BY <1>3, <1>4

\* The scan records for each method the guards and the errors that the methods
\* before it call for, and fails only where no build can be right.
THEOREM SignalsInvariant == Spec => []SignalsInv
<1>1. SignalsInv /\ [Next]_vars => SignalsInv'
  <2> SUFFICES ASSUME SignalsInv, [Next]_vars PROVE SignalsInv'
    OBVIOUS
  <2>1. CASE ScanMethod
    BY <2>1, ScanKeeps
  <2>2. CASE UNCHANGED signals
    <3>1. /\ InterfaceOK' = InterfaceOK /\ Methods' = Methods
          /\ \A i : GuardsOf(i)' = GuardsOf(i) /\ CollisionsOf(i)' = CollisionsOf(i)
          /\ \A i : Refused(i)' = Refused(i)
      BY <2>2, SameInterface DEF signals
    <3>2. UNCHANGED <<seen, guards, collisions, failed>>
      BY <2>2 DEF signals
    <3>3. GuardsOK' /\ CollisionsOK'
      BY <3>1, <3>2 DEF SignalsInv, GuardsOK, CollisionsOK
    <3> QED  BY <3>1, <3>2, <3>3 DEF SignalsInv
  <2> QED  BY <2>1, <2>2 DEF Next, vars
<1> QED  BY <1>1, SignalsInitial, PTL DEF Spec

-------------------------------------------------------------------------------
(* What it comes to.                                                         *)

\* Declared and Generated, for all builds at once.
LEMMA GeneratedIs ==
  ASSUME SignalsInv, Expanded, NEW i \in 1..Len(Methods), NEW on \in Builds
  PROVE  /\ Declared(i, on) <=> on \in KeptIn(interface.attrs) /\ on \in KeptIn(Methods[i].attrs)
         /\ Generated(i, on) <=>
              /\ on \in KeptIn(interface.attrs) /\ on \in KeptIn(Methods[i].attrs)
              /\ on \in First(i)
         /\ on \in KeptIn(interface.attrs) => (on \in Enabled(i) <=> Generated(i, on))
<1>1. /\ InterfaceOK /\ guards[i] = GuardsOf(i)
  BY DEF SignalsInv, GuardsOK, Expanded
<1>2. /\ KeptIn(SignalAttrs(i)) = KeptIn(Methods[i].attrs) \cap First(i)
      /\ Enabled(i) = KeptIn(SignalAttrs(i))
  BY <1>1, SignalKept
<1>3. KeptIn(Conditions(interface.attrs)) = KeptIn(interface.attrs)
  BY <1>1, ConditionsKeep DEF InterfaceOK
<1>4. \A s : Kept(s, on) <=> on \in KeptIn(s)
  BY DEF KeptIn
<1> QED  BY <1>2, <1>3, <1>4 DEF Declared, Generated

\* In every build the signal of a name is that of its first declared method.
THEOREM SignalsAreRight == Spec => []FirstDeclarationWins
<1>1. SignalsInv => FirstDeclarationWins
  <2> SUFFICES ASSUME SignalsInv, Expanded, NEW on \in Builds, NEW i \in DOMAIN Methods
               PROVE  Generated(i, on) <=> Declared(i, on) /\ ~\E j \in Clashes(i) : Declared(j, on)
    BY DEF FirstDeclarationWins
  <2>1. i \in 1..Len(Methods) /\ Clashes(i) \subseteq 1..Len(Methods)
    BY MethodTypes DEF SignalsInv
  <2>2. \A j \in 1..Len(Methods) :
          Declared(j, on) <=> on \in KeptIn(interface.attrs) /\ on \in KeptIn(Methods[j].attrs)
    BY GeneratedIs
  <2>3. Generated(i, on) <=>
              /\ on \in KeptIn(interface.attrs) /\ on \in KeptIn(Methods[i].attrs)
              /\ on \in First(i)
    BY <2>1, GeneratedIs
  <2> QED  BY <2>1, <2>2, <2>3 DEF First
<1> QED  BY <1>1, SignalsInvariant, PTL

\* The connections of a whole interface exist in the builds with a signal.
THEOREM BulkIsRight == Spec => []BulkIffSignals
<1>1. SignalsInv => BulkIffSignals
  <2> SUFFICES ASSUME SignalsInv, Expanded, NEW on \in Builds,
                      Kept(Conditions(interface.attrs), on)
               PROVE  on \in BulkPredicate <=> \E i \in DOMAIN Methods : Generated(i, on)
    BY DEF BulkIffSignals
  <2>1. DOMAIN Methods = 1..Len(Methods) /\ interface.attrs \in Seq(Attributes)
    BY MethodTypes DEF SignalsInv, InterfaceOK
  <2>2. KeptIn(Conditions(interface.attrs)) = KeptIn(interface.attrs)
    BY <2>1, ConditionsKeep
  <2>3. on \in KeptIn(interface.attrs)
    BY <2>2 DEF KeptIn
  <2>4. \A i \in 1..Len(Methods) : on \in Enabled(i) <=> Generated(i, on)
    BY <2>3, GeneratedIs
  <2>5. on \in BulkPredicate <=> \E i \in DOMAIN Methods : on \in Enabled(i)
    BY DEF BulkPredicate, AnyOf
  <2> QED  BY <2>1, <2>4, <2>5
<1> QED  BY <1>1, SignalsInvariant, PTL

\* Two methods of one name in one build are an error there, and only there; what
\* is refused outright is so in every build.
THEOREM ClashesAreReported == Spec => []ClashReported
<1>1. SignalsInv => ClashReported
  <2> SUFFICES ASSUME SignalsInv PROVE ClashReported
    OBVIOUS
  <2>0. InterfaceOK /\ DOMAIN Methods = 1..Len(Methods) /\ Len(Methods) \in Nat
    BY MethodTypes DEF SignalsInv
  <2>1. ASSUME Expanded, NEW on \in Builds
        PROVE  Reported(on) <=>
                 \E i, j \in DOMAIN Methods : Clashing(i, j) /\ Declared(i, on) /\ Declared(j, on)
    <3> DEFINE K == KeptIn(interface.attrs)
               M(k) == KeptIn(Methods[k].attrs)
               both(i, j) == AllOf(Predicates(Methods[j].attrs) \o Predicates(Methods[i].attrs))
    <3>1. Kept(Conditions(interface.attrs), on) <=> on \in K
      <4>1. KeptIn(Conditions(interface.attrs)) = K
        BY <2>0, ConditionsKeep DEF InterfaceOK
      <4> QED  BY <4>1 DEF KeptIn
    <3>2. \A i \in 1..Len(Methods) : Clashes(i) \subseteq 1..Len(Methods)
      BY <2>0, MethodTypes
    <3>3. ASSUME NEW i \in 1..Len(Methods), NEW j \in Clashes(i)
          PROVE  both(i, j) = M(i) \cap M(j)
      <4>1. Methods[i].attrs \in Seq(Attributes) /\ Methods[j].attrs \in Seq(Attributes)
        BY <2>0, <3>2, MethodTypes
      <4>2. /\ Predicates(Methods[i].attrs) \in Seq(SUBSET Builds)
            /\ AllOf(Predicates(Methods[i].attrs)) = M(i)
        BY <4>1, ConditionsKeep
      <4>3. /\ Predicates(Methods[j].attrs) \in Seq(SUBSET Builds)
            /\ AllOf(Predicates(Methods[j].attrs)) = M(j)
        BY <4>1, ConditionsKeep
      <4> HIDE DEF M
      <4>4. both(i, j) = M(j) \cap M(i)
        BY <4>2, <4>3, AllOfConcat
      <4> QED  BY <4>4
    <3>4. \A p : p \in collisions <=> \E i \in 1..Len(Methods) : \E j \in Clashes(i) : p = both(i, j)
      BY <2>1 DEF SignalsInv, CollisionsOK, Expanded, CollisionsOf
    <3>5. \A k \in 1..Len(Methods) : Declared(k, on) <=> on \in K /\ on \in M(k)
      BY <2>1, GeneratedIs
    <3> HIDE DEF K, M, both
    <3>6. Reported(on) <=> on \in K /\ \E i \in 1..Len(Methods) : \E j \in Clashes(i) : on \in M(i) /\ on \in M(j)
      BY <3>1, <3>3, <3>4 DEF Reported
    <3>7. \A i, j \in 1..Len(Methods) : Clashing(i, j) <=> j \in Clashes(i) \/ i \in Clashes(j)
      BY <2>0 DEF Clashing, Clashes
    <3> QED  BY <2>0, <3>2, <3>5, <3>6, <3>7
  <2>2. ASSUME failed, \A i \in DOMAIN Methods : Methods[i].name # Rejected
        PROVE  \E i, j \in DOMAIN Methods :
                 /\ Clashing(i, j)
                 /\ \A on \in Builds : Kept(interface.attrs, on) => Declared(i, on) /\ Declared(j, on)
    <3>1. PICK i \in 1..Len(Methods) : Refused(i)
      BY <2>2 DEF SignalsInv
    <3>2. PICK j \in Clashes(i) : Unconditional(i) /\ Unconditional(j)
      BY <2>0, <2>2, <3>1 DEF Refused
    <3>3. j \in 1..Len(Methods) /\ Clashing(i, j)
      BY <2>0, <3>1, <3>2 DEF Clashes, Clashing
    <3>4. ASSUME NEW k \in 1..Len(Methods), Unconditional(k), NEW on \in Builds
          PROVE  Kept(Methods[k].attrs, on)
      <4>1. Methods[k].attrs \in Seq(Attributes)
        BY <2>0, MethodTypes
      <4>2. AllOf(Predicates(Methods[k].attrs)) = KeptIn(Methods[k].attrs)
        BY <4>1, ConditionsKeep
      <4>3. Predicates(Methods[k].attrs) = <<>>
        BY <3>4 DEF Unconditional
      <4>4. on \in AllOf(<<>>)
        BY DEF AllOf
      <4> QED  BY <4>2, <4>3, <4>4 DEF KeptIn
    <3> QED  BY <2>0, <3>2, <3>3, <3>4 DEF Declared
  <2> QED  BY <2>1, <2>2 DEF ClashReported
<1> QED  BY <1>1, SignalsInvariant, PTL

-------------------------------------------------------------------------------
(* The scopes, as the expansion of a unit handles them.                      *)

\* What is done about signals does not touch the scopes: the expansion of a unit
\* implements ShardScopes.
THEOREM ExpansionHandlesScopes == Spec => ScopesSpec
<1>1. Init => ScopesInit
  <2> SUFFICES ASSUME Init PROVE ScopesInit
    OBVIOUS
  <2>1. CASE tree \in Trees
    BY <2>1 DEF Init, ScopesInit
  <2>2. CASE tree = NoTree
    <3>1. 0 \in Mods /\ \A m \in Mods : m \in Nat /\ (m # 0 => 0 < m)
      BY ScopesAssumption DEF Mods
    <3>2. NoTree \in [parent : [Mods -> Mods], scoped : [Mods -> BOOLEAN],
                      file : [Mods -> BOOLEAN], explicit : [Mods -> BOOLEAN]]
      BY <3>1 DEF NoTree
    <3>3. /\ \A m \in Mods : NoTree.parent[m] = 0
          /\ ~NoTree.scoped[0]
      BY <3>1 DEF NoTree
    <3>4. NoTree \in Trees
      BY <3>1, <3>2, <3>3 DEF Trees
    <3> QED  BY <2>2, <3>4 DEF Init, ScopesInit
  <2> QED  BY <2>1, <2>2 DEF Init
<1>2. [Next]_vars => [ScopesNext]_affinity
  <2>1. ScanMethod => UNCHANGED affinity
    BY DEF ScanMethod
  <2> QED  BY <2>1 DEF Next, vars
<1> QED  BY <1>1, <1>2, PTL DEF Spec, ScopesSpec

\* So a type belongs to the shard its source says.
THEOREM TypesGetTheirShard == Spec => []InnermostScopeWins
BY ExpansionHandlesScopes, InnermostScopeIsTaken, PTL
===============================================================================
