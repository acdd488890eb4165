----------------------------- MODULE SublistsProofs -----------------------------
(***************************************************************************)
(* What it means to take some entries of a list (Sublists), for every list. *)
(* This is induction over lists.  The library's induction theorems take an  *)
(* operator, so induction is said of sets here (SetInduction), from the     *)
(* fact that a well-founded order has minimal elements.  The other proof    *)
(* modules take their facts about lists from this one.                      *)
(***************************************************************************)
EXTENDS Sublists, WellFoundedInduction, FiniteSetTheorems, TLAPS

\* Every non-empty set of naturals has a least member.
LEMMA LeastNatural ==
  ASSUME NEW T, T \subseteq Nat, T # {}
  PROVE  \E x \in T : \A y \in T : x <= y
<1> DEFINE R == OpToRel(<, Nat)
<1>1. IsWellFoundedOn(R, Nat)
  BY NatLessThanWellFounded, Zenon
<1>2. \E x \in T : \A y \in T : <<y, x>> \notin R
  <2> HIDE DEF R
  <2> QED  BY <1>1, WFMin
<1>3. PICK x \in T : \A y \in T : <<y, x>> \notin R
  BY <1>2
<1>4. \A y \in T : ~(y < x)
  BY <1>3, Zenon DEF OpToRel
<1> QED  BY <1>4

\* Induction, said of sets: one that holds 0 and, with each natural, the next
\* one, holds every natural.
LEMMA SetInduction ==
  ASSUME NEW T, 0 \in T, \A n \in Nat : n \in T => n + 1 \in T
  PROVE  Nat \subseteq T
<1> SUFFICES ASSUME Nat \ T # {} PROVE FALSE
  OBVIOUS
<1> DEFINE U == Nat \ T
<1>1. U \subseteq Nat /\ U # {}
  OBVIOUS
<1>2. PICK x \in U : \A y \in U : x <= y
  <2> HIDE DEF U
  <2> QED  BY <1>1, LeastNatural
<1>3. x - 1 \in T /\ x - 1 \in Nat
  BY <1>2
<1> QED  BY <1>2, <1>3

\* What a pass over s that keeps the members of S has after i entries, if g is what
\* it had before.
PassValue(s, S, g, i) ==
  IF i = 0 THEN <<>> ELSE IF s[i] \in S THEN Append(g[i - 1], s[i]) ELSE g[i - 1]

\* g is such a pass over n entries.
Pass(s, S, g, n) == g = [i \in 0..n |-> PassValue(s, S, g, i)]

\* By induction, there is a pass over a list of any length ...
LEMMA PassExists ==
  ASSUME NEW s, NEW S, NEW n \in Nat
  PROVE  \E g : Pass(s, S, g, n)
<1> DEFINE T == {m \in Nat : \E g : Pass(s, S, g, m)}
<1>1. 0 \in T
  <2>1. Pass(s, S, [i \in 0..0 |-> <<>>], 0)
    BY DEF Pass, PassValue
  <2> QED  BY <2>1
<1>2. ASSUME NEW m \in Nat, m \in T PROVE m + 1 \in T
  <2>1. PICK g : Pass(s, S, g, m)
    BY <1>2
  <2> DEFINE h == [i \in 0..(m + 1) |-> PassValue(s, S, g, i)]
  <2>2. \A i \in 0..m : h[i] = g[i]
    BY <2>1 DEF Pass
  <2>3. \A i \in 0..(m + 1) : PassValue(s, S, g, i) = PassValue(s, S, h, i)
    <3> SUFFICES ASSUME NEW i \in 0..(m + 1), i # 0 PROVE h[i - 1] = g[i - 1]
      BY DEF PassValue
    <3>1. i - 1 \in 0..m
      OBVIOUS
    <3> HIDE DEF h
    <3> QED  BY <3>1, <2>2
  <2>4. h = [i \in 0..(m + 1) |-> PassValue(s, S, h, i)]
    <3> DEFINE hh == [i \in 0..(m + 1) |-> PassValue(s, S, h, i)]
    <3> SUFFICES h = hh
      OBVIOUS
    <3>1. \A i \in 0..(m + 1) : h[i] = hh[i]
      BY <2>3, Zenon
    <3> QED  BY <3>1
  <2> HIDE DEF h
  <2> QED  BY <2>4 DEF Pass
<1> HIDE DEF T
<1>3. Nat \subseteq T
  BY <1>1, <1>2, SetInduction
<1> QED  BY <1>3 DEF T

\* ... and so the recursive function of Sublists is what its equation says.
LEMMA KeepingDef ==
  ASSUME NEW A, NEW s \in Seq(A), NEW S
  PROVE  /\ Keeping(s, S)[0] = <<>>
         /\ \A n \in 1..Len(s) :
              Keeping(s, S)[n] = IF s[n] \in S THEN Append(Keeping(s, S)[n - 1], s[n])
                                 ELSE Keeping(s, S)[n - 1]
<1>1. Len(s) \in Nat
  OBVIOUS
<1>2. PICK g : Pass(s, S, g, Len(s))
  BY <1>1, PassExists
<1>3. Keeping(s, S) = CHOOSE h : Pass(s, S, h, Len(s))
  BY DEF Keeping, Pass, PassValue
<1>4. Pass(s, S, Keeping(s, S), Len(s))
  BY <1>2, <1>3
<1> DEFINE k == Keeping(s, S)
<1> HIDE DEF k
<1>5. \A i \in 0..Len(s) : k[i] = PassValue(s, S, k, i)
  BY <1>4 DEF Pass, k
<1>6. k[0] = <<>>
  BY <1>1, <1>5 DEF PassValue
<1>7. \A n \in 1..Len(s) : k[n] = IF s[n] \in S THEN Append(k[n - 1], s[n]) ELSE k[n - 1]
  BY <1>1, <1>5 DEF PassValue
<1> QED  BY <1>6, <1>7 DEF k

\* No entry is there twice.
Distinct(s) == \A i, j \in 1..Len(s) : s[i] = s[j] => i = j

\* One entry more, ...
LEMMA AppendEntries ==
  ASSUME NEW A, NEW s \in Seq(A), NEW x \in A
  PROVE  /\ Append(s, x) \in Seq(A)
         /\ Entries(Append(s, x)) = Entries(s) \cup {x}
         /\ Distinct(s) /\ x \notin Entries(s) => Distinct(Append(s, x))
<1>1. /\ Append(s, x) \in Seq(A) /\ Len(Append(s, x)) = Len(s) + 1 /\ Len(s) \in Nat
      /\ \A i \in 1..Len(s) : Append(s, x)[i] = s[i]
      /\ Append(s, x)[Len(s) + 1] = x
  OBVIOUS
<1>2. 1..(Len(s) + 1) = 1..Len(s) \cup {Len(s) + 1}
  BY <1>1
<1>3. Entries(Append(s, x)) = Entries(s) \cup {x}
  BY <1>1, <1>2 DEF Entries
<1>4. ASSUME Distinct(s), x \notin Entries(s) PROVE Distinct(Append(s, x))
  BY <1>1, <1>2, <1>4 DEF Distinct, Entries
<1> QED  BY <1>1, <1>3, <1>4

\* An entry of a list without repetitions is there once.
LEMMA DistinctOnce ==
  ASSUME NEW s, Distinct(s), NEW x
  PROVE  Cardinality({i \in 1..Len(s) : s[i] = x}) = IF x \in Entries(s) THEN 1 ELSE 0
<1> DEFINE I == {i \in 1..Len(s) : s[i] = x}
<1>1. CASE x \in Entries(s)
  <2>1. PICK i \in 1..Len(s) : s[i] = x
    BY <1>1 DEF Entries
  <2>2. I = {i}
    BY <2>1 DEF Distinct
  <2> HIDE DEF I
  <2>3. Cardinality(I) = 1
    BY <2>2, FS_Singleton, Zenon
  <2> QED  BY <1>1, <2>3 DEF I
<1>2. CASE x \notin Entries(s)
  <2>1. I = {}
    BY <1>2 DEF Entries
  <2> HIDE DEF I
  <2>2. Cardinality(I) = 0
    BY <2>1, FS_EmptySet, Zenon
  <2> QED  BY <1>2, <2>2 DEF I
<1> QED  BY <1>1, <1>2

\* ... one less, ...
LEMMA TailEntries ==
  ASSUME NEW A, NEW s \in Seq(A), s # <<>>
  PROVE  /\ Head(s) \in A /\ Head(s) \in Entries(s) /\ Tail(s) \in Seq(A)
         /\ Entries(s) = Entries(Tail(s)) \cup {Head(s)}
         /\ Distinct(s) => Distinct(Tail(s)) /\ Head(s) \notin Entries(Tail(s))
<1>1. /\ Len(s) \in Nat \ {0} /\ Tail(s) \in Seq(A) /\ Len(Tail(s)) = Len(s) - 1
      /\ \A i \in 1..(Len(s) - 1) : Tail(s)[i] = s[i + 1]
      /\ Head(s) = s[1] /\ s[1] \in A
  OBVIOUS
<1>2. \A i \in 1..Len(s) : i = 1 \/ (i - 1 \in 1..(Len(s) - 1) /\ s[i] = Tail(s)[i - 1])
  BY <1>1
<1>3. Entries(s) = Entries(Tail(s)) \cup {Head(s)}
  <2>1. Entries(Tail(s)) \cup {Head(s)} \subseteq Entries(s)
    BY <1>1 DEF Entries
  <2>2. Entries(s) \subseteq Entries(Tail(s)) \cup {Head(s)}
    BY <1>1, <1>2 DEF Entries
  <2> QED  BY <2>1, <2>2
<1>4. ASSUME Distinct(s) PROVE Distinct(Tail(s)) /\ Head(s) \notin Entries(Tail(s))
  BY <1>1, <1>4 DEF Distinct, Entries
<1> QED  BY <1>1, <1>3, <1>4 DEF Entries

\* ... and two lists in one.
LEMMA ConcatEntries ==
  ASSUME NEW A, NEW s \in Seq(A), NEW t \in Seq(A)
  PROVE  /\ s \o t \in Seq(A)
         /\ Entries(s \o t) = Entries(s) \cup Entries(t)
         /\ Distinct(s) /\ Distinct(t) /\ Entries(s) \cap Entries(t) = {} => Distinct(s \o t)
<1> DEFINE u == s \o t
<1>1. /\ u \in Seq(A) /\ Len(u) = Len(s) + Len(t) /\ Len(s) \in Nat /\ Len(t) \in Nat
      /\ \A i \in 1..Len(s) : u[i] = s[i]
      /\ \A i \in 1..Len(t) : u[i + Len(s)] = t[i]
  OBVIOUS
<1> HIDE DEF u
<1>2. \A i \in 1..Len(u) : \/ i \in 1..Len(s) /\ u[i] = s[i]
                           \/ i - Len(s) \in 1..Len(t) /\ u[i] = t[i - Len(s)]
  <2> SUFFICES ASSUME NEW i \in 1..Len(u), i \notin 1..Len(s)
               PROVE  i - Len(s) \in 1..Len(t) /\ u[i] = t[i - Len(s)]
    BY <1>1
  <2>1. i - Len(s) \in 1..Len(t) /\ (i - Len(s)) + Len(s) = i
    BY <1>1
  <2> QED  BY <1>1, <2>1
<1>3. Entries(u) = Entries(s) \cup Entries(t)
  <2>1. Entries(u) \subseteq Entries(s) \cup Entries(t)
    BY <1>2 DEF Entries
  <2>2. Entries(s) \subseteq Entries(u)
    BY <1>1 DEF Entries
  <2>3. Entries(t) \subseteq Entries(u)
    <3> SUFFICES ASSUME NEW i \in 1..Len(t) PROVE t[i] \in Entries(u)
      BY DEF Entries
    <3>1. i + Len(s) \in 1..Len(u) /\ u[i + Len(s)] = t[i]
      BY <1>1
    <3> QED  BY <3>1 DEF Entries
  <2> QED  BY <2>1, <2>2, <2>3
<1>4. ASSUME Distinct(s), Distinct(t), Entries(s) \cap Entries(t) = {},
             NEW i \in 1..Len(u), NEW j \in 1..Len(u), u[i] = u[j]
      PROVE  i = j
  <2>1. CASE i \in 1..Len(s) /\ u[i] = s[i] /\ j \in 1..Len(s) /\ u[j] = s[j]
    BY <1>4, <2>1 DEF Distinct
  <2>2. CASE /\ i - Len(s) \in 1..Len(t) /\ u[i] = t[i - Len(s)]
             /\ j - Len(s) \in 1..Len(t) /\ u[j] = t[j - Len(s)]
    <3>1. i - Len(s) = j - Len(s)
      BY <1>4, <2>2 DEF Distinct
    <3> QED  BY <1>1, <3>1
  <2>3. CASE i \in 1..Len(s) /\ u[i] = s[i] /\ j - Len(s) \in 1..Len(t) /\ u[j] = t[j - Len(s)]
    BY <1>4, <2>3 DEF Entries
  <2>4. CASE j \in 1..Len(s) /\ u[j] = s[j] /\ i - Len(s) \in 1..Len(t) /\ u[i] = t[i - Len(s)]
    BY <1>4, <2>4 DEF Entries
  <2> QED  BY <1>2, <2>1, <2>2, <2>3, <2>4
<1>5. Distinct(s) /\ Distinct(t) /\ Entries(s) \cap Entries(t) = {} => Distinct(u)
  BY <1>4 DEF Distinct
<1> QED  BY <1>1, <1>3, <1>5 DEF u

\* What a pass has kept so far are the members of S among what it has seen, none
\* of them twice if none of what it has seen is there twice.
LEMMA KeepingEntries ==
  ASSUME NEW A, NEW s \in Seq(A), NEW S, NEW n \in 0..Len(s)
  PROVE  /\ Keeping(s, S)[n] \in Seq(A)
         /\ Entries(Keeping(s, S)[n]) = {s[i] : i \in 1..n} \cap S
         /\ Distinct(s) => Distinct(Keeping(s, S)[n])
<1> DEFINE k == Keeping(s, S)
           P(m) == /\ k[m] \in Seq(A)
                   /\ Entries(k[m]) = {s[i] : i \in 1..m} \cap S
                   /\ Distinct(s) => Distinct(k[m])
           T == {m \in Nat : m <= Len(s) => P(m)}
<1>1. /\ k[0] = <<>>
      /\ \A m \in 1..Len(s) : k[m] = IF s[m] \in S THEN Append(k[m - 1], s[m]) ELSE k[m - 1]
  BY KeepingDef
<1> HIDE DEF k
<1>2. P(0)
  BY <1>1 DEF Entries, Distinct
<1>3. ASSUME NEW m \in Nat, m + 1 <= Len(s), P(m) PROVE P(m + 1)
  <2>1. /\ m + 1 \in 1..Len(s) /\ m + 1 - 1 = m /\ s[m + 1] \in A
        /\ 1..(m + 1) = 1..m \cup {m + 1}
    BY <1>3
  <2>2. {s[i] : i \in 1..(m + 1)} = {s[i] : i \in 1..m} \cup {s[m + 1]}
    BY <2>1
  <2> DEFINE j == m + 1
  <2>3. k[m + 1] = IF s[m + 1] \in S THEN Append(k[m], s[m + 1]) ELSE k[m]
    <3>1. j \in 1..Len(s) /\ j - 1 = m
      BY <2>1
    <3> HIDE DEF j
    <3>2. k[j] = IF s[j] \in S THEN Append(k[j - 1], s[j]) ELSE k[j - 1]
      BY <1>1, <3>1
    <3>3. k[j] = IF s[j] \in S THEN Append(k[m], s[j]) ELSE k[m]
      BY <3>1, <3>2
    <3> QED  BY <3>3 DEF j
  <2>4. CASE s[m + 1] \notin S
    <3>1. k[m + 1] = k[m]
      BY <2>3, <2>4
    <3> QED  BY <1>3, <2>2, <2>4, <3>1
  <2>5. CASE s[m + 1] \in S
    <3>1. k[m + 1] = Append(k[m], s[m + 1])
      BY <2>3, <2>5
    <3>2. Distinct(s) => s[m + 1] \notin {s[i] : i \in 1..m}
      <4> SUFFICES ASSUME Distinct(s), NEW i \in 1..m, s[i] = s[m + 1] PROVE FALSE
        OBVIOUS
      <4>1. i \in 1..Len(s) /\ m + 1 \in 1..Len(s) /\ i # m + 1
        BY <1>3
      <4> QED  BY <4>1 DEF Distinct
    <3>3. /\ Append(k[m], s[m + 1]) \in Seq(A)
          /\ Entries(Append(k[m], s[m + 1])) = Entries(k[m]) \cup {s[m + 1]}
          /\ Distinct(k[m]) /\ s[m + 1] \notin Entries(k[m]) => Distinct(Append(k[m], s[m + 1]))
      BY <1>3, <2>1, AppendEntries
    <3>4. Entries(k[m + 1]) = {s[i] : i \in 1..(m + 1)} \cap S
      BY <1>3, <2>2, <2>5, <3>1, <3>3
    <3>5. Distinct(s) => Distinct(k[m + 1])
      <4>1. Distinct(s) => s[m + 1] \notin Entries(k[m])
        BY <1>3, <3>2
      <4> QED  BY <1>3, <3>1, <3>3, <4>1
    <3>6. k[m + 1] \in Seq(A)
      BY <3>1, <3>3
    <3> QED  BY <3>4, <3>5, <3>6
  <2> QED  BY <2>4, <2>5
<1> HIDE DEF P
<1>4. 0 \in T /\ \A m \in Nat : m \in T => m + 1 \in T
  BY <1>2, <1>3
<1> HIDE DEF T
<1>5. Nat \subseteq T
  BY <1>4, SetInduction
<1>6. P(n)
  BY <1>5 DEF T
<1> QED  BY <1>6 DEF P, k

\* So a filtered list has the entries of the list that are in S, each as often as
\* before where that was once.
LEMMA FilteredEntries ==
  ASSUME NEW A, NEW s \in Seq(A), NEW S
  PROVE  /\ Filtered(s, S) \in Seq(A)
         /\ Entries(Filtered(s, S)) = Entries(s) \cap S
         /\ Distinct(s) => Distinct(Filtered(s, S))
<1>1. Len(s) \in 0..Len(s)
  OBVIOUS
<1> QED  BY <1>1, KeepingEntries DEF Filtered, Entries

\* A pass over a longer list does the same to what the lists have in common.
LEMMA KeepingAgree ==
  ASSUME NEW A, NEW s \in Seq(A), NEW t \in Seq(A), NEW S, NEW U, Len(s) <= Len(t),
         \A i \in 1..Len(s) : s[i] = t[i] /\ (s[i] \in S <=> t[i] \in U),
         NEW n \in 0..Len(s)
  PROVE  Keeping(s, S)[n] = Keeping(t, U)[n]
<1> DEFINE k == Keeping(s, S)
           l == Keeping(t, U)
           T == {m \in Nat : m <= Len(s) => k[m] = l[m]}
<1>1. /\ k[0] = <<>>
      /\ \A m \in 1..Len(s) : k[m] = IF s[m] \in S THEN Append(k[m - 1], s[m]) ELSE k[m - 1]
  BY KeepingDef
<1>2. /\ l[0] = <<>>
      /\ \A m \in 1..Len(t) : l[m] = IF t[m] \in U THEN Append(l[m - 1], t[m]) ELSE l[m - 1]
  BY KeepingDef
<1> HIDE DEF k, l
<1>3. 0 \in T
  BY <1>1, <1>2
<1>4. ASSUME NEW m \in Nat, m \in T, m + 1 <= Len(s) PROVE k[m + 1] = l[m + 1]
  <2>1. m + 1 \in 1..Len(s) /\ m + 1 \in 1..Len(t) /\ m + 1 - 1 = m
    BY <1>4
  <2>2. k[m] = l[m]
    BY <1>4
  <2> QED  BY <1>1, <1>2, <2>1, <2>2
<1>5. \A m \in Nat : m \in T => m + 1 \in T
  BY <1>4
<1> HIDE DEF T
<1>6. Nat \subseteq T
  BY <1>3, <1>5, SetInduction
<1>7. k[n] = l[n]
  BY <1>6 DEF T
<1> QED  BY <1>7 DEF k, l

\* One more entry adds itself or nothing.
LEMMA FilteredAppend ==
  ASSUME NEW A, NEW s \in Seq(A), NEW x \in A, NEW S, NEW U,
         \A i \in 1..Len(s) : s[i] \in S <=> s[i] \in U
  PROVE  Filtered(Append(s, x), U) =
            IF x \in U THEN Append(Filtered(s, S), x) ELSE Filtered(s, S)
<1> DEFINE t == Append(s, x)
<1>1. /\ t \in Seq(A) /\ Len(t) = Len(s) + 1 /\ Len(s) \in Nat /\ t[Len(t)] = x
      /\ \A i \in 1..Len(s) : t[i] = s[i]
  OBVIOUS
<1> HIDE DEF t
<1>2. Keeping(t, U)[Len(t)] = IF t[Len(t)] \in U THEN Append(Keeping(t, U)[Len(t) - 1], t[Len(t)])
                              ELSE Keeping(t, U)[Len(t) - 1]
  <2>1. Len(t) \in 1..Len(t)
    BY <1>1
  <2> QED  BY <1>1, <2>1, KeepingDef
<1>3. Keeping(s, S)[Len(s)] = Keeping(t, U)[Len(s)]
  BY <1>1, KeepingAgree
<1>4. Len(t) - 1 = Len(s)
  BY <1>1
<1> QED  BY <1>1, <1>2, <1>3, <1>4 DEF Filtered, t

\* Nothing is kept of nothing.
LEMMA FilteredEmpty ==
  ASSUME NEW A, NEW s \in Seq(A), s = <<>>, NEW S
  PROVE  Filtered(s, S) = <<>>
<1>1. Keeping(s, S)[0] = <<>>
  BY KeepingDef
<1>2. Len(s) = 0
  OBVIOUS
<1> QED  BY <1>1, <1>2 DEF Filtered
===============================================================================
