------------------------------- MODULE Expansion -------------------------------
(***************************************************************************)
(* The algorithms of the attribute macros that decide what the compiled    *)
(* program does, where a mistake would compile (eventful-rs-macros):       *)
(*  - which shard owns an eventful type: ShardScopes;                      *)
(*  - which signals an #[events] interface has in which build: the macro   *)
(*    sees cfg attributes that only rustc can evaluate, and has to guard   *)
(*    what it generates so that every build is right (attributes.rs,       *)
(*    events.rs).                                                          *)
(* A unit of source is a tree of inline modules or an interface: the two   *)
(* have nothing to do with each other.                                     *)
(***************************************************************************)
EXTENDS ShardScopes, Sublists

CONSTANTS
  MaxMethods,  (* methods of an interface (bound)                           *)
  MaxNesting,  (* how deep cfg_attr attributes are nested (bound)           *)
  Flags,       (* the configuration flags cfg predicates are made of        *)
  Names,       (* the signal names that method names are mapped to          *)
  Rejected,    (* the name of a method no interface may have                *)
  AttrLists    (* the attributes a method or interface may carry            *)

VARIABLES
  interface,   (* input: the attributes and methods of the interface        *)
  seen,        (* methods the macro has gone through                        *)
  guards,      (* guards[i]: the extra cfg guards of method i               *)
  collisions,  (* predicates under which a compile_error! is generated      *)
  failed       (* the macro has returned an error                           *)

signals  == <<interface, seen, guards, collisions, failed>>
vars     == <<affinity, signals>>

-------------------------------------------------------------------------------
(* Conditional compilation.                                                  *)

\* A build is the set of flags it has on, a cfg predicate the set of builds it
\* holds in: the macro puts predicates together and never looks into one.
Builds == SUBSET Flags

Flag(f)   == {on \in Builds : f \in on}
Not(p)    == Builds \ p
AllOf(ps) == {on \in Builds : \A i \in DOMAIN ps : on \in ps[i]}
AnyOf(ps) == {on \in Builds : \E i \in DOMAIN ps : on \in ps[i]}

\* Attributes: #[cfg(p)], #[cfg_attr(p, nested...)], and any other.
Cfg(p)         == [path |-> "cfg", pred |-> p, nested |-> <<>>]
CfgAttr(p, ns) == [path |-> "cfg_attr", pred |-> p, nested |-> ns]
Other          == [path |-> "doc", pred |-> Builds, nested |-> <<>>]
None           == [path |-> "none", pred |-> Builds, nested |-> <<>>]

\* Nested[n]: the attributes with at most n cfg_attr inside each other.
Nested ==
  LET nest[n \in 0..MaxNesting] ==
        IF n = 0 THEN [path : {"cfg", "doc"}, pred : SUBSET Builds, nested : {<<>>}]
        ELSE nest[n - 1] \cup
               [path : {"cfg_attr"}, pred : SUBSET Builds, nested : Seq(nest[n - 1])]
  IN nest

Attributes == Nested[MaxNesting]

ASSUME ExpansionAssumption ==
  /\ MaxMethods \in Nat /\ MaxNesting \in Nat
  /\ Rejected \notin Names
  /\ AttrLists \subseteq Seq(Attributes)

\* rustc: the builds that an item with the attribute is part of.
Active ==
  LET active[a \in Attributes] ==
        IF a.path = "cfg" THEN a.pred
        ELSE IF a.path = "cfg_attr"
          THEN Not(a.pred) \cup AllOf([i \in DOMAIN a.nested |-> active[a.nested[i]]])
        ELSE Builds
  IN active

Kept(attrs, on) == \A i \in DOMAIN attrs : on \in Active[attrs[i]]

\* condition: the part of an attribute that decides whether its item exists.
Condition ==
  LET condition[a \in Attributes] ==
        IF a.path = "cfg" THEN a
        ELSE IF a.path = "cfg_attr"
          THEN LET parts  == [i \in DOMAIN a.nested |-> condition[a.nested[i]]]
                   nested == Filtered(parts, Attributes)
               IN IF nested = <<>> THEN None ELSE CfgAttr(a.pred, nested)
        ELSE None
  IN condition

Conditions(attrs) == Filtered([i \in DOMAIN attrs |-> Condition[attrs[i]]], Attributes)

\* (Mutant of Predicate: the predicate of a cfg_attr is required.)
PredicateRequired ==
  LET predicate[a \in Attributes] ==
        IF a.path = "cfg" THEN a.pred
        ELSE AllOf(<<a.pred, AllOf([i \in DOMAIN a.nested |-> predicate[a.nested[i]]])>>)
  IN predicate

\* predicate: the same condition as one cfg predicate.
Predicate ==
  LET predicate[a \in Attributes] ==
        IF a.path = "cfg" THEN a.pred
        ELSE AnyOf(<<Not(a.pred), AllOf([i \in DOMAIN a.nested |-> predicate[a.nested[i]]])>>)
  IN predicate

Predicates(attrs) ==
  LET conditions == Conditions(attrs)
  IN [i \in DOMAIN conditions |-> Predicate[conditions[i]]]

-------------------------------------------------------------------------------
(* Interfaces.                                                               *)

Methods == interface.methods

\* Methods before i that would generate a signal type of the same name.
Clashes(i) == {j \in 1..(i - 1) : Methods[j].name = Methods[i].name}

\* (Mutant of GuardsOf: only the latest declaration of the name is looked at.)
GuardsOfLatest(i) ==
  IF Clashes(i) = {} THEN <<>>
  ELSE LET j == CHOOSE j \in Clashes(i) : \A k \in Clashes(i) : k <= j
       IN <<Cfg(Not(AllOf(Predicates(Methods[j].attrs))))>>

\* (Mutant of CollisionsOf: the condition of the later method alone.)
CollisionsOfLater(i) == {AllOf(Predicates(Methods[i].attrs)) : j \in Clashes(i)}

\* Not when an earlier method of the same name is enabled too.
GuardsOf(i) ==
  LET earlier == Filtered([j \in 1..(i - 1) |-> j], Clashes(i))
  IN [k \in DOMAIN earlier |-> Cfg(Not(AllOf(Predicates(Methods[earlier[k]].attrs))))]

\* An error when both are.
CollisionsOf(i) ==
  {AllOf(Predicates(Methods[j].attrs) \o Predicates(Methods[i].attrs)) : j \in Clashes(i)}

Unconditional(i) == Predicates(Methods[i].attrs) = <<>>

\* The loop of expand over the methods: refuse what can never be right, defer
\* what depends on the build.
ScanMethod ==
  /\ ~failed /\ seen < Len(Methods)
  /\ LET i == seen + 1 IN
     IF \/ Methods[i].name = Rejected
        \/ Unconditional(i) /\ \E j \in Clashes(i) : Unconditional(j)
     THEN failed' = TRUE /\ UNCHANGED <<seen, guards, collisions>>
     ELSE /\ seen' = i
          /\ guards' = Append(guards, GuardsOf(i))
          /\ collisions' = collisions \cup CollisionsOf(i)
          /\ UNCHANGED failed
  /\ UNCHANGED <<affinity, interface>>

\* What the expansion puts on the items generated for method i.
SignalAttrs(i) == Conditions(Methods[i].attrs) \o guards[i]

Enabled(i) ==
  LET attrs == SignalAttrs(i)
  IN AllOf([k \in DOMAIN attrs |-> Predicate[attrs[k]]])

\* bulk_cfg, on the connections of a whole interface.
BulkPredicate == AnyOf([i \in DOMAIN Methods |-> Enabled(i)])

-------------------------------------------------------------------------------
Interfaces ==
  [attrs : AttrLists,
   methods : UNION {[1..n -> [name : Names \cup {Rejected}, attrs : AttrLists]] :
                      n \in 0..MaxMethods}]

NoTree == [parent |-> [m \in Mods |-> 0], scoped |-> [m \in Mods |-> FALSE],
           file |-> [m \in Mods |-> TRUE], explicit |-> [m \in Mods |-> FALSE]]
NoInterface == [attrs |-> <<>>, methods |-> <<>>]

Init ==
  /\ \/ tree \in Trees /\ interface = NoInterface
     \/ tree = NoTree /\ interface \in Interfaces
  /\ Unexpanded
  /\ seen = 0 /\ guards = <<>> /\ collisions = {} /\ failed = FALSE

Next ==
  \/ ScopesNext /\ UNCHANGED signals
  \/ ScanMethod

Spec == Init /\ [][Next]_vars

-------------------------------------------------------------------------------
(* Properties.                                                               *)

Expanded == ~failed /\ seen = Len(Methods)

\* Build by build: what the source declares, and what the expansion contains.
Declared(i, on) == Kept(interface.attrs, on) /\ Kept(Methods[i].attrs, on)
Generated(i, on) ==
  Kept(Conditions(interface.attrs), on) /\ Kept(SignalAttrs(i), on)
Reported(on) ==
  Kept(Conditions(interface.attrs), on) /\ \E p \in collisions : on \in p

Clashing(i, j) == i # j /\ Methods[i].name = Methods[j].name

\* In every build exactly the first declared method of a name has its signal:
\* no declared signal is lost, none is generated twice or undeclared.
FirstDeclarationWins ==
  Expanded => \A on \in Builds : \A i \in DOMAIN Methods :
     Generated(i, on) <=>
       Declared(i, on) /\ ~\E j \in Clashes(i) : Declared(j, on)

\* Two methods with the same signal name are an error in exactly the builds
\* that have both; mutually exclusive ones are not, and only what no build can
\* tell apart is refused outright.
ClashReported ==
  /\ Expanded => \A on \in Builds :
       Reported(on) <=>
         \E i, j \in DOMAIN Methods : Clashing(i, j) /\ Declared(i, on) /\ Declared(j, on)
  /\ failed /\ (\A i \in DOMAIN Methods : Methods[i].name # Rejected) =>
       \E i, j \in DOMAIN Methods :
          /\ Clashing(i, j)
          /\ \A on \in Builds :
               Kept(interface.attrs, on) => Declared(i, on) /\ Declared(j, on)

\* Connecting a whole interface exists in exactly the builds with a signal.
BulkIffSignals ==
  Expanded => \A on \in Builds :
     Kept(Conditions(interface.attrs), on) =>
       (on \in BulkPredicate <=> \E i \in DOMAIN Methods : Generated(i, on))
===============================================================================
