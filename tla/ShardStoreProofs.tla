--------------------------- MODULE ShardStoreProofs ---------------------------
(***************************************************************************)
(* The safety of ShardStore for any number of threads, tokens, values and  *)
(* commands: an inductive invariant, that every action keeps it, and the   *)
(* checked properties it implies.                                          *)
(*                                                                         *)
(* Nearly every action does one of four things to the tokens: nothing,     *)
(* acquire one, move one, drop one.  What each of these does is proved     *)
(* once, first for the tokens' own part of the invariant (IdsOK), then as  *)
(* a pointwise description (Acquired, Moved, Released, OwnerDropped) that  *)
(* the steps of the actions use.                                           *)
(*                                                                         *)
(* The last sections show that every step is one that ValueLifetime        *)
(* promises, or changes nothing of what it is about, and what is left when *)
(* the store has come to its end.                                          *)
(***************************************************************************)
EXTENDS ShardStore, FiniteSetTheorems, SequenceTheorems, TLAPS

(***************************************************************************)
(* The part of the invariant that is about tokens alone: types, the count, *)
(* and that a token that exists has a key and a place.                     *)
(***************************************************************************)
TokenTypes ==
  /\ tokens \in [Keys -> Nat]
  /\ key \in [RcIds -> Keys \cup {NoKey}]
  /\ holder \in [RcIds -> Places \cup {Nobody}]

HeldIsKeyed == \A i \in RcIds : holder[i] = Nobody <=> key[i] = NoKey

IdsOK == TokenTypes /\ TokensCounted /\ HeldIsKeyed

\* NoKey is no key, and Nobody is no place.
LEMMA Distinct ==
  /\ NoKey \notin Keys
  /\ Nobody \notin Places
  /\ Places \cap {Nobody} = {}
BY StoreAssumption DEF NoKey, Keys, Places

\* The tokens of one key are finitely many.
LEMMA LiveFinite == \A k : IsFiniteSet(Live(k))
<1> TAKE k
<1> QED  BY StoreAssumption, FS_Subset, Live(k) \in SUBSET RcIds DEF Live

\* Acquiring a token keeps the count right.
LEMMA AcquireOK ==
  ASSUME IdsOK, NEW i \in RcIds, NEW k \in Keys, NEW p \in Places, Acquire(i, k, p)
  PROVE  IdsOK'
<1>1. TokenTypes'
  BY Distinct DEF IdsOK, TokenTypes, Acquire
<1>2. HeldIsKeyed'
  BY Distinct DEF IdsOK, TokenTypes, HeldIsKeyed, Acquire
<1>3. ASSUME NEW j \in Keys PROVE tokens'[j] = Cardinality(Live(j)')
  <2>1. CASE j = k
    <3>1. Live(k)' = Live(k) \cup {i} /\ i \notin Live(k)
      BY Distinct DEF IdsOK, TokenTypes, Acquire, Live
    <3>2. Cardinality(Live(k)') = Cardinality(Live(k)) + 1
      BY <3>1, LiveFinite, FS_AddElement
    <3> QED  BY <2>1, <3>2 DEF IdsOK, TokenTypes, TokensCounted, Acquire
  <2>2. CASE j # k
    <3>1. Live(j)' = Live(j)
      BY <2>2, Distinct DEF IdsOK, TokenTypes, Acquire, Live
    <3> QED  BY <2>2, <3>1 DEF IdsOK, TokenTypes, TokensCounted, Acquire
  <2> QED  BY <2>1, <2>2
<1>4. TokensCounted'
  BY <1>3 DEF TokensCounted
<1> QED  BY <1>1, <1>2, <1>4 DEF IdsOK

\* So does dropping one, ...
LEMMA ReleaseOK ==
  ASSUME IdsOK, NEW i \in RcIds, NEW k \in Keys, key[i] = k, Release(i)
  PROVE  IdsOK' /\ tokens[k] > 0
<1>1. i \in Live(k)
  BY DEF Live
<1>2. tokens[k] > 0
  BY <1>1, LiveFinite, FS_EmptySet, FS_CardinalityType DEF IdsOK, TokensCounted
<1>3. TokenTypes'
  BY <1>2, Distinct DEF IdsOK, TokenTypes, Release
<1>4. HeldIsKeyed'
  BY Distinct DEF IdsOK, TokenTypes, HeldIsKeyed, Release
<1>5. ASSUME NEW j \in Keys PROVE tokens'[j] = Cardinality(Live(j)')
  <2>1. CASE j = k
    <3>1. Live(k)' = Live(k) \ {i}
      BY Distinct DEF IdsOK, TokenTypes, Release, Live
    <3>2. Cardinality(Live(k)') = Cardinality(Live(k)) - 1
      BY <1>1, <3>1, LiveFinite, FS_RemoveElement
    <3> QED  BY <2>1, <3>2 DEF IdsOK, TokenTypes, TokensCounted, Release
  <2>2. CASE j # k
    <3>1. Live(j)' = Live(j)
      BY <2>2, Distinct DEF IdsOK, TokenTypes, Release, Live
    <3> QED  BY <2>2, <3>1 DEF IdsOK, TokenTypes, TokensCounted, Release
  <2> QED  BY <2>1, <2>2
<1>6. TokensCounted'
  BY <1>5 DEF TokensCounted
<1> QED  BY <1>2, <1>3, <1>4, <1>6 DEF IdsOK

\* ... and handing one on.
LEMMA MoveOK ==
  ASSUME IdsOK, NEW i \in RcIds, holder[i] # Nobody, NEW p \in Places, Move(i, p)
  PROVE  IdsOK'
BY Distinct DEF IdsOK, TokenTypes, TokensCounted, HeldIsKeyed, Move, Live

\* Leaving the tokens alone keeps their part too.
LEMMA KeepIds == IdsOK /\ UNCHANGED ids => IdsOK'
BY DEF IdsOK, TokenTypes, TokensCounted, HeldIsKeyed, Live, ids

-------------------------------------------------------------------------------
(***************************************************************************)
(* The inductive invariant.  Beside the checked properties it says which   *)
(* tokens the detached list holds, that a thread inside a drop has a key,  *)
(* in which phases a pass, a wait or a call in flight is possible, and     *)
(* that the driver, once its waker is registered, is reached by a wake.    *)
(***************************************************************************)
OtherTypes ==
  /\ last_id \in 0..MaxKeys
  /\ values \subseteq 1..last_id
  /\ borrowed \in [Keys -> Nat] /\ weakq \in [Keys -> Nat] /\ sent \in Nat
  /\ candidates \subseteq Keys /\ orphans \subseteq Keys
  /\ batch \subseteq Keys /\ retired \subseteq Keys /\ leaked \subseteq Keys
  /\ detached \in Seq(RcIds) /\ popped \in Keys \cup {NoKey}
  /\ closed \in BOOLEAN /\ open \in BOOLEAN /\ crashed \in BOOLEAN /\ killed \in BOOLEAN
  /\ waker \in BOOLEAN /\ notified \in BOOLEAN
  /\ stage \in Stages /\ pc \in Points
  /\ step \in [Threads -> {"idle", "released", "open", "pushed"}]
  /\ rel \in [Threads -> Keys \cup {NoKey}]

FlagTypes ==
  /\ closed \in BOOLEAN /\ open \in BOOLEAN /\ crashed \in BOOLEAN /\ killed \in BOOLEAN
  /\ waker \in BOOLEAN /\ notified \in BOOLEAN

DetachedHeld ==
  /\ \A n \in 1..Len(detached) : holder[detached[n]] = Detached
  /\ \A m, n \in 1..Len(detached) : detached[m] = detached[n] => m = n

DroppingHasKey == \A t \in Threads : step[t] # "idle" => rel[t] \in Keys

Phases ==
  /\ pc # "check" => batch = {}
  /\ pc \in {"armed", "idle", "parked"} => stage = "run"
  /\ closed => stage \in {"drop", "down"}
  /\ stage = "drop" /\ pc # "turn" => closed
  /\ stage \in {"release", "final", "drop", "down"} => \A k \in Keys : borrowed[k] = 0

Reachable ==
  /\ pc \in {"armed", "idle", "parked"} => waker \/ notified
  /\ pc \in {"idle", "parked"} /\ candidates # {} =>
       notified \/ \E t \in Threads : step[t] = "pushed"

Base == IdsOK /\ OtherTypes /\ DetachedHeld /\ DroppingHasKey

Inv ==
  /\ Base
  /\ Phases
  /\ Reachable
  /\ InUseIsStored
  /\ NoneForgotten
  /\ OrphansInUse

-------------------------------------------------------------------------------
(* What the helpers do to the invariant's parts.                             *)

\* Which places there are, and that only the list holds detached tokens.
LEMMA PlacesApart ==
  /\ Threads \subseteq Places /\ Keys \subseteq Places
  /\ {Local, Queued, Flight, Detaching, Detached} \subseteq Places
  /\ Detached \notin Threads \cup Keys \cup {Local, Queued, Flight, Detaching}
BY StoreAssumption DEF Places

\* Stored values have keys.
LEMMA ValuesAreKeys == OtherTypes => values \subseteq Keys /\ 1..last_id \subseteq Keys
BY StoreAssumption DEF OtherTypes, Keys

\* A token in some place has a key.
LEMMA PlacedHasKey ==
  ASSUME IdsOK, NEW i \in RcIds, holder[i] \in Places
  PROVE  key[i] \in Keys
BY Distinct DEF IdsOK, TokenTypes, HeldIsKeyed

\* A token with a key is counted.
LEMMA CountedHasTokens ==
  ASSUME IdsOK, NEW i \in RcIds, NEW k \in Keys, key[i] = k
  PROVE  tokens[k] > 0
<1>1. i \in Live(k)
  BY DEF Live
<1> QED  BY <1>1, LiveFinite, FS_EmptySet, FS_CardinalityType DEF IdsOK, TokensCounted

\* What acquiring, moving and dropping a token does, pointwise.
Acquired(i, k, p) ==
  /\ IdsOK'
  /\ \A j \in RcIds : key'[j] = IF j = i THEN k ELSE key[j]
  /\ \A j \in RcIds : holder'[j] = IF j = i THEN p ELSE holder[j]
  /\ holder[i] = Nobody
  /\ \A j \in Keys : tokens'[j] = IF j = k THEN tokens[j] + 1 ELSE tokens[j]
  /\ \A j \in Keys : tokens[j] \in Nat

Moved(i, p) ==
  /\ IdsOK'
  /\ UNCHANGED <<key, tokens>>
  /\ \A j \in RcIds : holder'[j] = IF j = i THEN p ELSE holder[j]

Released(i) ==
  /\ IdsOK' /\ key[i] \in Keys
  /\ \A j \in RcIds : key'[j] = IF j = i THEN NoKey ELSE key[j]
  /\ \A j \in RcIds : holder'[j] = IF j = i THEN Nobody ELSE holder[j]
  /\ \A k \in Keys : tokens'[k] = IF k = key[i] THEN tokens[k] - 1 ELSE tokens[k]
  /\ \A k \in Keys : tokens[k] \in Nat

\* A drop on the owner's thread queues the key of an unused value and wakes
\* the driver.
OwnerDropped(i) ==
  /\ IdsOK' /\ key[i] \in Keys
  /\ \A j \in RcIds : key'[j] = IF j = i THEN NoKey ELSE key[j]
  /\ \A j \in RcIds : holder'[j] = IF j = i THEN Nobody ELSE holder[j]
  /\ \A k \in Keys : tokens[k] \in Nat /\ tokens'[k] \in Nat /\ tokens'[k] <= tokens[k]
  /\ \A k \in Keys : tokens'[k] = 0 => tokens[k] = 0 \/ closed \/ k \in candidates'
  /\ candidates \subseteq candidates' /\ candidates' \subseteq Keys
  /\ waker' \in BOOLEAN /\ notified' \in BOOLEAN
  /\ waker \/ notified => waker' \/ notified'
  /\ notified => notified'
  /\ candidates' # candidates => (waker \/ notified => notified')

\* Acquire keeps IdsOK and does what Acquired says.
LEMMA AcquireEffect ==
  ASSUME IdsOK, NEW i \in RcIds, NEW k \in Keys, NEW p \in Places, Acquire(i, k, p)
  PROVE  Acquired(i, k, p)
<1>1. IdsOK'
  BY AcquireOK
<1> QED  BY <1>1 DEF IdsOK, TokenTypes, HeldIsKeyed, Acquire, Acquired

\* Move keeps IdsOK and does what Moved says.
LEMMA MoveEffect ==
  ASSUME IdsOK, NEW i \in RcIds, holder[i] \in Places, NEW p \in Places, Move(i, p)
  PROVE  Moved(i, p)
<1>1. IdsOK'
  BY MoveOK, Distinct
<1> QED  BY <1>1 DEF IdsOK, TokenTypes, Move, Moved

\* Release keeps IdsOK and does what Released says.
LEMMA ReleaseEffect ==
  ASSUME IdsOK, NEW i \in RcIds, holder[i] \in Places, Release(i)
  PROVE  Released(i)
<1>1. key[i] \in Keys
  BY PlacedHasKey
<1>2. IdsOK'
  BY <1>1, ReleaseOK
<1> QED  BY <1>1, <1>2 DEF IdsOK, TokenTypes, Release, Released

\* OwnerDrop keeps IdsOK and does what OwnerDropped says.
LEMMA OwnerDropEffect ==
  ASSUME IdsOK, OtherTypes, NEW i \in RcIds, holder[i] \in Places, OwnerDrop(i)
  PROVE  OwnerDropped(i)
<1>1. Released(i)
  BY ReleaseEffect DEF OwnerDrop
<1>2. \A k \in Keys : tokens[k] \in Nat /\ tokens'[k] \in Nat /\ tokens'[k] <= tokens[k]
  BY <1>1 DEF IdsOK, TokenTypes, Released
<1>3. CASE tokens[key[i]] = 1 /\ ~closed
  <2>1. candidates' = candidates \cup {key[i]} /\ waker' = FALSE /\ notified' = (notified \/ waker)
    BY <1>3 DEF OwnerDrop, Wake
  <2>2. \A k \in Keys : tokens'[k] = 0 => tokens[k] = 0 \/ k \in candidates'
    BY <1>1, <2>1 DEF Released
  <2>3. /\ waker' \in BOOLEAN /\ notified' \in BOOLEAN
        /\ waker \/ notified => waker' \/ notified'
        /\ notified => notified'
        /\ candidates' # candidates => (waker \/ notified => notified')
    BY <2>1
  <2>4. candidates \subseteq candidates' /\ candidates' \subseteq Keys
    BY <1>1, <2>1 DEF OtherTypes, Released
  <2> QED  BY <1>1, <1>2, <2>2, <2>3, <2>4 DEF Released, OwnerDropped
<1>4. CASE ~(tokens[key[i]] = 1 /\ ~closed)
  <2>1. UNCHANGED <<candidates, waker, notified>>
    BY <1>4 DEF OwnerDrop, signal
  <2>2. \A k \in Keys : tokens'[k] = 0 => tokens[k] = 0 \/ closed
    BY <1>1, <1>4 DEF Released
  <2> QED  BY <1>1, <1>2, <2>1, <2>2 DEF OtherTypes, Released, OwnerDropped
<1> QED  BY <1>3, <1>4

\* The detached list keeps to its tokens while only others change hands, ...
LEMMA KeepDetached ==
  ASSUME OtherTypes, DetachedHeld, UNCHANGED detached,
         \A j \in RcIds : holder[j] = Detached => holder'[j] = Detached
  PROVE  DetachedHeld'
<1>1. \A n \in 1..Len(detached) : detached[n] \in RcIds
  BY DEF OtherTypes
<1>2. \A n \in 1..Len(detached') : holder'[detached'[n]] = Detached
  BY <1>1 DEF DetachedHeld
<1>3. \A m, n \in 1..Len(detached') : detached'[m] = detached'[n] => m = n
  BY DEF DetachedHeld
<1> QED  BY <1>2, <1>3 DEF DetachedHeld

\* ... when one more is pushed, ...
LEMMA PushDetached ==
  ASSUME OtherTypes, DetachedHeld, NEW i \in RcIds, holder[i] # Detached,
         detached' = Append(detached, i),
         \A j \in RcIds : holder'[j] = IF j = i THEN Detached ELSE holder[j]
  PROVE  DetachedHeld' /\ detached' \in Seq(RcIds)
<1>1. /\ detached' \in Seq(RcIds) /\ Len(detached') = Len(detached) + 1
      /\ detached'[Len(detached) + 1] = i
      /\ \A n \in 1..Len(detached) : detached'[n] = detached[n] /\ detached[n] \in RcIds
  BY DEF OtherTypes
<1>2. \A n \in 1..Len(detached) : detached[n] # i
  BY DEF DetachedHeld
<1>3. \A n \in 1..Len(detached') :
         n \in 1..Len(detached) \/ n = Len(detached) + 1
  BY <1>1 DEF OtherTypes
<1>4. \A n \in 1..Len(detached') : holder'[detached'[n]] = Detached
  BY <1>1, <1>2, <1>3 DEF DetachedHeld
<1>5. \A m, n \in 1..Len(detached') : detached'[m] = detached'[n] => m = n
  BY <1>1, <1>2, <1>3 DEF DetachedHeld
<1> QED  BY <1>1, <1>4, <1>5 DEF DetachedHeld

\* What popping the last element leaves.
LEMMA FrontOf ==
  ASSUME NEW S, NEW s \in Seq(S), Len(s) > 0
  PROVE  /\ SubSeq(s, 1, Len(s) - 1) \in Seq(S)
         /\ Len(SubSeq(s, 1, Len(s) - 1)) = Len(s) - 1
         /\ \A n \in 1..(Len(s) - 1) : SubSeq(s, 1, Len(s) - 1)[n] = s[n]
<1> DEFINE m == Len(s) - 1
<1>1. Len(s) \in Nat /\ m \in Nat
  OBVIOUS
<1>2. \A n \in 1..m : s[n] \in S
  BY <1>1, ElementOfSeq
<1>3. /\ SubSeq(s, 1, m) \in Seq(S)
      /\ Len(SubSeq(s, 1, m)) = IF 1 <= m THEN m - 1 + 1 ELSE 0
      /\ \A n \in 1..(m - 1 + 1) : SubSeq(s, 1, m)[n] = s[1 + n - 1]
  <2> HIDE DEF m
  <2> QED  BY <1>1, <1>2, SubSeqProperties
<1>4. Len(SubSeq(s, 1, m)) = m /\ m - 1 + 1 = m
  <2> HIDE DEF m
  <2>1. m - 1 + 1 = m /\ (1 <= m \/ m = 0)
    BY <1>1
  <2> QED  BY <1>3, <2>1
<1> QED  BY <1>1, <1>3, <1>4

\* ... and when the newest is popped and dropped.
LEMMA PopDetachedHeld ==
  ASSUME OtherTypes, DetachedHeld, detached # <<>>, NEW i \in RcIds, i = Newest,
         detached' = Older,
         \A j \in RcIds : j # i => holder'[j] = holder[j]
  PROVE  DetachedHeld' /\ detached' \in Seq(RcIds)
<1>1. Len(detached) \in Nat /\ Len(detached) > 0
  BY DEF OtherTypes
<1>3. /\ detached' \in Seq(RcIds) /\ Len(detached') = Len(detached) - 1
      /\ \A n \in 1..Len(detached') : detached'[n] = detached[n]
  BY <1>1, FrontOf DEF OtherTypes, Older
<1>4. \A n \in 1..Len(detached') : n \in 1..Len(detached) /\ n # Len(detached)
  BY <1>1, <1>3
<1>5. \A n \in 1..Len(detached) : detached[n] \in RcIds
  BY DEF OtherTypes
<1>6. Len(detached) \in 1..Len(detached)
  BY <1>1
<1>7. \A n \in 1..Len(detached') : detached[n] # i
  BY <1>4, <1>6 DEF DetachedHeld, Newest
<1>8. \A n \in 1..Len(detached') : holder'[detached'[n]] = Detached
  BY <1>3, <1>4, <1>5, <1>7 DEF DetachedHeld
<1>9. ASSUME NEW m \in 1..Len(detached'), NEW n \in 1..Len(detached'),
             detached'[m] = detached'[n]
      PROVE  m = n
  <2>1. detached[m] = detached[n] /\ m \in 1..Len(detached) /\ n \in 1..Len(detached)
    BY <1>3, <1>4, <1>9
  <2> QED  BY <2>1 DEF DetachedHeld
<1> QED  BY <1>3, <1>8, <1>9 DEF DetachedHeld

\* The newest detached token has a key.
LEMMA NewestHeld ==
  ASSUME OtherTypes, DetachedHeld, detached # <<>>
  PROVE  Newest \in RcIds /\ holder[Newest] = Detached
<1>1. Len(detached) \in 1..Len(detached)
  BY DEF OtherTypes
<1> QED  BY <1>1 DEF OtherTypes, DetachedHeld, Newest

\* So has the oldest, ...
LEMMA OldestHeld ==
  ASSUME OtherTypes, DetachedHeld, detached # <<>>
  PROVE  Head(detached) \in RcIds /\ holder[Head(detached)] = Detached
<1>1. 1 \in 1..Len(detached) /\ Head(detached) = detached[1]
  BY DEF OtherTypes
<1> QED  BY <1>1 DEF OtherTypes, DetachedHeld

\* ... and the list keeps to its tokens when that one is dropped.
LEMMA TailDetachedHeld ==
  ASSUME OtherTypes, DetachedHeld, detached # <<>>, NEW i \in RcIds, i = Head(detached),
         detached' = Tail(detached),
         \A j \in RcIds : j # i => holder'[j] = holder[j]
  PROVE  DetachedHeld' /\ detached' \in Seq(RcIds)
<1>1. /\ detached' \in Seq(RcIds) /\ Len(detached') = Len(detached) - 1
      /\ \A n \in 1..Len(detached') : detached'[n] = detached[n + 1]
      /\ Len(detached) \in Nat /\ i = detached[1]
  BY DEF OtherTypes
<1>2. \A n \in 1..Len(detached') : n + 1 \in 1..Len(detached) /\ n + 1 # 1 /\ n \in Nat
  BY <1>1
<1>3. \A n \in 1..Len(detached) : detached[n] \in RcIds
  BY DEF OtherTypes
<1>4. \A n \in 1..Len(detached') : detached[n + 1] # i
  <2>1. 1 \in 1..Len(detached)
    BY <1>1 DEF OtherTypes
  <2> QED  BY <1>1, <1>2, <2>1 DEF DetachedHeld
<1>5. \A n \in 1..Len(detached') : holder'[detached'[n]] = Detached
  BY <1>1, <1>2, <1>3, <1>4 DEF DetachedHeld
<1>6. ASSUME NEW m \in 1..Len(detached'), NEW n \in 1..Len(detached'),
             detached'[m] = detached'[n]
      PROVE  m = n
  <2>1. m + 1 = n + 1
    BY <1>1, <1>2, <1>6 DEF DetachedHeld
  <2> QED  BY <1>2, <2>1
<1> QED  BY <1>1, <1>5, <1>6 DEF DetachedHeld

\* A step of another thread, or of whoever ends the shard, keeps the invariant.
LEMMA RemoteKeepsInv ==
  ASSUME Inv, (\E t \in Threads : Remote(t)) \/ RequestShutdown \/ Quit
  PROVE  Inv'
<1> USE DEF life, ids, calls, signal, garbage, stack, flags, remote
<1>1. ASSUME NEW t \in Threads, NEW i \in RcIds, NEW new \in RcIds, RemoteClone(t, i, new) PROVE Inv'
  <2>1. PICK n \in Keys : n = key[i] /\ Acquired(new, n, t)
    <3>1. PICK n \in Keys : n = key[i] /\ Acquire(new, n, t)
      BY <1>1, PlacesApart, PlacedHasKey DEF Inv, Base, Acquire, RemoteClone, Idle
    <3> QED  BY <3>1, PlacesApart, AcquireEffect DEF Inv, Base
  <2>2. OtherTypes' /\ DetachedHeld' /\ DroppingHasKey'
    <3>1. DetachedHeld'
      BY <1>1, <2>1, PlacesApart, KeepDetached, Distinct DEF Inv, Base, RemoteClone,
         Idle, Acquired
    <3>2. DroppingHasKey'
      BY <1>1, <2>1 DEF Inv, Base, OtherTypes, DroppingHasKey, RemoteClone, Idle,
         Acquired
    <3>4. OtherTypes'
      BY <1>1, <2>1, <3>1, ValuesAreKeys DEF Inv, Base, OtherTypes, RemoteClone, Idle,
         Acquired, Points
    <3> QED  BY <3>1, <3>2, <3>4
  <2>3. Phases' /\ Reachable'
    BY <1>1, <2>1 DEF Inv, Base, OtherTypes, Phases, Reachable, RemoteClone, Idle,
       Acquired
  <2>4. InUseIsStored'
    BY <1>1, <2>1 DEF Inv, Base, OtherTypes, Phases, InUseIsStored, RemoteClone, Idle,
       Acquired
  <2>5. NoneForgotten' /\ OrphansInUse'
    <3>1. /\ \A j \in Keys : tokens'[j] = 0 => tokens[j] = 0 /\ j # n
          /\ \A j \in Keys : tokens[j] > 0 => tokens'[j] > 0
          /\ tokens'[n] > 0
      BY <2>1 DEF Acquired
    <3>2. \A j \in Keys : Remembered(j) => Remembered(j)'
      BY <1>1 DEF Remembered, Releasing, RemoteClone
    <3>3. NoneForgotten'
      BY <1>1, <2>1, <3>1, <3>2, ValuesAreKeys DEF Inv, Base, NoneForgotten, RemoteClone
    <3>4. OrphansInUse'
      BY <1>1, <2>1, <3>1, <3>2, ValuesAreKeys DEF Inv, Base, OrphansInUse, RemoteClone
    <3> QED  BY <3>3, <3>4
  <2> QED  BY <2>1, <2>2, <2>3, <2>4, <2>5 DEF Inv, Base, Acquired
<1>2. ASSUME NEW t \in Threads, NEW i \in RcIds, RemoteDrop(t, i) PROVE Inv'
  <2>1. Released(i)
    BY <1>2, PlacesApart, ReleaseEffect DEF Inv, Base, RemoteDrop, Idle
  <2>2. OtherTypes' /\ DetachedHeld' /\ DroppingHasKey'
    <3>1. DetachedHeld'
      BY <1>2, <2>1, PlacesApart, KeepDetached, Distinct DEF Inv, Base, RemoteDrop,
         Idle, Released
    <3>2. DroppingHasKey'
      BY <1>2, <2>1 DEF Inv, Base, OtherTypes, DroppingHasKey, RemoteDrop, Idle,
         Released
    <3>3. step' \in [Threads -> {"idle", "released", "open", "pushed"}] /\ rel' \in [Threads -> Keys \cup {NoKey}]
      BY <1>2, <2>1 DEF Inv, Base, OtherTypes, RemoteDrop, Idle, Released
    <3>4. OtherTypes'
      BY <1>2, <2>1, <3>1, <3>3, ValuesAreKeys DEF Inv, Base, OtherTypes, RemoteDrop,
         Idle, Released, Points
    <3> QED  BY <3>1, <3>2, <3>4
  <2>3. Phases' /\ Reachable'
    BY <1>2, <2>1 DEF Inv, Base, OtherTypes, Phases, Reachable, RemoteDrop, Idle,
       Released
  <2>4. InUseIsStored'
    BY <1>2, <2>1 DEF Inv, Base, OtherTypes, Phases, InUseIsStored, RemoteDrop, Idle,
       Released
  <2>5. NoneForgotten' /\ OrphansInUse'
    <3>1. \A j \in Keys : Remembered(j) => Remembered(j)'
      BY <1>2 DEF Inv, Base, OtherTypes, Remembered, Releasing, RemoteDrop, Idle
    <3>2. PICK n \in Keys : n = key[i]
      BY <2>1 DEF Released
    <3>3. /\ \A j \in Keys : j # n => tokens'[j] = tokens[j]
          /\ tokens'[n] = tokens[n] - 1 /\ tokens[n] \in Nat
      BY <2>1, <3>2 DEF Released
    <3>4. tokens[n] = 1 => Remembered(n)'
      <4>1. CASE tokens[n] = 1
        <5>1. step'[t] = "released" /\ rel'[t] = n
          BY <1>2, <3>2, <4>1 DEF Inv, Base, OtherTypes, RemoteDrop
        <5> QED  BY <5>1 DEF Remembered, Releasing
      <4> QED  BY <4>1
    <3>5. NoneForgotten'
      BY <1>2, <3>1, <3>3, <3>4, ValuesAreKeys DEF Inv, Base, NoneForgotten, RemoteDrop
    <3>6. OrphansInUse'
      BY <1>2, <3>1, <3>3, <3>4, ValuesAreKeys DEF Inv, Base, OrphansInUse, RemoteDrop
    <3> QED  BY <3>5, <3>6
  <2> QED  BY <2>1, <2>2, <2>3, <2>4, <2>5 DEF Inv, Base, Released
<1>3. ASSUME NEW t \in Threads, NotifyCheck(t) PROVE Inv'
  <2>1. IdsOK' /\ UNCHANGED ids
    BY <1>3, KeepIds DEF Inv, Base, NotifyCheck
  <2>2. OtherTypes' /\ DetachedHeld' /\ DroppingHasKey'
    <3>1. DetachedHeld'
      BY <1>3, <2>1, PlacesApart, KeepDetached, Distinct DEF Inv, Base, NotifyCheck
    <3>2. DroppingHasKey'
      BY <1>3, <2>1 DEF Inv, Base, OtherTypes, DroppingHasKey, NotifyCheck
    <3>3. step' \in [Threads -> {"idle", "released", "open", "pushed"}] /\ rel' \in [Threads -> Keys \cup {NoKey}]
      BY <1>3, <2>1 DEF Inv, Base, OtherTypes, NotifyCheck
    <3>4. OtherTypes'
      BY <1>3, <2>1, <3>1, <3>3, ValuesAreKeys DEF Inv, Base, OtherTypes, NotifyCheck,
         Points
    <3> QED  BY <3>1, <3>2, <3>4
  <2>3. Phases' /\ Reachable'
    BY <1>3, <2>1 DEF Inv, Base, OtherTypes, Phases, Reachable, NotifyCheck
  <2>4. InUseIsStored'
    BY <1>3, <2>1 DEF Inv, Base, OtherTypes, Phases, InUseIsStored, NotifyCheck
  <2>5. NoneForgotten'
    <3>1. CASE closed
      BY <1>3, <3>1 DEF NoneForgotten, NotifyCheck
    <3>2. CASE ~closed
      <4>1. \A j \in Keys : Remembered(j) => Remembered(j)'
        BY <1>3, <3>2 DEF Inv, Base, OtherTypes, Remembered, Releasing, NotifyCheck
      <4> QED  BY <1>3, <2>1, <4>1, ValuesAreKeys DEF Inv, Base, NoneForgotten, NotifyCheck
    <3> QED  BY <3>1, <3>2
  <2>6. OrphansInUse'
    <3>1. CASE closed
      BY <1>3, <3>1 DEF Inv, Phases, OrphansInUse, NotifyCheck
    <3>2. CASE ~closed
      <4>1. \A j \in Keys : Remembered(j) => Remembered(j)'
        BY <1>3, <3>2 DEF Inv, Base, OtherTypes, Remembered, Releasing, NotifyCheck
      <4> QED  BY <1>3, <2>1, <4>1, ValuesAreKeys DEF Inv, Base, OrphansInUse, NotifyCheck
    <3> QED  BY <3>1, <3>2
  <2> QED  BY <2>1, <2>2, <2>3, <2>4, <2>5, <2>6 DEF Inv, Base
<1>4. ASSUME NEW t \in Threads, NotifyPush(t) PROVE Inv'
  <2>1. IdsOK' /\ UNCHANGED ids
    BY <1>4, KeepIds DEF Inv, Base, NotifyPush
  <2>2. OtherTypes' /\ DetachedHeld' /\ DroppingHasKey'
    <3>1. DetachedHeld'
      BY <1>4, <2>1, KeepDetached DEF Inv, Base, NotifyPush
    <3>2. DroppingHasKey'
      BY <1>4, <2>1 DEF Inv, Base, OtherTypes, DroppingHasKey, NotifyPush
    <3>3. FlagTypes'
      BY <1>4, <2>1 DEF Inv, Base, OtherTypes, FlagTypes, NotifyPush
    <3>4. OtherTypes'
      BY <1>4, <2>1, <3>3 DEF Inv, Base, OtherTypes, FlagTypes, DroppingHasKey,
         NotifyPush, Stages, Points
    <3> QED  BY <3>1, <3>2, <3>4
  <2>3. Phases' /\ Reachable'
    BY <1>4, <2>1 DEF Inv, Base, OtherTypes, Phases, Reachable, NotifyPush
  <2>4. InUseIsStored'
    BY <1>4, <2>1 DEF Inv, Base, OtherTypes, Phases, InUseIsStored, NotifyPush
  <2>5. NoneForgotten'
    BY <1>4, <2>1, ValuesAreKeys DEF Inv, Base, OtherTypes, Phases, NoneForgotten,
       Remembered, Releasing, NotifyPush
  <2>6. OrphansInUse'
    BY <1>4, <2>1, ValuesAreKeys DEF Inv, Base, OtherTypes, Phases, OrphansInUse,
       Remembered, Releasing, NotifyPush
  <2> QED  BY <2>1, <2>2, <2>3, <2>4, <2>5, <2>6 DEF Inv, Base
<1>5. ASSUME NEW t \in Threads, NotifyWake(t) PROVE Inv'
  <2>1. IdsOK' /\ UNCHANGED ids
    BY <1>5, KeepIds DEF Inv, Base, NotifyWake, Wake
  <2>2. OtherTypes' /\ DetachedHeld' /\ DroppingHasKey'
    <3>1. DetachedHeld'
      BY <1>5, <2>1, KeepDetached DEF Inv, Base, NotifyWake, Wake
    <3>2. DroppingHasKey'
      BY <1>5, <2>1 DEF Inv, Base, OtherTypes, DroppingHasKey, NotifyWake, Wake
    <3>3. FlagTypes'
      BY <1>5, <2>1 DEF Inv, Base, OtherTypes, FlagTypes, NotifyWake, Wake
    <3>4. OtherTypes'
      BY <1>5, <2>1, <3>3 DEF Inv, Base, OtherTypes, FlagTypes, DroppingHasKey,
         NotifyWake, Wake, Stages, Points
    <3> QED  BY <3>1, <3>2, <3>4
  <2>3. Phases' /\ Reachable'
    BY <1>5, <2>1 DEF Inv, Base, OtherTypes, Phases, Reachable, NotifyWake, Wake
  <2>4. InUseIsStored'
    BY <1>5, <2>1 DEF Inv, Base, OtherTypes, Phases, InUseIsStored, NotifyWake, Wake
  <2>5. NoneForgotten'
    BY <1>5, <2>1, ValuesAreKeys DEF Inv, Base, OtherTypes, Phases, NoneForgotten,
       Remembered, Releasing, NotifyWake, Wake
  <2>6. OrphansInUse'
    BY <1>5, <2>1, ValuesAreKeys DEF Inv, Base, OtherTypes, Phases, OrphansInUse,
       Remembered, Releasing, NotifyWake, Wake
  <2> QED  BY <2>1, <2>2, <2>3, <2>4, <2>5, <2>6 DEF Inv, Base
<1>6. ASSUME NEW t \in Threads, NEW i \in RcIds, SendStrong(t, i) PROVE Inv'
  <2>1. Moved(i, Queued)
    BY <1>6, PlacesApart, ValuesAreKeys, MoveEffect DEF Inv, Base, SendStrong, Idle,
       Admit
  <2>2. OtherTypes' /\ DetachedHeld' /\ DroppingHasKey'
    <3>1. DetachedHeld'
      BY <1>6, <2>1, PlacesApart, KeepDetached, Distinct DEF Inv, Base, SendStrong,
         Idle, Admit, Moved
    <3>2. DroppingHasKey'
      BY <1>6, <2>1 DEF Inv, Base, OtherTypes, DroppingHasKey, SendStrong, Idle, Admit,
         Moved
    <3>4. OtherTypes'
      BY <1>6, <2>1, <3>1, ValuesAreKeys DEF Inv, Base, OtherTypes, SendStrong, Idle,
         Admit, Moved, Points
    <3> QED  BY <3>1, <3>2, <3>4
  <2>3. Phases' /\ Reachable'
    BY <1>6, <2>1 DEF Inv, Base, OtherTypes, Phases, Reachable, SendStrong, Idle, Admit,
       Moved
  <2>4. InUseIsStored'
    BY <1>6, <2>1 DEF Inv, Base, OtherTypes, Phases, InUseIsStored, SendStrong, Idle,
       Admit, Moved
  <2>5. NoneForgotten'
    BY <1>6, <2>1, ValuesAreKeys DEF Inv, Base, OtherTypes, Phases, NoneForgotten,
       Remembered, Releasing, SendStrong, Idle, Admit, Moved
  <2>6. OrphansInUse'
    BY <1>6, <2>1, ValuesAreKeys DEF Inv, Base, OtherTypes, Phases, OrphansInUse,
       Remembered, Releasing, SendStrong, Idle, Admit, Moved
  <2> QED  BY <2>1, <2>2, <2>3, <2>4, <2>5, <2>6 DEF Inv, Base, Moved
<1>7. ASSUME NEW t \in Threads, NEW i \in RcIds, SendDetach(t, i) PROVE Inv'
  <2>1. Moved(i, Detaching)
    BY <1>7, PlacesApart, ValuesAreKeys, MoveEffect DEF Inv, Base, SendDetach, Idle,
       Admit
  <2>2. OtherTypes' /\ DetachedHeld' /\ DroppingHasKey'
    <3>1. DetachedHeld'
      BY <1>7, <2>1, PlacesApart, KeepDetached, Distinct DEF Inv, Base, SendDetach,
         Idle, Admit, Moved
    <3>2. DroppingHasKey'
      BY <1>7, <2>1 DEF Inv, Base, OtherTypes, DroppingHasKey, SendDetach, Idle, Admit,
         Moved
    <3>4. OtherTypes'
      BY <1>7, <2>1, <3>1, ValuesAreKeys DEF Inv, Base, OtherTypes, SendDetach, Idle,
         Admit, Moved, Points
    <3> QED  BY <3>1, <3>2, <3>4
  <2>3. Phases' /\ Reachable'
    BY <1>7, <2>1 DEF Inv, Base, OtherTypes, Phases, Reachable, SendDetach, Idle, Admit,
       Moved
  <2>4. InUseIsStored'
    BY <1>7, <2>1 DEF Inv, Base, OtherTypes, Phases, InUseIsStored, SendDetach, Idle,
       Admit, Moved
  <2>5. NoneForgotten'
    BY <1>7, <2>1, ValuesAreKeys DEF Inv, Base, OtherTypes, Phases, NoneForgotten,
       Remembered, Releasing, SendDetach, Idle, Admit, Moved
  <2>6. OrphansInUse'
    BY <1>7, <2>1, ValuesAreKeys DEF Inv, Base, OtherTypes, Phases, OrphansInUse,
       Remembered, Releasing, SendDetach, Idle, Admit, Moved
  <2> QED  BY <2>1, <2>2, <2>3, <2>4, <2>5, <2>6 DEF Inv, Base, Moved
<1>8. ASSUME NEW t \in Threads, NEW k \in Keys, SendWeak(t, k) PROVE Inv'
  <2>1. IdsOK' /\ UNCHANGED ids
    BY <1>8, KeepIds DEF Inv, Base, SendWeak, Idle, Admit
  <2>2. OtherTypes' /\ DetachedHeld' /\ DroppingHasKey'
    <3>1. DetachedHeld'
      BY <1>8, <2>1, KeepDetached DEF Inv, Base, SendWeak, Idle, Admit
    <3>2. DroppingHasKey'
      BY <1>8, <2>1 DEF Inv, Base, OtherTypes, DroppingHasKey, SendWeak, Idle, Admit
    <3>3. FlagTypes'
      BY <1>8, <2>1 DEF Inv, Base, OtherTypes, FlagTypes, SendWeak, Idle, Admit
    <3>4. OtherTypes'
      BY <1>8, <2>1, <3>3 DEF Inv, Base, OtherTypes, FlagTypes, DroppingHasKey,
         SendWeak, Idle, Admit, Stages, Points
    <3> QED  BY <3>1, <3>2, <3>4
  <2>3. Phases' /\ Reachable'
    BY <1>8, <2>1 DEF Inv, Base, OtherTypes, Phases, Reachable, SendWeak, Idle, Admit
  <2>4. InUseIsStored'
    BY <1>8, <2>1 DEF Inv, Base, OtherTypes, Phases, InUseIsStored, SendWeak, Idle,
       Admit
  <2>5. NoneForgotten'
    BY <1>8, <2>1, ValuesAreKeys DEF Inv, Base, OtherTypes, Phases, NoneForgotten,
       Remembered, Releasing, SendWeak, Idle, Admit
  <2>6. OrphansInUse'
    BY <1>8, <2>1, ValuesAreKeys DEF Inv, Base, OtherTypes, Phases, OrphansInUse,
       Remembered, Releasing, SendWeak, Idle, Admit
  <2> QED  BY <2>1, <2>2, <2>3, <2>4, <2>5, <2>6 DEF Inv, Base
<1>9. ASSUME RequestShutdown PROVE Inv'
  <2>1. IdsOK' /\ UNCHANGED ids
    BY <1>9, KeepIds DEF Inv, Base, RequestShutdown
  <2>2. OtherTypes' /\ DetachedHeld' /\ DroppingHasKey'
    <3>1. DetachedHeld'
      BY <1>9, <2>1, KeepDetached DEF Inv, Base, RequestShutdown
    <3>2. DroppingHasKey'
      BY <1>9, <2>1 DEF Inv, Base, OtherTypes, DroppingHasKey, RequestShutdown
    <3>3. FlagTypes'
      BY <1>9, <2>1 DEF Inv, Base, OtherTypes, FlagTypes, RequestShutdown
    <3>4. OtherTypes'
      BY <1>9, <2>1, <3>3 DEF Inv, Base, OtherTypes, FlagTypes, DroppingHasKey,
         RequestShutdown, Stages, Points
    <3> QED  BY <3>1, <3>2, <3>4
  <2>3. Phases' /\ Reachable'
    BY <1>9, <2>1 DEF Inv, Base, OtherTypes, Phases, Reachable, RequestShutdown
  <2>4. InUseIsStored'
    BY <1>9, <2>1 DEF Inv, Base, OtherTypes, Phases, InUseIsStored, RequestShutdown
  <2>5. NoneForgotten'
    BY <1>9, <2>1, ValuesAreKeys DEF Inv, Base, OtherTypes, Phases, NoneForgotten,
       Remembered, Releasing, RequestShutdown
  <2>6. OrphansInUse'
    BY <1>9, <2>1, ValuesAreKeys DEF Inv, Base, OtherTypes, Phases, OrphansInUse,
       Remembered, Releasing, RequestShutdown
  <2> QED  BY <2>1, <2>2, <2>3, <2>4, <2>5, <2>6 DEF Inv, Base
<1>10. ASSUME Quit PROVE Inv'
  <2>1. IdsOK' /\ UNCHANGED ids
    BY <1>10, KeepIds DEF Inv, Base, Quit
  <2>2. OtherTypes' /\ DetachedHeld' /\ DroppingHasKey'
    <3>1. DetachedHeld'
      BY <1>10, <2>1, KeepDetached DEF Inv, Base, Quit
    <3>2. DroppingHasKey'
      BY <1>10, <2>1 DEF Inv, Base, OtherTypes, DroppingHasKey, Quit
    <3>3. FlagTypes'
      BY <1>10, <2>1 DEF Inv, Base, OtherTypes, FlagTypes, Quit
    <3>4. OtherTypes'
      BY <1>10, <2>1, <3>3, ValuesAreKeys DEF Inv, Base, OtherTypes, FlagTypes, DroppingHasKey,
         Quit, Stages, Points
    <3> QED  BY <3>1, <3>2, <3>4
  <2>3. Phases' /\ Reachable'
    BY <1>10, <2>1 DEF Inv, Base, OtherTypes, Phases, Reachable, Quit
  <2>4. InUseIsStored'
    BY <1>10, <2>1 DEF Inv, Base, OtherTypes, Phases, InUseIsStored, Quit
  <2>5. NoneForgotten'
    BY <1>10, <2>1, ValuesAreKeys DEF Inv, Base, OtherTypes, Phases, NoneForgotten,
       Remembered, Releasing, Quit
  <2>6. OrphansInUse'
    BY <1>10, <2>1, ValuesAreKeys DEF Inv, Base, OtherTypes, Phases, OrphansInUse,
       Remembered, Releasing, Quit
  <2> QED  BY <2>1, <2>2, <2>3, <2>4, <2>5, <2>6 DEF Inv, Base
<1> QED  BY <1>1, <1>2, <1>3, <1>4, <1>5, <1>6, <1>7, <1>8, <1>9, <1>10 DEF Remote

\* A step of application code on the owner thread keeps the invariant.
LEMMA OwnerCodeKeepsInv ==
  ASSUME Inv, OwnerCode
  PROVE  Inv'
<1> USE DEF life, ids, calls, signal, garbage, stack, flags, remote
<1>1. ASSUME NEW new \in RcIds, Bind(new) PROVE Inv'
  <2>1. PICK n \in Keys : n = last_id + 1 /\ Acquired(new, n, Local)
    <3>1. PICK n \in Keys : n = last_id + 1 /\ Acquire(new, n, Local)
      <4>1. last_id + 1 \in Keys
        BY <1>1, StoreAssumption DEF Inv, Base, OtherTypes, Keys, Bind
      <4> QED  BY <1>1, <4>1 DEF Acquire, Bind
    <3> QED  BY <3>1, PlacesApart, AcquireEffect DEF Inv, Base
  <2>2. OtherTypes' /\ DetachedHeld' /\ DroppingHasKey'
    <3>1. DetachedHeld'
      BY <1>1, <2>1, PlacesApart, KeepDetached, Distinct DEF Inv, Base, Bind, Resume,
         OwnerRuns, Acquired
    <3>2. DroppingHasKey'
      BY <1>1, <2>1 DEF Inv, Base, OtherTypes, DroppingHasKey, Bind, Resume, OwnerRuns,
         Acquired
    <3>3. last_id' \in 0..MaxKeys /\ values' \subseteq 1..last_id'
      BY <1>1, <2>1, StoreAssumption DEF Inv, Base, OtherTypes, Keys, Bind, Resume,
         OwnerRuns, Acquired
    <3>4. OtherTypes'
      BY <1>1, <2>1, <3>1, <3>3, ValuesAreKeys DEF Inv, Base, OtherTypes, Bind, Resume,
         OwnerRuns, Acquired, Points
    <3> QED  BY <3>1, <3>2, <3>4
  <2>3. Phases' /\ Reachable'
    BY <1>1, <2>1 DEF Inv, Base, OtherTypes, Phases, Reachable, Bind, Resume, OwnerRuns,
       Acquired
  <2>4. InUseIsStored'
    BY <1>1, <2>1 DEF Inv, Base, OtherTypes, Phases, InUseIsStored, Bind, Resume,
       OwnerRuns, Acquired
  <2>5. NoneForgotten' /\ OrphansInUse'
    <3>1. /\ \A j \in Keys : tokens'[j] = 0 => tokens[j] = 0 /\ j # n
          /\ \A j \in Keys : tokens[j] > 0 => tokens'[j] > 0
          /\ tokens'[n] > 0
      BY <2>1 DEF Acquired
    <3>2. \A j \in Keys : Remembered(j) => Remembered(j)'
      BY <1>1 DEF Remembered, Releasing, Bind
    <3>3. NoneForgotten'
      BY <1>1, <2>1, <3>1, <3>2, ValuesAreKeys DEF Inv, Base, NoneForgotten, Bind
    <3>4. OrphansInUse'
      BY <1>1, <2>1, <3>1, <3>2, ValuesAreKeys DEF Inv, Base, OrphansInUse, Bind,
         Resume, OwnerRuns
    <3> QED  BY <3>3, <3>4
  <2> QED  BY <2>1, <2>2, <2>3, <2>4, <2>5 DEF Inv, Base, Acquired
<1>2. ASSUME NEW k \in Keys, NEW new \in RcIds, TryLocal(k, new) PROVE Inv'
  <2>1. PICK n \in Keys : n = k /\ Acquired(new, n, Local)
    <3>1. PICK n \in Keys : n = k /\ Acquire(new, n, Local)
      BY <1>2, PlacesApart, PlacedHasKey DEF Inv, Base, Acquire, TryLocal, Resume,
         OwnerRuns
    <3> QED  BY <3>1, PlacesApart, AcquireEffect DEF Inv, Base
  <2>2. OtherTypes' /\ DetachedHeld' /\ DroppingHasKey'
    <3>1. DetachedHeld'
      BY <1>2, <2>1, PlacesApart, KeepDetached, Distinct DEF Inv, Base, TryLocal,
         Resume, OwnerRuns, Acquired
    <3>2. DroppingHasKey'
      BY <1>2, <2>1 DEF Inv, Base, OtherTypes, DroppingHasKey, TryLocal, Resume,
         OwnerRuns, Acquired
    <3>4. OtherTypes'
      BY <1>2, <2>1, <3>1, ValuesAreKeys DEF Inv, Base, OtherTypes, TryLocal, Resume,
         OwnerRuns, Acquired, Points
    <3> QED  BY <3>1, <3>2, <3>4
  <2>3. Phases' /\ Reachable'
    BY <1>2, <2>1 DEF Inv, Base, OtherTypes, Phases, Reachable, TryLocal, Resume,
       OwnerRuns, Acquired
  <2>4. InUseIsStored'
    BY <1>2, <2>1 DEF Inv, Base, OtherTypes, Phases, InUseIsStored, TryLocal, Resume,
       OwnerRuns, Acquired
  <2>5. NoneForgotten' /\ OrphansInUse'
    <3>1. /\ \A j \in Keys : tokens'[j] = 0 => tokens[j] = 0 /\ j # n
          /\ \A j \in Keys : tokens[j] > 0 => tokens'[j] > 0
          /\ tokens'[n] > 0
      BY <2>1 DEF Acquired
    <3>2. \A j \in Keys : Remembered(j) => Remembered(j)'
      BY <1>2 DEF Remembered, Releasing, TryLocal
    <3>3. NoneForgotten'
      BY <1>2, <2>1, <3>1, <3>2, ValuesAreKeys DEF Inv, Base, NoneForgotten, TryLocal
    <3>4. OrphansInUse'
      BY <1>2, <2>1, <3>1, <3>2, ValuesAreKeys DEF Inv, Base, OrphansInUse, TryLocal,
         Resume, OwnerRuns
    <3> QED  BY <3>3, <3>4
  <2> QED  BY <2>1, <2>2, <2>3, <2>4, <2>5 DEF Inv, Base, Acquired
<1>3. ASSUME NEW i \in RcIds, NEW p \in Threads \cup Keys, HandOut(i, p) PROVE Inv'
  <2>1. Moved(i, p)
    BY <1>3, PlacesApart, ValuesAreKeys, MoveEffect DEF Inv, Base, HandOut, Resume,
       OwnerRuns
  <2>2. OtherTypes' /\ DetachedHeld' /\ DroppingHasKey'
    <3>1. DetachedHeld'
      BY <1>3, <2>1, PlacesApart, KeepDetached, Distinct DEF Inv, Base, HandOut, Resume,
         OwnerRuns, Moved
    <3>2. DroppingHasKey'
      BY <1>3, <2>1 DEF Inv, Base, OtherTypes, DroppingHasKey, HandOut, Resume,
         OwnerRuns, Moved
    <3>4. OtherTypes'
      BY <1>3, <2>1, <3>1, ValuesAreKeys DEF Inv, Base, OtherTypes, HandOut, Resume,
         OwnerRuns, Moved, Points
    <3> QED  BY <3>1, <3>2, <3>4
  <2>3. Phases' /\ Reachable'
    BY <1>3, <2>1 DEF Inv, Base, OtherTypes, Phases, Reachable, HandOut, Resume,
       OwnerRuns, Moved
  <2>4. InUseIsStored'
    BY <1>3, <2>1 DEF Inv, Base, OtherTypes, Phases, InUseIsStored, HandOut, Resume,
       OwnerRuns, Moved
  <2>5. NoneForgotten'
    BY <1>3, <2>1, ValuesAreKeys DEF Inv, Base, OtherTypes, Phases, NoneForgotten,
       Remembered, Releasing, HandOut, Resume, OwnerRuns, Moved
  <2>6. OrphansInUse'
    BY <1>3, <2>1, ValuesAreKeys DEF Inv, Base, OtherTypes, Phases, OrphansInUse,
       Remembered, Releasing, HandOut, Resume, OwnerRuns, Moved
  <2> QED  BY <2>1, <2>2, <2>3, <2>4, <2>5, <2>6 DEF Inv, Base, Moved
<1>4. ASSUME NEW i \in RcIds, DropLocal(i) PROVE Inv'
  <2>1. OwnerDropped(i)
    BY <1>4, PlacesApart, OwnerDropEffect DEF Inv, Base, DropLocal, Resume, OwnerRuns
  <2>2. OtherTypes' /\ DetachedHeld' /\ DroppingHasKey'
    <3>1. DetachedHeld'
      BY <1>4, <2>1, PlacesApart, KeepDetached, Distinct DEF Inv, Base, DropLocal,
         Resume, OwnerRuns, OwnerDropped
    <3>2. DroppingHasKey'
      BY <1>4, <2>1 DEF Inv, Base, OtherTypes, DroppingHasKey, DropLocal, Resume,
         OwnerRuns, OwnerDropped
    <3>4. OtherTypes'
      BY <1>4, <2>1, <3>1, ValuesAreKeys DEF Inv, Base, OtherTypes, DropLocal, Resume,
         OwnerRuns, OwnerDropped, Points
    <3> QED  BY <3>1, <3>2, <3>4
  <2>3. Phases' /\ Reachable'
    BY <1>4, <2>1 DEF Inv, Base, OtherTypes, Phases, Reachable, DropLocal, Resume,
       OwnerRuns, OwnerDropped
  <2>4. InUseIsStored'
    BY <1>4, <2>1 DEF Inv, Base, OtherTypes, Phases, InUseIsStored, DropLocal, Resume,
       OwnerRuns, OwnerDropped
  <2>5. NoneForgotten'
    BY <1>4, <2>1, ValuesAreKeys DEF Inv, Base, OtherTypes, Phases, NoneForgotten,
       Remembered, Releasing, DropLocal, Resume, OwnerRuns, OwnerDropped
  <2>6. OrphansInUse'
    <3>1. /\ \A k \in Keys : tokens'[k] = 0 => tokens[k] = 0 \/ closed \/ Remembered(k)'
          /\ \A k \in Keys : tokens[k] \in Nat /\ tokens'[k] \in Nat
      BY <2>1 DEF OwnerDropped, Remembered
    <3>2. \A k \in Keys : Remembered(k) => Remembered(k)'
      BY <1>4, <2>1 DEF OwnerDropped, Remembered, Releasing, DropLocal
    <3>3. /\ UNCHANGED <<orphans, values, borrowed, stage, closed>>
          /\ stage' = "run" /\ pc' # "done" => pc # "done"
      BY <1>4 DEF DropLocal, Resume, OwnerRuns
    <3>4. closed => stage # "run"
      BY DEF Inv, Phases
    <3>5. values \subseteq Keys
      BY ValuesAreKeys DEF Inv, Base
    <3> QED  BY <3>1, <3>2, <3>3, <3>4, <3>5 DEF Inv, OrphansInUse
  <2> QED  BY <2>1, <2>2, <2>3, <2>4, <2>5, <2>6 DEF Inv, Base, OwnerDropped
<1>5. ASSUME NEW i \in RcIds, DetachLocal(i) PROVE Inv'
  <2>1. Moved(i, Detached)
    BY <1>5, PlacesApart, ValuesAreKeys, MoveEffect DEF Inv, Base, DetachLocal, Resume,
       OwnerRuns
  <2>2. OtherTypes' /\ DetachedHeld' /\ DroppingHasKey'
    <3>1. DetachedHeld' /\ detached' \in Seq(RcIds)
      BY <1>5, <2>1, PlacesApart, PushDetached, Distinct DEF Inv, Base, DetachLocal,
         Resume, OwnerRuns, Moved
    <3>2. DroppingHasKey'
      BY <1>5, <2>1 DEF Inv, Base, OtherTypes, DroppingHasKey, DetachLocal, Resume,
         OwnerRuns, Moved
    <3>4. OtherTypes'
      BY <1>5, <2>1, <3>1, ValuesAreKeys DEF Inv, Base, OtherTypes, DetachLocal, Resume,
         OwnerRuns, Moved, Points
    <3> QED  BY <3>1, <3>2, <3>4
  <2>3. Phases' /\ Reachable'
    BY <1>5, <2>1 DEF Inv, Base, OtherTypes, Phases, Reachable, DetachLocal, Resume,
       OwnerRuns, Moved
  <2>4. InUseIsStored'
    BY <1>5, <2>1 DEF Inv, Base, OtherTypes, Phases, InUseIsStored, DetachLocal, Resume,
       OwnerRuns, Moved
  <2>5. NoneForgotten'
    BY <1>5, <2>1, ValuesAreKeys DEF Inv, Base, OtherTypes, Phases, NoneForgotten,
       Remembered, Releasing, DetachLocal, Resume, OwnerRuns, Moved
  <2>6. OrphansInUse'
    BY <1>5, <2>1, ValuesAreKeys DEF Inv, Base, OtherTypes, Phases, OrphansInUse,
       Remembered, Releasing, DetachLocal, Resume, OwnerRuns, Moved
  <2> QED  BY <2>1, <2>2, <2>3, <2>4, <2>5, <2>6 DEF Inv, Base, Moved
<1>6. ASSUME NEW k \in Keys, NEW new \in RcIds, UpgradeAfter(k, new) PROVE Inv'
  <2>1. PICK i \in RcIds : holder[i] = Local /\ key[i] = k /\ Acquired(new, k, Local)
    <3>1. PICK i \in RcIds : holder[i] = Local /\ key[i] = k /\ Acquire(new, k, Local)
      BY <1>6 DEF UpgradeAfter, Kept, At
    <3> QED  BY <3>1, PlacesApart, AcquireEffect DEF Inv, Base
  <2>2. OtherTypes' /\ DetachedHeld' /\ DroppingHasKey'
    <3>1. DetachedHeld'
      BY <1>6, <2>1, PlacesApart, KeepDetached, Distinct DEF Inv, Base, UpgradeAfter, Ended, Acquired
    <3>2. DroppingHasKey'
      BY <1>6, <2>1 DEF Inv, Base, OtherTypes, DroppingHasKey, UpgradeAfter, Ended, Acquired
    <3>3. OtherTypes'
      BY <1>6, <2>1, <3>1, ValuesAreKeys DEF Inv, Base, OtherTypes, UpgradeAfter, Ended,
         Acquired, Points
    <3> QED  BY <3>1, <3>2, <3>3
  <2>3. Phases' /\ Reachable'
    BY <1>6, <2>1 DEF Inv, Base, OtherTypes, Phases, Reachable, UpgradeAfter, Ended,
       Acquired
  <2>4. InUseIsStored'
    <3>1. ~closed => k \in values
      BY <2>1, Distinct DEF Inv, InUseIsStored
    <3>2. UNCHANGED <<closed, values, borrowed>>
      BY <1>6 DEF UpgradeAfter
    <3>3. \A j \in RcIds : key'[j] = key[j] \/ key'[j] = k
      BY <2>1 DEF Acquired
    <3> QED  BY <3>1, <3>2, <3>3 DEF Inv, InUseIsStored
  <2>5. NoneForgotten'
    <3>1. \A j \in Keys : tokens'[j] = 0 => tokens[j] = 0
      BY <2>1 DEF Acquired
    <3>2. \A j \in Keys : Remembered(j) => Remembered(j)'
      BY <1>6 DEF Remembered, Releasing, UpgradeAfter
    <3> QED  BY <1>6, <3>1, <3>2, ValuesAreKeys DEF Inv, Base, NoneForgotten, UpgradeAfter
  <2>6. OrphansInUse'
    BY <1>6, <2>1, ValuesAreKeys DEF Inv, Base, OtherTypes, Phases, OrphansInUse,
       Remembered, Releasing, UpgradeAfter, Ended, Acquired
  <2> QED  BY <2>1, <2>2, <2>3, <2>4, <2>5, <2>6 DEF Inv, Base, Acquired
<1>7. ASSUME NEW i \in RcIds, DropAfter(i) PROVE Inv'
  <2>1. OwnerDropped(i)
    BY <1>7, PlacesApart, OwnerDropEffect DEF Inv, Base, DropAfter
  <2>2. OtherTypes' /\ DetachedHeld' /\ DroppingHasKey'
    <3>1. DetachedHeld'
      BY <1>7, <2>1, PlacesApart, KeepDetached, Distinct DEF Inv, Base, DropAfter, Ended, OwnerDropped
    <3>2. DroppingHasKey'
      BY <1>7, <2>1 DEF Inv, Base, OtherTypes, DroppingHasKey, DropAfter, Ended, OwnerDropped
    <3>3. OtherTypes'
      BY <1>7, <2>1, <3>1, ValuesAreKeys DEF Inv, Base, OtherTypes, DropAfter, Ended,
         OwnerDropped, Points
    <3> QED  BY <3>1, <3>2, <3>3
  <2>3. Phases' /\ Reachable'
    BY <1>7, <2>1 DEF Inv, Base, OtherTypes, Phases, Reachable, DropAfter, Ended,
       OwnerDropped
  <2>4. InUseIsStored'
    BY <1>7, <2>1 DEF Inv, Base, OtherTypes, Phases, InUseIsStored, DropAfter, Ended,
       OwnerDropped
  <2>5. NoneForgotten'
    BY <1>7, <2>1, ValuesAreKeys DEF Inv, Base, OtherTypes, Phases, NoneForgotten,
       Remembered, Releasing, DropAfter, Ended, OwnerDropped
  <2>6. OrphansInUse'
    BY <1>7, <2>1, ValuesAreKeys DEF Inv, Base, OtherTypes, Phases, OrphansInUse,
       Remembered, Releasing, DropAfter, Ended, OwnerDropped
  <2> QED  BY <2>1, <2>2, <2>3, <2>4, <2>5, <2>6 DEF Inv, Base, OwnerDropped
<1> QED  BY <1>1, <1>2, <1>3, <1>4, <1>5, <1>6, <1>7 DEF OwnerCode

\* Taking or finishing a command keeps the invariant.
LEMMA CommandsKeepInv ==
  ASSUME Inv, Commands
  PROVE  Inv'
<1> USE DEF life, ids, calls, signal, garbage, stack, flags, remote
<1>1. ASSUME NEW i \in RcIds, StartStrong(i) PROVE Inv'
  <2>1. \/ key[i] \in values /\ pc' = "turn" /\ UNCHANGED signal /\ Moved(i, Flight)
        \/ pc' = "done" /\ OwnerDropped(i)
    BY <1>1, PlacesApart, MoveEffect, OwnerDropEffect DEF Inv, Base, StartStrong
  <2>2. OtherTypes' /\ DetachedHeld' /\ DroppingHasKey'
    <3>1. DetachedHeld'
      BY <1>1, <2>1, PlacesApart, KeepDetached, Distinct DEF Inv, Base, StartStrong,
         Selecting, Moved, OwnerDropped
    <3>2. DroppingHasKey'
      BY <1>1, <2>1 DEF Inv, Base, OtherTypes, DroppingHasKey, StartStrong, Selecting,
         Moved, OwnerDropped
    <3>4. OtherTypes'
      BY <1>1, <2>1, <3>1, ValuesAreKeys DEF Inv, Base, OtherTypes, StartStrong,
         Selecting, Moved, OwnerDropped, Points
    <3> QED  BY <3>1, <3>2, <3>4
  <2>3. Phases' /\ Reachable'
    BY <1>1, <2>1 DEF Inv, Base, OtherTypes, Phases, Reachable, StartStrong, Selecting,
       Moved, OwnerDropped
  <2>4. InUseIsStored'
    BY <1>1, <2>1 DEF Inv, Base, OtherTypes, Phases, InUseIsStored, StartStrong,
       Selecting, Moved, OwnerDropped
  <2>5. NoneForgotten'
    BY <1>1, <2>1, ValuesAreKeys DEF Inv, Base, OtherTypes, Phases, NoneForgotten,
       Remembered, Releasing, StartStrong, Selecting, Moved, OwnerDropped
  <2>6. OrphansInUse'
    BY <1>1, <2>1, ValuesAreKeys DEF Inv, Base, OtherTypes, Phases, OrphansInUse,
       Remembered, Releasing, StartStrong, Selecting, Moved, OwnerDropped
  <2> QED  BY <2>1, <2>2, <2>3, <2>4, <2>5, <2>6 DEF Inv, Base, Moved, OwnerDropped
<1>2. ASSUME NEW k \in Keys, StartWeak(k) PROVE Inv'
  <2>1. IdsOK' /\ UNCHANGED ids
    BY <1>2, KeepIds DEF Inv, Base, StartWeak, Selecting
  <2>2. OtherTypes' /\ DetachedHeld' /\ DroppingHasKey'
    <3>1. DetachedHeld'
      BY <1>2, <2>1, PlacesApart, KeepDetached, Distinct DEF Inv, Base, StartWeak,
         Selecting
    <3>2. DroppingHasKey'
      BY <1>2, <2>1 DEF Inv, Base, OtherTypes, DroppingHasKey, StartWeak, Selecting
    <3>3. borrowed' \in [Keys -> Nat] /\ weakq' \in [Keys -> Nat]
      <4>1. CASE k \in values
        BY <1>2, <4>1 DEF Inv, Base, OtherTypes, StartWeak
      <4>2. CASE k \notin values
        BY <1>2, <4>2 DEF Inv, Base, OtherTypes, StartWeak
      <4> QED  BY <4>1, <4>2
    <3>4. OtherTypes'
      BY <1>2, <2>1, <3>1, <3>3, ValuesAreKeys DEF Inv, Base, OtherTypes, StartWeak,
         Selecting, Points
    <3> QED  BY <3>1, <3>2, <3>4
  <2>3. Phases' /\ Reachable'
    BY <1>2, <2>1 DEF Inv, Base, OtherTypes, Phases, Reachable, StartWeak, Selecting
  <2>4. InUseIsStored'
    BY <1>2, <2>1 DEF Inv, Base, OtherTypes, Phases, InUseIsStored, StartWeak, Selecting
  <2>5. NoneForgotten'
    BY <1>2, <2>1, ValuesAreKeys DEF Inv, Base, OtherTypes, Phases, NoneForgotten,
       Remembered, Releasing, StartWeak, Selecting
  <2>6. OrphansInUse'
    <3>1. pc' = "done" \/ \A j \in Keys : borrowed[j] > 0 => borrowed'[j] > 0
      <4>1. CASE k \in values
        BY <1>2, <4>1 DEF Inv, Base, OtherTypes, StartWeak
      <4>2. CASE k \notin values
        BY <1>2, <4>2 DEF StartWeak
      <4> QED  BY <4>1, <4>2
    <3>2. \A j \in Keys : Remembered(j) => Remembered(j)'
      BY <1>2 DEF Remembered, Releasing, StartWeak
    <3> QED  BY <1>2, <2>1, <3>1, <3>2, ValuesAreKeys DEF Inv, Base, OrphansInUse,
       StartWeak, Selecting
  <2> QED  BY <2>1, <2>2, <2>3, <2>4, <2>5, <2>6 DEF Inv, Base
<1>3. ASSUME NEW i \in RcIds, RunDetach(i) PROVE Inv'
  <2>1. Moved(i, Detached)
    BY <1>3, PlacesApart, ValuesAreKeys, MoveEffect DEF Inv, Base, RunDetach, Selecting
  <2>2. OtherTypes' /\ DetachedHeld' /\ DroppingHasKey'
    <3>1. DetachedHeld' /\ detached' \in Seq(RcIds)
      BY <1>3, <2>1, PlacesApart, PushDetached, Distinct DEF Inv, Base, RunDetach,
         Selecting, Moved
    <3>2. DroppingHasKey'
      BY <1>3, <2>1 DEF Inv, Base, OtherTypes, DroppingHasKey, RunDetach, Selecting,
         Moved
    <3>4. OtherTypes'
      BY <1>3, <2>1, <3>1, ValuesAreKeys DEF Inv, Base, OtherTypes, RunDetach,
         Selecting, Moved, Points
    <3> QED  BY <3>1, <3>2, <3>4
  <2>3. Phases' /\ Reachable'
    BY <1>3, <2>1 DEF Inv, Base, OtherTypes, Phases, Reachable, RunDetach, Selecting,
       Moved
  <2>4. InUseIsStored'
    BY <1>3, <2>1 DEF Inv, Base, OtherTypes, Phases, InUseIsStored, RunDetach,
       Selecting, Moved
  <2>5. NoneForgotten'
    BY <1>3, <2>1, ValuesAreKeys DEF Inv, Base, OtherTypes, Phases, NoneForgotten,
       Remembered, Releasing, RunDetach, Selecting, Moved
  <2>6. OrphansInUse'
    BY <1>3, <2>1, ValuesAreKeys DEF Inv, Base, OtherTypes, Phases, OrphansInUse,
       Remembered, Releasing, RunDetach, Selecting, Moved
  <2> QED  BY <2>1, <2>2, <2>3, <2>4, <2>5, <2>6 DEF Inv, Base, Moved
<1>4. ASSUME NEW i \in RcIds, FinishStrong(i) PROVE Inv'
  <2>1. OwnerDropped(i)
    BY <1>4, PlacesApart, OwnerDropEffect DEF Inv, Base, FinishStrong, OwnerRuns,
       Completed
  <2>2. OtherTypes' /\ DetachedHeld' /\ DroppingHasKey'
    <3>1. DetachedHeld'
      BY <1>4, <2>1, PlacesApart, KeepDetached, Distinct DEF Inv, Base, FinishStrong,
         OwnerRuns, Completed, OwnerDropped
    <3>2. DroppingHasKey'
      BY <1>4, <2>1 DEF Inv, Base, OtherTypes, DroppingHasKey, FinishStrong, OwnerRuns,
         Completed, OwnerDropped
    <3>4. OtherTypes'
      BY <1>4, <2>1, <3>1, ValuesAreKeys DEF Inv, Base, OtherTypes, FinishStrong,
         OwnerRuns, Completed, OwnerDropped, Points
    <3> QED  BY <3>1, <3>2, <3>4
  <2>3. Phases' /\ Reachable'
    BY <1>4, <2>1 DEF Inv, Base, OtherTypes, Phases, Reachable, FinishStrong, OwnerRuns,
       Completed, OwnerDropped
  <2>4. InUseIsStored'
    BY <1>4, <2>1 DEF Inv, Base, OtherTypes, Phases, InUseIsStored, FinishStrong,
       OwnerRuns, Completed, OwnerDropped
  <2>5. NoneForgotten'
    BY <1>4, <2>1, ValuesAreKeys DEF Inv, Base, OtherTypes, Phases, NoneForgotten,
       Remembered, Releasing, FinishStrong, OwnerRuns, Completed, OwnerDropped
  <2>6. OrphansInUse'
    BY <1>4, <2>1, ValuesAreKeys DEF Inv, Base, OtherTypes, Phases, OrphansInUse,
       Remembered, Releasing, FinishStrong, OwnerRuns, Completed, OwnerDropped
  <2> QED  BY <2>1, <2>2, <2>3, <2>4, <2>5, <2>6 DEF Inv, Base, OwnerDropped
<1>5. ASSUME NEW k \in Keys, FinishWeak(k) PROVE Inv'
  <2>1. IdsOK' /\ UNCHANGED ids
    BY <1>5, KeepIds DEF Inv, Base, FinishWeak, OwnerRuns, Completed
  <2>2. OtherTypes' /\ DetachedHeld' /\ DroppingHasKey'
    <3>1. DetachedHeld'
      BY <1>5, <2>1, KeepDetached DEF Inv, Base, FinishWeak, OwnerRuns, Completed
    <3>2. DroppingHasKey'
      BY <1>5, <2>1 DEF Inv, Base, OtherTypes, DroppingHasKey, FinishWeak, OwnerRuns, Completed
    <3>3. FlagTypes'
      BY <1>5, <2>1 DEF Inv, Base, OtherTypes, FlagTypes, FinishWeak, OwnerRuns, Completed
    <3>4. OtherTypes'
      BY <1>5, <2>1, <3>3 DEF Inv, Base, OtherTypes, FlagTypes, DroppingHasKey,
         FinishWeak, OwnerRuns, Completed, Stages, Points
    <3> QED  BY <3>1, <3>2, <3>4
  <2>3. Phases' /\ Reachable'
    BY <1>5, <2>1 DEF Inv, Base, OtherTypes, Phases, Reachable, FinishWeak, OwnerRuns,
       Completed
  <2>4. InUseIsStored'
    BY <1>5, <2>1 DEF Inv, Base, OtherTypes, Phases, InUseIsStored, FinishWeak,
       OwnerRuns, Completed
  <2>5. NoneForgotten'
    BY <1>5, <2>1, ValuesAreKeys DEF Inv, Base, OtherTypes, Phases, NoneForgotten,
       Remembered, Releasing, FinishWeak, OwnerRuns, Completed
  <2>6. OrphansInUse'
    BY <1>5, <2>1, ValuesAreKeys DEF Inv, Base, OtherTypes, Phases, OrphansInUse,
       Remembered, Releasing, FinishWeak, OwnerRuns, Completed
  <2> QED  BY <2>1, <2>2, <2>3, <2>4, <2>5, <2>6 DEF Inv, Base
<1> QED  BY <1>1, <1>2, <1>3, <1>4, <1>5 DEF Commands

\* A step of the driver's waiting and collecting keeps the invariant.
LEMMA CollectKeepsInv ==
  ASSUME Inv, Collect
  PROVE  Inv'
<1> USE DEF life, ids, calls, signal, garbage, stack, flags, remote
<1>1. ASSUME CollectOrphans PROVE Inv'
  <2>1. IdsOK' /\ UNCHANGED ids
    BY <1>1, KeepIds DEF Inv, Base, CollectOrphans, TakeGarbage
  <2>2. OtherTypes' /\ DetachedHeld' /\ DroppingHasKey'
    <3>1. DetachedHeld'
      BY <1>1, <2>1, KeepDetached DEF Inv, Base, CollectOrphans, TakeGarbage
    <3>2. DroppingHasKey'
      BY <1>1, <2>1 DEF Inv, Base, OtherTypes, DroppingHasKey, CollectOrphans, TakeGarbage
    <3>3. FlagTypes'
      BY <1>1, <2>1 DEF Inv, Base, OtherTypes, FlagTypes, CollectOrphans, TakeGarbage
    <3>4. OtherTypes'
      BY <1>1, <2>1, <3>3 DEF Inv, Base, OtherTypes, FlagTypes, DroppingHasKey,
         CollectOrphans, TakeGarbage, Stages, Points
    <3> QED  BY <3>1, <3>2, <3>4
  <2>3. Phases' /\ Reachable'
    BY <1>1, <2>1 DEF Inv, Base, OtherTypes, Phases, Reachable, CollectOrphans,
       TakeGarbage
  <2>4. InUseIsStored'
    BY <1>1, <2>1 DEF Inv, Base, OtherTypes, Phases, InUseIsStored, CollectOrphans,
       TakeGarbage
  <2>5. NoneForgotten'
    BY <1>1, <2>1, ValuesAreKeys DEF Inv, Base, OtherTypes, Phases, NoneForgotten,
       Remembered, Releasing, CollectOrphans, TakeGarbage
  <2>6. OrphansInUse'
    BY <1>1, <2>1, ValuesAreKeys DEF Inv, Base, OtherTypes, Phases, OrphansInUse,
       Remembered, Releasing, CollectOrphans, TakeGarbage
  <2> QED  BY <2>1, <2>2, <2>3, <2>4, <2>5, <2>6 DEF Inv, Base
<1>2. ASSUME RegisterWaker PROVE Inv'
  <2>1. IdsOK' /\ UNCHANGED ids
    BY <1>2, KeepIds DEF Inv, Base, RegisterWaker
  <2>2. OtherTypes' /\ DetachedHeld' /\ DroppingHasKey'
    <3>1. DetachedHeld'
      BY <1>2, <2>1, KeepDetached DEF Inv, Base, RegisterWaker
    <3>2. DroppingHasKey'
      BY <1>2, <2>1 DEF Inv, Base, OtherTypes, DroppingHasKey, RegisterWaker
    <3>3. FlagTypes'
      BY <1>2, <2>1 DEF Inv, Base, OtherTypes, FlagTypes, RegisterWaker
    <3>4. OtherTypes'
      BY <1>2, <2>1, <3>3 DEF Inv, Base, OtherTypes, FlagTypes, DroppingHasKey,
         RegisterWaker, Stages, Points
    <3> QED  BY <3>1, <3>2, <3>4
  <2>3. Phases' /\ Reachable'
    BY <1>2, <2>1 DEF Inv, Base, OtherTypes, Phases, Reachable, RegisterWaker
  <2>4. InUseIsStored'
    BY <1>2, <2>1 DEF Inv, Base, OtherTypes, Phases, InUseIsStored, RegisterWaker
  <2>5. NoneForgotten'
    BY <1>2, <2>1, ValuesAreKeys DEF Inv, Base, OtherTypes, Phases, NoneForgotten,
       Remembered, Releasing, RegisterWaker
  <2>6. OrphansInUse'
    BY <1>2, <2>1, ValuesAreKeys DEF Inv, Base, OtherTypes, Phases, OrphansInUse,
       Remembered, Releasing, RegisterWaker
  <2> QED  BY <2>1, <2>2, <2>3, <2>4, <2>5, <2>6 DEF Inv, Base
<1>3. ASSUME PollCandidates PROVE Inv'
  <2>1. IdsOK' /\ UNCHANGED ids
    BY <1>3, KeepIds DEF Inv, Base, PollCandidates, TakeGarbage
  <2>2. OtherTypes' /\ DetachedHeld' /\ DroppingHasKey'
    <3>1. DetachedHeld'
      BY <1>3, <2>1, KeepDetached DEF Inv, Base, PollCandidates, TakeGarbage
    <3>2. DroppingHasKey'
      BY <1>3, <2>1 DEF Inv, Base, OtherTypes, DroppingHasKey, PollCandidates, TakeGarbage
    <3>3. FlagTypes'
      BY <1>3, <2>1 DEF Inv, Base, OtherTypes, FlagTypes, PollCandidates, TakeGarbage
    <3>4. OtherTypes'
      BY <1>3, <2>1, <3>3 DEF Inv, Base, OtherTypes, FlagTypes, DroppingHasKey,
         PollCandidates, TakeGarbage, Stages, Points
    <3> QED  BY <3>1, <3>2, <3>4
  <2>3. Phases' /\ Reachable'
    BY <1>3, <2>1 DEF Inv, Base, OtherTypes, Phases, Reachable, PollCandidates,
       TakeGarbage
  <2>4. InUseIsStored'
    BY <1>3, <2>1 DEF Inv, Base, OtherTypes, Phases, InUseIsStored, PollCandidates,
       TakeGarbage
  <2>5. NoneForgotten'
    BY <1>3, <2>1, ValuesAreKeys DEF Inv, Base, OtherTypes, Phases, NoneForgotten,
       Remembered, Releasing, PollCandidates, TakeGarbage
  <2>6. OrphansInUse'
    BY <1>3, <2>1, ValuesAreKeys DEF Inv, Base, OtherTypes, Phases, OrphansInUse,
       Remembered, Releasing, PollCandidates, TakeGarbage
  <2> QED  BY <2>1, <2>2, <2>3, <2>4, <2>5, <2>6 DEF Inv, Base
<1>4. ASSUME Park PROVE Inv'
  <2>1. IdsOK' /\ UNCHANGED ids
    BY <1>4, KeepIds DEF Inv, Base, Park
  <2>2. OtherTypes' /\ DetachedHeld' /\ DroppingHasKey'
    <3>1. DetachedHeld'
      BY <1>4, <2>1, KeepDetached DEF Inv, Base, Park
    <3>2. DroppingHasKey'
      BY <1>4, <2>1 DEF Inv, Base, OtherTypes, DroppingHasKey, Park
    <3>3. FlagTypes'
      BY <1>4, <2>1 DEF Inv, Base, OtherTypes, FlagTypes, Park
    <3>4. OtherTypes'
      BY <1>4, <2>1, <3>3 DEF Inv, Base, OtherTypes, FlagTypes, DroppingHasKey,
         Park, Stages, Points
    <3> QED  BY <3>1, <3>2, <3>4
  <2>3. Phases' /\ Reachable'
    BY <1>4, <2>1 DEF Inv, Base, OtherTypes, Phases, Reachable, Park
  <2>4. InUseIsStored'
    BY <1>4, <2>1 DEF Inv, Base, OtherTypes, Phases, InUseIsStored, Park
  <2>5. NoneForgotten'
    BY <1>4, <2>1, ValuesAreKeys DEF Inv, Base, OtherTypes, Phases, NoneForgotten,
       Remembered, Releasing, Park
  <2>6. OrphansInUse'
    BY <1>4, <2>1, ValuesAreKeys DEF Inv, Base, OtherTypes, Phases, OrphansInUse,
       Remembered, Releasing, Park
  <2> QED  BY <2>1, <2>2, <2>3, <2>4, <2>5, <2>6 DEF Inv, Base
<1>5. ASSUME Unpark PROVE Inv'
  <2>1. IdsOK' /\ UNCHANGED ids
    BY <1>5, KeepIds DEF Inv, Base, Unpark
  <2>2. OtherTypes' /\ DetachedHeld' /\ DroppingHasKey'
    <3>1. DetachedHeld'
      BY <1>5, <2>1, KeepDetached DEF Inv, Base, Unpark
    <3>2. DroppingHasKey'
      BY <1>5, <2>1 DEF Inv, Base, OtherTypes, DroppingHasKey, Unpark
    <3>3. FlagTypes'
      BY <1>5, <2>1 DEF Inv, Base, OtherTypes, FlagTypes, Unpark
    <3>4. OtherTypes'
      BY <1>5, <2>1, <3>3 DEF Inv, Base, OtherTypes, FlagTypes, DroppingHasKey,
         Unpark, Stages, Points
    <3> QED  BY <3>1, <3>2, <3>4
  <2>3. Phases' /\ Reachable'
    BY <1>5, <2>1 DEF Inv, Base, OtherTypes, Phases, Reachable, Unpark
  <2>4. InUseIsStored'
    BY <1>5, <2>1 DEF Inv, Base, OtherTypes, Phases, InUseIsStored, Unpark
  <2>5. NoneForgotten'
    BY <1>5, <2>1, ValuesAreKeys DEF Inv, Base, OtherTypes, Phases, NoneForgotten,
       Remembered, Releasing, Unpark
  <2>6. OrphansInUse'
    BY <1>5, <2>1, ValuesAreKeys DEF Inv, Base, OtherTypes, Phases, OrphansInUse,
       Remembered, Releasing, Unpark
  <2> QED  BY <2>1, <2>2, <2>3, <2>4, <2>5, <2>6 DEF Inv, Base
<1>6. ASSUME NEW k \in Keys, CheckKey(k) PROVE Inv'
  <2>1. IdsOK' /\ UNCHANGED ids
    BY <1>6, KeepIds DEF Inv, Base, CheckKey
  <2>2. OtherTypes' /\ DetachedHeld' /\ DroppingHasKey'
    <3>1. DetachedHeld'
      BY <1>6, <2>1, KeepDetached DEF Inv, Base, CheckKey
    <3>2. DroppingHasKey'
      BY <1>6, <2>1 DEF Inv, Base, OtherTypes, DroppingHasKey, CheckKey
    <3>3. FlagTypes'
      BY <1>6, <2>1 DEF Inv, Base, OtherTypes, FlagTypes, CheckKey
    <3>4. OtherTypes'
      BY <1>6, <2>1, <3>3 DEF Inv, Base, OtherTypes, FlagTypes, DroppingHasKey,
         CheckKey, Stages, Points
    <3> QED  BY <3>1, <3>2, <3>4
  <2>3. Phases' /\ Reachable'
    BY <1>6, <2>1 DEF Inv, Base, OtherTypes, Phases, Reachable, CheckKey
  <2>4. InUseIsStored'
    <3>1. tokens[k] = 0 => \A i \in RcIds : key[i] # k
      BY CountedHasTokens DEF Inv, Base
    <3>2. \/ values' = values
          \/ values' = values \ {k} /\ tokens[k] = 0 /\ borrowed[k] = 0
      BY <1>6 DEF CheckKey
    <3> QED  BY <1>6, <2>1, <3>1, <3>2 DEF Inv, Base, OtherTypes, InUseIsStored,
       CheckKey
  <2>5. NoneForgotten'
    BY <1>6, <2>1, ValuesAreKeys DEF Inv, Base, OtherTypes, Phases, NoneForgotten,
       Remembered, Releasing, CheckKey
  <2>6. OrphansInUse'
    <3>1. \A j \in Keys : j # k => (Remembered(j) => Remembered(j)')
      BY <1>6 DEF Remembered, Releasing, CheckKey
    <3>2. k \in orphans' \cap values' => tokens[k] > 0 \/ borrowed[k] > 0
      BY <1>6, <2>1 DEF Inv, Base, OtherTypes, IdsOK, TokenTypes, CheckKey
    <3>3. values' \subseteq values /\ \A j \in orphans' : j # k => j \in orphans
      BY <1>6 DEF CheckKey
    <3> QED  BY <1>6, <2>1, <3>1, <3>2, <3>3, ValuesAreKeys DEF Inv, Base, OrphansInUse,
       CheckKey
  <2> QED  BY <2>1, <2>2, <2>3, <2>4, <2>5, <2>6 DEF Inv, Base
<1>7. ASSUME EndCheck PROVE Inv'
  <2>1. IdsOK' /\ UNCHANGED ids
    BY <1>7, KeepIds DEF Inv, Base, EndCheck
  <2>2. OtherTypes' /\ DetachedHeld' /\ DroppingHasKey'
    <3>1. DetachedHeld'
      BY <1>7, <2>1, KeepDetached DEF Inv, Base, EndCheck
    <3>2. DroppingHasKey'
      BY <1>7, <2>1 DEF Inv, Base, OtherTypes, DroppingHasKey, EndCheck
    <3>3. FlagTypes'
      BY <1>7, <2>1 DEF Inv, Base, OtherTypes, FlagTypes, EndCheck
    <3>4. OtherTypes'
      BY <1>7, <2>1, <3>3 DEF Inv, Base, OtherTypes, FlagTypes, DroppingHasKey,
         EndCheck, Stages, Points
    <3> QED  BY <3>1, <3>2, <3>4
  <2>3. Phases' /\ Reachable'
    BY <1>7, <2>1 DEF Inv, Base, OtherTypes, Phases, Reachable, EndCheck
  <2>4. InUseIsStored'
    BY <1>7, <2>1 DEF Inv, Base, OtherTypes, Phases, InUseIsStored, EndCheck
  <2>5. NoneForgotten'
    BY <1>7, <2>1, ValuesAreKeys DEF Inv, Base, OtherTypes, Phases, NoneForgotten,
       Remembered, Releasing, EndCheck
  <2>6. OrphansInUse'
    BY <1>7, <2>1, ValuesAreKeys DEF Inv, Base, OtherTypes, Phases, OrphansInUse,
       Remembered, Releasing, EndCheck
  <2> QED  BY <2>1, <2>2, <2>3, <2>4, <2>5, <2>6 DEF Inv, Base
<1>8. ASSUME NEW k \in Keys, NEW i \in RcIds, DropField(k, i) PROVE Inv'
  <2>1. OwnerDropped(i)
    BY <1>8, PlacesApart, OwnerDropEffect DEF Inv, Base, DropField, Destroying, NextToDrop
  <2>2. OtherTypes' /\ DetachedHeld' /\ DroppingHasKey'
    <3>1. DetachedHeld'
      BY <1>8, <2>1, PlacesApart, KeepDetached, Distinct DEF Inv, Base, DropField,
         Destroying, NextToDrop, OwnerDropped
    <3>2. DroppingHasKey'
      BY <1>8, <2>1 DEF Inv, Base, OtherTypes, DroppingHasKey, DropField, Destroying, NextToDrop,
         OwnerDropped
    <3>4. OtherTypes'
      BY <1>8, <2>1, <3>1, ValuesAreKeys DEF Inv, Base, OtherTypes, DropField,
         Destroying, NextToDrop, OwnerDropped, Points
    <3> QED  BY <3>1, <3>2, <3>4
  <2>3. Phases' /\ Reachable'
    BY <1>8, <2>1 DEF Inv, Base, OtherTypes, Phases, Reachable, DropField, Destroying, NextToDrop,
       OwnerDropped
  <2>4. InUseIsStored'
    BY <1>8, <2>1 DEF Inv, Base, OtherTypes, Phases, InUseIsStored, DropField,
       Destroying, NextToDrop, OwnerDropped
  <2>5. NoneForgotten'
    BY <1>8, <2>1, ValuesAreKeys DEF Inv, Base, OtherTypes, Phases, NoneForgotten,
       Remembered, Releasing, DropField, Destroying, NextToDrop, OwnerDropped
  <2>6. OrphansInUse'
    <3>1. \A j \in Keys : tokens[j] > 0 => tokens'[j] > 0 \/ closed \/ j \in candidates'
      BY <2>1 DEF OwnerDropped
    <3>2. \A j \in Keys : Remembered(j) => Remembered(j)'
      BY <1>8, <2>1 DEF Remembered, Releasing, DropField, OwnerDropped
    <3>3. \A j \in candidates' : Remembered(j)'
      BY DEF Remembered
    <3> QED  BY <1>8, <3>1, <3>2, <3>3, ValuesAreKeys DEF Inv, Base, Phases,
       OrphansInUse, DropField
  <2> QED  BY <2>1, <2>2, <2>3, <2>4, <2>5, <2>6 DEF Inv, Base, OwnerDropped
<1>9. ASSUME NEW k \in Keys, NEW i \in RcIds, DetachField(k, i) PROVE Inv'
  <2>1. Moved(i, Detached)
    BY <1>9, PlacesApart, ValuesAreKeys, MoveEffect DEF Inv, Base, DetachField,
       Destroying, NextToDrop
  <2>2. OtherTypes' /\ DetachedHeld' /\ DroppingHasKey'
    <3>1. DetachedHeld' /\ detached' \in Seq(RcIds)
      BY <1>9, <2>1, PlacesApart, PushDetached, Distinct DEF Inv, Base, DetachField,
         Destroying, NextToDrop, Moved
    <3>2. DroppingHasKey'
      BY <1>9, <2>1 DEF Inv, Base, OtherTypes, DroppingHasKey, DetachField, Destroying, NextToDrop,
         Moved
    <3>4. OtherTypes'
      BY <1>9, <2>1, <3>1, ValuesAreKeys DEF Inv, Base, OtherTypes, DetachField,
         Destroying, NextToDrop, Moved, Points
    <3> QED  BY <3>1, <3>2, <3>4
  <2>3. Phases' /\ Reachable'
    BY <1>9, <2>1 DEF Inv, Base, OtherTypes, Phases, Reachable, DetachField, Destroying, NextToDrop,
       Moved
  <2>4. InUseIsStored'
    BY <1>9, <2>1 DEF Inv, Base, OtherTypes, Phases, InUseIsStored, DetachField,
       Destroying, NextToDrop, Moved
  <2>5. NoneForgotten'
    BY <1>9, <2>1, ValuesAreKeys DEF Inv, Base, OtherTypes, Phases, NoneForgotten,
       Remembered, Releasing, DetachField, Destroying, NextToDrop, Moved
  <2>6. OrphansInUse'
    BY <1>9, <2>1, ValuesAreKeys DEF Inv, Base, OtherTypes, Phases, OrphansInUse,
       Remembered, Releasing, DetachField, Destroying, NextToDrop, Moved
  <2> QED  BY <2>1, <2>2, <2>3, <2>4, <2>5, <2>6 DEF Inv, Base, Moved
<1>10. ASSUME NEW k \in Keys, DropValue(k) PROVE Inv'
  <2>1. IdsOK' /\ UNCHANGED ids
    BY <1>10, KeepIds DEF Inv, Base, DropValue, NextToDrop
  <2>2. OtherTypes' /\ DetachedHeld' /\ DroppingHasKey'
    <3>1. DetachedHeld'
      BY <1>10, <2>1, KeepDetached DEF Inv, Base, DropValue, NextToDrop
    <3>2. DroppingHasKey'
      BY <1>10, <2>1 DEF Inv, Base, OtherTypes, DroppingHasKey, DropValue, NextToDrop
    <3>3. FlagTypes'
      BY <1>10, <2>1 DEF Inv, Base, OtherTypes, FlagTypes, DropValue, NextToDrop
    <3>4. OtherTypes'
      BY <1>10, <2>1, <3>3 DEF Inv, Base, OtherTypes, FlagTypes, DroppingHasKey,
         DropValue, NextToDrop, Stages, Points
    <3> QED  BY <3>1, <3>2, <3>4
  <2>3. Phases' /\ Reachable'
    BY <1>10, <2>1 DEF Inv, Base, OtherTypes, Phases, Reachable, DropValue, NextToDrop
  <2>4. InUseIsStored'
    BY <1>10, <2>1 DEF Inv, Base, OtherTypes, Phases, InUseIsStored, DropValue,
       NextToDrop
  <2>5. NoneForgotten'
    BY <1>10, <2>1, ValuesAreKeys DEF Inv, Base, OtherTypes, Phases, NoneForgotten,
       Remembered, Releasing, DropValue, NextToDrop
  <2>6. OrphansInUse'
    BY <1>10, <2>1, ValuesAreKeys DEF Inv, Base, OtherTypes, Phases, OrphansInUse,
       Remembered, Releasing, DropValue, NextToDrop
  <2> QED  BY <2>1, <2>2, <2>3, <2>4, <2>5, <2>6 DEF Inv, Base
<1>11. ASSUME EndDrop PROVE Inv'
  <2>1. IdsOK' /\ UNCHANGED ids
    BY <1>11, KeepIds DEF Inv, Base, EndDrop
  <2>2. OtherTypes' /\ DetachedHeld' /\ DroppingHasKey'
    <3>1. DetachedHeld'
      BY <1>11, <2>1, KeepDetached DEF Inv, Base, EndDrop
    <3>2. DroppingHasKey'
      BY <1>11, <2>1 DEF Inv, Base, OtherTypes, DroppingHasKey, EndDrop
    <3>3. FlagTypes'
      BY <1>11, <2>1 DEF Inv, Base, OtherTypes, FlagTypes, EndDrop
    <3>4. OtherTypes'
      BY <1>11, <2>1, <3>3, ValuesAreKeys DEF Inv, Base, OtherTypes, FlagTypes, DroppingHasKey,
         EndDrop, Stages, Points
    <3> QED  BY <3>1, <3>2, <3>4
  <2>3. Phases' /\ Reachable'
    <3>1. \/ stage' = stage
          \/ stage' = "cancel" /\ stage \notin {"drop", "down"}
          \/ stage' = "drop" /\ stage = "final"
      BY <1>11 DEF EndDrop
    <3>2. UNCHANGED <<batch, closed, borrowed>> /\ pc = "drop" /\ pc' = "turn"
      BY <1>11 DEF EndDrop
    <3>3. Phases'
      BY <3>1, <3>2 DEF Inv, Phases
    <3> QED  BY <3>2, <3>3 DEF Reachable
  <2>4. InUseIsStored'
    BY <1>11, <2>1 DEF Inv, Base, OtherTypes, Phases, InUseIsStored, EndDrop
  <2>5. NoneForgotten'
    BY <1>11, <2>1, ValuesAreKeys DEF Inv, Base, OtherTypes, Phases, NoneForgotten,
       Remembered, Releasing, EndDrop
  <2>6. OrphansInUse'
    BY <1>11, <2>1, ValuesAreKeys DEF Inv, Base, OtherTypes, Phases, OrphansInUse,
       Remembered, Releasing, EndDrop
  <2> QED  BY <2>1, <2>2, <2>3, <2>4, <2>5, <2>6 DEF Inv, Base
<1>12. ASSUME NEW k \in Keys, UnwindValue(k) PROVE Inv'
  <2>1. IdsOK' /\ UNCHANGED ids
    BY <1>12, KeepIds DEF Inv, Base, UnwindValue, Unwinding, Destroying, NextToDrop
  <2>2. OtherTypes' /\ DetachedHeld' /\ DroppingHasKey'
    <3>1. DetachedHeld'
      BY <1>12, <2>1, KeepDetached DEF Inv, Base, UnwindValue, Unwinding, Destroying, NextToDrop
    <3>2. DroppingHasKey'
      BY <1>12, <2>1 DEF Inv, Base, OtherTypes, DroppingHasKey, UnwindValue, Unwinding, Destroying, NextToDrop
    <3>3. FlagTypes'
      BY <1>12, <2>1 DEF Inv, Base, OtherTypes, FlagTypes, UnwindValue, Unwinding, Destroying, NextToDrop
    <3>4. OtherTypes'
      BY <1>12, <2>1, <3>3, ValuesAreKeys DEF Inv, Base, OtherTypes, FlagTypes, DroppingHasKey,
         UnwindValue, Unwinding, Destroying, NextToDrop, Stages, Points
    <3> QED  BY <3>1, <3>2, <3>4
  <2>3. Phases' /\ Reachable'
    BY <1>12, <2>1 DEF Inv, Base, OtherTypes, Phases, Reachable, UnwindValue, Unwinding, Destroying, NextToDrop
  <2>4. InUseIsStored'
    BY <1>12, <2>1 DEF Inv, Base, OtherTypes, Phases, InUseIsStored, UnwindValue, Unwinding, Destroying, NextToDrop
  <2>5. NoneForgotten'
    BY <1>12, <2>1, ValuesAreKeys DEF Inv, Base, OtherTypes, Phases, NoneForgotten,
       Remembered, Releasing, UnwindValue, Unwinding, Destroying, NextToDrop
  <2>6. OrphansInUse'
    BY <1>12, <2>1, ValuesAreKeys DEF Inv, Base, OtherTypes, Phases, OrphansInUse,
       Remembered, Releasing, UnwindValue, Unwinding, Destroying, NextToDrop
  <2> QED  BY <2>1, <2>2, <2>3, <2>4, <2>5, <2>6 DEF Inv, Base
<1> QED  BY <1>1, <1>2, <1>3, <1>4, <1>5, <1>6, <1>7, <1>8, <1>9, <1>10, <1>11, <1>12 DEF
   Collect

\* A step of the shutdown keeps the invariant.
LEMMA ShutdownKeepsInv ==
  ASSUME Inv, Shutdown
  PROVE  Inv'
<1> USE DEF life, ids, calls, signal, garbage, stack, flags, remote
<1>1. ASSUME Stop PROVE Inv'
  <2>1. IdsOK' /\ UNCHANGED ids
    BY <1>1, KeepIds DEF Inv, Base, Stop, Selecting
  <2>2. OtherTypes' /\ DetachedHeld' /\ DroppingHasKey'
    <3>1. DetachedHeld'
      BY <1>1, <2>1, KeepDetached DEF Inv, Base, Stop, Selecting
    <3>2. DroppingHasKey'
      BY <1>1, <2>1 DEF Inv, Base, OtherTypes, DroppingHasKey, Stop, Selecting
    <3>3. FlagTypes'
      BY <1>1, <2>1 DEF Inv, Base, OtherTypes, FlagTypes, Stop, Selecting
    <3>4. OtherTypes'
      BY <1>1, <2>1, <3>3 DEF Inv, Base, OtherTypes, FlagTypes, DroppingHasKey,
         Stop, Selecting, Stages, Points
    <3> QED  BY <3>1, <3>2, <3>4
  <2>3. Phases' /\ Reachable'
    BY <1>1, <2>1 DEF Inv, Base, OtherTypes, Phases, Reachable, Stop, Selecting
  <2>4. InUseIsStored'
    BY <1>1, <2>1 DEF Inv, Base, OtherTypes, Phases, InUseIsStored, Stop, Selecting
  <2>5. NoneForgotten'
    BY <1>1, <2>1, ValuesAreKeys DEF Inv, Base, OtherTypes, Phases, NoneForgotten,
       Remembered, Releasing, Stop, Selecting
  <2>6. OrphansInUse'
    BY <1>1, <2>1, ValuesAreKeys DEF Inv, Base, OtherTypes, Phases, OrphansInUse,
       Remembered, Releasing, Stop, Selecting
  <2> QED  BY <2>1, <2>2, <2>3, <2>4, <2>5, <2>6 DEF Inv, Base
<1>2. ASSUME EndDrain PROVE Inv'
  <2>1. IdsOK' /\ UNCHANGED ids
    BY <1>2, KeepIds DEF Inv, Base, EndDrain
  <2>2. OtherTypes' /\ DetachedHeld' /\ DroppingHasKey'
    <3>1. DetachedHeld'
      BY <1>2, <2>1, KeepDetached DEF Inv, Base, EndDrain
    <3>2. DroppingHasKey'
      BY <1>2, <2>1 DEF Inv, Base, OtherTypes, DroppingHasKey, EndDrain
    <3>3. FlagTypes'
      BY <1>2, <2>1 DEF Inv, Base, OtherTypes, FlagTypes, EndDrain
    <3>4. OtherTypes'
      BY <1>2, <2>1, <3>3 DEF Inv, Base, OtherTypes, FlagTypes, DroppingHasKey,
         EndDrain, Stages, Points
    <3> QED  BY <3>1, <3>2, <3>4
  <2>3. Phases' /\ Reachable'
    BY <1>2, <2>1 DEF Inv, Base, OtherTypes, Phases, Reachable, EndDrain
  <2>4. InUseIsStored'
    BY <1>2, <2>1 DEF Inv, Base, OtherTypes, Phases, InUseIsStored, EndDrain
  <2>5. NoneForgotten'
    BY <1>2, <2>1, ValuesAreKeys DEF Inv, Base, OtherTypes, Phases, NoneForgotten,
       Remembered, Releasing, EndDrain
  <2>6. OrphansInUse'
    BY <1>2, <2>1, ValuesAreKeys DEF Inv, Base, OtherTypes, Phases, OrphansInUse,
       Remembered, Releasing, EndDrain
  <2> QED  BY <2>1, <2>2, <2>3, <2>4, <2>5, <2>6 DEF Inv, Base
<1>3. ASSUME NEW i \in RcIds, CancelStrong(i) PROVE Inv'
  <2>1. OwnerDropped(i)
    BY <1>3, PlacesApart, OwnerDropEffect DEF Inv, Base, CancelStrong
  <2>2. OtherTypes' /\ DetachedHeld' /\ DroppingHasKey'
    <3>1. DetachedHeld'
      BY <1>3, <2>1, PlacesApart, KeepDetached, Distinct DEF Inv, Base, CancelStrong,
         OwnerDropped
    <3>2. DroppingHasKey'
      BY <1>3, <2>1 DEF Inv, Base, OtherTypes, DroppingHasKey, CancelStrong,
         OwnerDropped
    <3>4. OtherTypes'
      BY <1>3, <2>1, <3>1, ValuesAreKeys DEF Inv, Base, OtherTypes, CancelStrong,
         OwnerDropped, Points
    <3> QED  BY <3>1, <3>2, <3>4
  <2>3. Phases' /\ Reachable'
    BY <1>3, <2>1 DEF Inv, Base, OtherTypes, Phases, Reachable, CancelStrong,
       OwnerDropped
  <2>4. InUseIsStored'
    BY <1>3, <2>1 DEF Inv, Base, OtherTypes, Phases, InUseIsStored, CancelStrong,
       OwnerDropped
  <2>5. NoneForgotten'
    BY <1>3, <2>1, ValuesAreKeys DEF Inv, Base, OtherTypes, Phases, NoneForgotten,
       Remembered, Releasing, CancelStrong, OwnerDropped
  <2>6. OrphansInUse'
    BY <1>3, <2>1, ValuesAreKeys DEF Inv, Base, OtherTypes, Phases, OrphansInUse,
       Remembered, Releasing, CancelStrong, OwnerDropped
  <2> QED  BY <2>1, <2>2, <2>3, <2>4, <2>5, <2>6 DEF Inv, Base, OwnerDropped
<1>4. ASSUME NEW k \in Keys, CancelWeak(k) PROVE Inv'
  <2>1. IdsOK' /\ UNCHANGED ids
    BY <1>4, KeepIds DEF Inv, Base, CancelWeak
  <2>2. OtherTypes' /\ DetachedHeld' /\ DroppingHasKey'
    <3>1. DetachedHeld'
      BY <1>4, <2>1, PlacesApart, KeepDetached, Distinct DEF Inv, Base, CancelWeak
    <3>2. DroppingHasKey'
      BY <1>4, <2>1 DEF Inv, Base, OtherTypes, DroppingHasKey, CancelWeak
    <3>3. borrowed' \in [Keys -> Nat] /\ weakq' \in [Keys -> Nat]
      <4>1. CASE borrowed[k] > 0 /\ borrowed' = [borrowed EXCEPT ![k] = @ - 1] /\ UNCHANGED weakq
        BY <4>1 DEF Inv, Base, OtherTypes
      <4>2. CASE weakq[k] > 0 /\ weakq' = [weakq EXCEPT ![k] = @ - 1] /\ UNCHANGED borrowed
        BY <4>2 DEF Inv, Base, OtherTypes
      <4> QED  BY <1>4, <4>1, <4>2 DEF CancelWeak
    <3>4. OtherTypes'
      BY <1>4, <2>1, <3>1, <3>3, ValuesAreKeys DEF Inv, Base, OtherTypes, CancelWeak,
         Points
    <3> QED  BY <3>1, <3>2, <3>4
  <2>3. Phases' /\ Reachable'
    BY <1>4, <2>1 DEF Inv, Base, OtherTypes, Phases, Reachable, CancelWeak
  <2>4. InUseIsStored'
    BY <1>4, <2>1 DEF Inv, Base, OtherTypes, Phases, InUseIsStored, CancelWeak
  <2>5. NoneForgotten'
    BY <1>4, <2>1, ValuesAreKeys DEF Inv, Base, OtherTypes, Phases, NoneForgotten,
       Remembered, Releasing, CancelWeak
  <2>6. OrphansInUse'
    BY <1>4, <2>1, ValuesAreKeys DEF Inv, Base, OtherTypes, Phases, OrphansInUse,
       Remembered, Releasing, CancelWeak
  <2> QED  BY <2>1, <2>2, <2>3, <2>4, <2>5, <2>6 DEF Inv, Base
<1>5. ASSUME EndCancel PROVE Inv'
  <2>1. IdsOK' /\ UNCHANGED ids
    BY <1>5, KeepIds DEF Inv, Base, EndCancel, NothingInFlight
  <2>2. OtherTypes' /\ DetachedHeld' /\ DroppingHasKey'
    <3>1. DetachedHeld'
      BY <1>5, <2>1, KeepDetached DEF Inv, Base, EndCancel, NothingInFlight
    <3>2. DroppingHasKey'
      BY <1>5, <2>1 DEF Inv, Base, OtherTypes, DroppingHasKey, EndCancel, NothingInFlight
    <3>3. FlagTypes'
      BY <1>5, <2>1 DEF Inv, Base, OtherTypes, FlagTypes, EndCancel, NothingInFlight
    <3>4. OtherTypes'
      BY <1>5, <2>1, <3>3 DEF Inv, Base, OtherTypes, FlagTypes, DroppingHasKey,
         EndCancel, NothingInFlight, Stages, Points
    <3> QED  BY <3>1, <3>2, <3>4
  <2>3. Phases' /\ Reachable'
    BY <1>5, <2>1 DEF Inv, Base, OtherTypes, Phases, Reachable, EndCancel,
       NothingInFlight
  <2>4. InUseIsStored'
    BY <1>5, <2>1 DEF Inv, Base, OtherTypes, Phases, InUseIsStored, EndCancel,
       NothingInFlight
  <2>5. NoneForgotten'
    BY <1>5, <2>1, ValuesAreKeys DEF Inv, Base, OtherTypes, Phases, NoneForgotten,
       Remembered, Releasing, EndCancel, NothingInFlight
  <2>6. OrphansInUse'
    BY <1>5, <2>1, ValuesAreKeys DEF Inv, Base, OtherTypes, Phases, OrphansInUse,
       Remembered, Releasing, EndCancel, NothingInFlight
  <2> QED  BY <2>1, <2>2, <2>3, <2>4, <2>5, <2>6 DEF Inv, Base
<1>6. ASSUME PopDetached PROVE Inv'
  <2>1. PICK i \in RcIds : i = Newest /\ holder[i] = Detached /\ OwnerDropped(i)
    <3>1. PICK i \in RcIds : i = Newest /\ holder[i] = Detached /\ OwnerDrop(i)
      BY <1>6, NewestHeld DEF Inv, Base, OwnerDrop, Release, PopDetached
    <3> QED  BY <3>1, PlacesApart, OwnerDropEffect DEF Inv, Base
  <2>2. OtherTypes' /\ DetachedHeld' /\ DroppingHasKey'
    <3>1. DetachedHeld' /\ detached' \in Seq(RcIds)
      BY <1>6, <2>1, PopDetachedHeld DEF Inv, Base, PopDetached, OwnerDropped
    <3>2. DroppingHasKey'
      BY <1>6, <2>1 DEF Inv, Base, OtherTypes, DroppingHasKey, PopDetached, OwnerDropped
    <3>3. OtherTypes'
      BY <1>6, <2>1, <3>1, ValuesAreKeys DEF Inv, Base, OtherTypes, PopDetached,
         OwnerDropped, Points
    <3> QED  BY <3>1, <3>2, <3>3
  <2>3. Phases' /\ Reachable'
    BY <1>6, <2>1 DEF Inv, Base, OtherTypes, Phases, Reachable, PopDetached,
       OwnerDropped
  <2>4. InUseIsStored'
    BY <1>6, <2>1 DEF Inv, Base, OtherTypes, Phases, InUseIsStored, PopDetached,
       OwnerDropped
  <2>5. NoneForgotten'
    BY <1>6, <2>1, ValuesAreKeys DEF Inv, Base, OtherTypes, Phases, NoneForgotten,
       Remembered, Releasing, PopDetached, OwnerDropped
  <2>6. OrphansInUse'
    BY <1>6, <2>1, ValuesAreKeys DEF Inv, Base, OtherTypes, Phases, OrphansInUse,
       Remembered, Releasing, PopDetached, OwnerDropped
  <2> QED  BY <2>1, <2>2, <2>3, <2>4, <2>5, <2>6 DEF Inv, Base, OwnerDropped
<1>7. ASSUME Retire PROVE Inv'
  <2>1. IdsOK' /\ UNCHANGED ids
    BY <1>7, KeepIds DEF Inv, Base, Retire
  <2>2. OtherTypes' /\ DetachedHeld' /\ DroppingHasKey'
    <3>1. DetachedHeld'
      BY <1>7, <2>1, PlacesApart, KeepDetached, Distinct DEF Inv, Base, Retire
    <3>2. DroppingHasKey'
      BY <1>7, <2>1 DEF Inv, Base, OtherTypes, DroppingHasKey, Retire
    <3>3. values' \subseteq values /\ retired' \subseteq Keys
      <4>1. CASE popped \in values /\ tokens[popped] = 0 /\ borrowed[popped] = 0
        <5>1. values' = values \ {popped} /\ retired' = {popped}
          BY <1>7, <4>1 DEF Retire
        <5> QED  BY <4>1, <5>1, ValuesAreKeys DEF Inv, Base
      <4>2. CASE ~(popped \in values /\ tokens[popped] = 0 /\ borrowed[popped] = 0)
        <5>1. UNCHANGED <<values, retired>>
          BY <1>7, <4>2 DEF Retire
        <5> QED  BY <5>1 DEF Inv, Base, OtherTypes
      <4> QED  BY <4>1, <4>2
    <3>4. OtherTypes'
      BY <1>7, <2>1, <3>1, <3>3, ValuesAreKeys DEF Inv, Base, OtherTypes, Retire, Points
    <3> QED  BY <3>1, <3>2, <3>4
  <2>3. Phases' /\ Reachable'
    BY <1>7, <2>1 DEF Inv, Base, OtherTypes, Phases, Reachable, Retire
  <2>4. InUseIsStored'
    <3>1. tokens[popped] = 0 => \A i \in RcIds : key[i] # popped \/ popped \notin values
      BY CountedHasTokens, ValuesAreKeys DEF Inv, Base
    <3>2. \/ values' = values
          \/ values' = values \ {popped} /\ popped \in values /\ tokens[popped] = 0 /\ borrowed[popped] = 0
      BY <1>7 DEF Retire
    <3> QED  BY <1>7, <2>1, <3>1, <3>2 DEF Inv, Base, OtherTypes, InUseIsStored, Retire
  <2>5. NoneForgotten'
    BY <1>7, <2>1, ValuesAreKeys DEF Inv, Base, OtherTypes, Phases, NoneForgotten,
       Remembered, Releasing, Retire
  <2>6. OrphansInUse'
    BY <1>7, <2>1, ValuesAreKeys DEF Inv, Base, OtherTypes, Phases, OrphansInUse,
       Remembered, Releasing, Retire
  <2> QED  BY <2>1, <2>2, <2>3, <2>4, <2>5, <2>6 DEF Inv, Base
<1>8. ASSUME EndRelease PROVE Inv'
  <2>1. IdsOK' /\ UNCHANGED ids
    BY <1>8, KeepIds DEF Inv, Base, EndRelease, TakeGarbage
  <2>2. OtherTypes' /\ DetachedHeld' /\ DroppingHasKey'
    <3>1. DetachedHeld'
      BY <1>8, <2>1, KeepDetached DEF Inv, Base, EndRelease, TakeGarbage
    <3>2. DroppingHasKey'
      BY <1>8, <2>1 DEF Inv, Base, OtherTypes, DroppingHasKey, EndRelease, TakeGarbage
    <3>3. FlagTypes'
      BY <1>8, <2>1 DEF Inv, Base, OtherTypes, FlagTypes, EndRelease, TakeGarbage
    <3>4. OtherTypes'
      BY <1>8, <2>1, <3>3 DEF Inv, Base, OtherTypes, FlagTypes, DroppingHasKey,
         EndRelease, TakeGarbage, Stages, Points
    <3> QED  BY <3>1, <3>2, <3>4
  <2>3. Phases' /\ Reachable'
    BY <1>8, <2>1 DEF Inv, Base, OtherTypes, Phases, Reachable, EndRelease, TakeGarbage
  <2>4. InUseIsStored'
    BY <1>8, <2>1 DEF Inv, Base, OtherTypes, Phases, InUseIsStored, EndRelease,
       TakeGarbage
  <2>5. NoneForgotten'
    BY <1>8, <2>1, ValuesAreKeys DEF Inv, Base, OtherTypes, Phases, NoneForgotten,
       Remembered, Releasing, EndRelease, TakeGarbage
  <2>6. OrphansInUse'
    BY <1>8, <2>1, ValuesAreKeys DEF Inv, Base, OtherTypes, Phases, OrphansInUse,
       Remembered, Releasing, EndRelease, TakeGarbage
  <2> QED  BY <2>1, <2>2, <2>3, <2>4, <2>5, <2>6 DEF Inv, Base
<1>9. ASSUME CloseSignal PROVE Inv'
  <2>1. IdsOK' /\ UNCHANGED ids
    BY <1>9, KeepIds DEF Inv, Base, CloseSignal
  <2>2. OtherTypes' /\ DetachedHeld' /\ DroppingHasKey'
    <3>1. DetachedHeld'
      BY <1>9, <2>1, KeepDetached DEF Inv, Base, CloseSignal
    <3>2. DroppingHasKey'
      BY <1>9, <2>1 DEF Inv, Base, OtherTypes, DroppingHasKey, CloseSignal
    <3>3. FlagTypes'
      BY <1>9, <2>1 DEF Inv, Base, OtherTypes, FlagTypes, CloseSignal
    <3>4. OtherTypes'
      BY <1>9, <2>1, <3>3 DEF Inv, Base, OtherTypes, FlagTypes, DroppingHasKey,
         CloseSignal, Stages, Points
    <3> QED  BY <3>1, <3>2, <3>4
  <2>3. Phases' /\ Reachable'
    BY <1>9, <2>1 DEF Inv, Base, OtherTypes, Phases, Reachable, CloseSignal
  <2>4. InUseIsStored'
    BY <1>9, <2>1 DEF Inv, Base, OtherTypes, Phases, InUseIsStored, CloseSignal
  <2>5. NoneForgotten'
    BY <1>9, <2>1, ValuesAreKeys DEF Inv, Base, OtherTypes, Phases, NoneForgotten,
       Remembered, Releasing, CloseSignal
  <2>6. OrphansInUse'
    BY <1>9, <2>1, ValuesAreKeys DEF Inv, Base, OtherTypes, Phases, OrphansInUse,
       Remembered, Releasing, CloseSignal
  <2> QED  BY <2>1, <2>2, <2>3, <2>4, <2>5, <2>6 DEF Inv, Base
<1>10. ASSUME DropDetached PROVE Inv'
  <2>1. PICK i \in RcIds : i = Newest /\ holder[i] = Detached /\ OwnerDropped(i)
    <3>1. PICK i \in RcIds : i = Newest /\ holder[i] = Detached /\ OwnerDrop(i)
      BY <1>10, NewestHeld DEF Inv, Base, OwnerDrop, Release, DropDetached
    <3> QED  BY <3>1, PlacesApart, OwnerDropEffect DEF Inv, Base
  <2>2. OtherTypes' /\ DetachedHeld' /\ DroppingHasKey'
    <3>1. DetachedHeld' /\ detached' \in Seq(RcIds)
      BY <1>10, <2>1, PopDetachedHeld DEF Inv, Base, DropDetached, OwnerDropped
    <3>2. DroppingHasKey'
      BY <1>10, <2>1 DEF Inv, Base, OtherTypes, DroppingHasKey, DropDetached,
         OwnerDropped
    <3>3. OtherTypes'
      BY <1>10, <2>1, <3>1, ValuesAreKeys DEF Inv, Base, OtherTypes, DropDetached,
         OwnerDropped, Points
    <3> QED  BY <3>1, <3>2, <3>3
  <2>3. Phases' /\ Reachable'
    BY <1>10, <2>1 DEF Inv, Base, OtherTypes, Phases, Reachable, DropDetached,
       OwnerDropped
  <2>4. InUseIsStored'
    BY <1>10, <2>1 DEF Inv, Base, OtherTypes, Phases, InUseIsStored, DropDetached,
       OwnerDropped
  <2>5. NoneForgotten'
    BY <1>10, <2>1, ValuesAreKeys DEF Inv, Base, OtherTypes, Phases, NoneForgotten,
       Remembered, Releasing, DropDetached, OwnerDropped
  <2>6. OrphansInUse'
    BY <1>10, <2>1, ValuesAreKeys DEF Inv, Base, OtherTypes, Phases, OrphansInUse,
       Remembered, Releasing, DropDetached, OwnerDropped
  <2> QED  BY <2>1, <2>2, <2>3, <2>4, <2>5, <2>6 DEF Inv, Base, OwnerDropped
<1>11. ASSUME DropStore PROVE Inv'
  <2>1. IdsOK' /\ UNCHANGED ids
    BY <1>11, KeepIds DEF Inv, Base, DropStore
  <2>2. OtherTypes' /\ DetachedHeld' /\ DroppingHasKey'
    <3>1. DetachedHeld'
      BY <1>11, <2>1, KeepDetached DEF Inv, Base, DropStore
    <3>2. DroppingHasKey'
      BY <1>11, <2>1 DEF Inv, Base, OtherTypes, DroppingHasKey, DropStore
    <3>3. FlagTypes'
      BY <1>11, <2>1 DEF Inv, Base, OtherTypes, FlagTypes, DropStore
    <3>4. OtherTypes'
      BY <1>11, <2>1, <3>3, ValuesAreKeys DEF Inv, Base, OtherTypes, FlagTypes, DroppingHasKey,
         DropStore, Stages, Points
    <3> QED  BY <3>1, <3>2, <3>4
  <2>3. Phases' /\ Reachable'
    BY <1>11, <2>1 DEF Inv, Base, OtherTypes, Phases, Reachable, DropStore
  <2>4. InUseIsStored'
    BY <1>11, <2>1 DEF Inv, Base, OtherTypes, Phases, InUseIsStored, DropStore
  <2>5. NoneForgotten'
    BY <1>11, <2>1, ValuesAreKeys DEF Inv, Base, OtherTypes, Phases, NoneForgotten,
       Remembered, Releasing, DropStore
  <2>6. OrphansInUse'
    BY <1>11, <2>1, ValuesAreKeys DEF Inv, Base, OtherTypes, Phases, OrphansInUse,
       Remembered, Releasing, DropStore
  <2> QED  BY <2>1, <2>2, <2>3, <2>4, <2>5, <2>6 DEF Inv, Base
<1>12. ASSUME DropRemaining PROVE Inv'
  <2>1. PICK i \in RcIds : i = Head(detached) /\ holder[i] = Detached /\ OwnerDropped(i)
    <3>1. PICK i \in RcIds : i = Head(detached) /\ holder[i] = Detached /\ OwnerDrop(i)
      BY <1>12, OldestHeld DEF Inv, Base, DropRemaining
    <3> QED  BY <3>1, PlacesApart, OwnerDropEffect DEF Inv, Base
  <2>2. OtherTypes' /\ DetachedHeld' /\ DroppingHasKey'
    <3>1. DetachedHeld' /\ detached' \in Seq(RcIds)
      BY <1>12, <2>1, TailDetachedHeld DEF Inv, Base, DropRemaining, OwnerDropped
    <3>2. DroppingHasKey'
      BY <1>12, <2>1 DEF Inv, Base, OtherTypes, DroppingHasKey, DropRemaining, OwnerDropped
    <3>3. OtherTypes'
      BY <1>12, <2>1, <3>1, ValuesAreKeys DEF Inv, Base, OtherTypes, DropRemaining,
         OwnerDropped, Points
    <3> QED  BY <3>1, <3>2, <3>3
  <2>3. Phases' /\ Reachable'
    BY <1>12, <2>1 DEF Inv, Base, OtherTypes, Phases, Reachable, DropRemaining,
       OwnerDropped
  <2>4. InUseIsStored'
    BY <1>12, <2>1 DEF Inv, Base, OtherTypes, Phases, InUseIsStored, DropRemaining,
       OwnerDropped
  <2>5. NoneForgotten'
    BY <1>12, <2>1, ValuesAreKeys DEF Inv, Base, OtherTypes, Phases, NoneForgotten,
       Remembered, Releasing, DropRemaining, OwnerDropped
  <2>6. OrphansInUse'
    BY <1>12, <2>1, ValuesAreKeys DEF Inv, Base, OtherTypes, Phases, OrphansInUse,
       Remembered, Releasing, DropRemaining, OwnerDropped
  <2> QED  BY <2>1, <2>2, <2>3, <2>4, <2>5, <2>6 DEF Inv, Base, OwnerDropped
<1> QED  BY <1>1, <1>2, <1>3, <1>4, <1>5, <1>6, <1>7, <1>8, <1>9, <1>10, <1>11, <1>12 DEF
   Shutdown

-------------------------------------------------------------------------------
(* The theorems.                                                             *)

\* The invariant holds at first, ...
LEMMA InitInv == Init => Inv
<1> SUFFICES ASSUME Init PROVE Inv
  OBVIOUS
<1>1. TokenTypes /\ HeldIsKeyed
  BY DEF Init, TokenTypes, HeldIsKeyed, NoKey
<1>2. TokensCounted
  <2>1. \A k \in Keys : Live(k) = {}
    BY Distinct DEF Init, Live
  <2> QED  BY <2>1, FS_EmptySet DEF Init, TokensCounted
<1>3. OtherTypes
  <2>1. last_id \in 0..MaxKeys /\ values \subseteq 1..last_id /\ detached \in Seq(RcIds)
    BY StoreAssumption DEF Init
  <2>2. /\ borrowed \in [Keys -> Nat] /\ weakq \in [Keys -> Nat] /\ sent \in Nat
        /\ step \in [Threads -> {"idle", "released", "open", "pushed"}]
        /\ rel \in [Threads -> Keys \cup {NoKey}]
    BY DEF Init
  <2>3. stage \in Stages /\ pc \in Points
    BY DEF Init, Stages, Points
  <2> QED  BY <2>1, <2>2, <2>3 DEF Init, OtherTypes
<1>4. DetachedHeld /\ DroppingHasKey /\ Phases /\ Reachable
  BY DEF Init, DetachedHeld, DroppingHasKey, Phases, Reachable
<1>5. InUseIsStored /\ NoneForgotten /\ OrphansInUse
  BY DEF Init, InUseIsStored, NoneForgotten, OrphansInUse
<1> QED  BY <1>1, <1>2, <1>3, <1>4, <1>5 DEF Inv, Base, IdsOK

\* ... a stuttering step keeps it, ...
LEMMA StutterKeepsInv == Inv /\ UNCHANGED vars => Inv'
<1> SUFFICES ASSUME Inv, UNCHANGED vars PROVE Inv'
  OBVIOUS
<1> USE DEF life, ids, calls, signal, garbage, stack, flags, remote, vars
<1>1. IdsOK'
  BY KeepIds DEF Inv, Base
<1>2. OtherTypes' /\ DetachedHeld' /\ DroppingHasKey'
  BY DEF Inv, Base, OtherTypes, DetachedHeld, DroppingHasKey
<1>3. Phases' /\ Reachable' /\ InUseIsStored'
  BY DEF Inv, Phases, Reachable, InUseIsStored
<1>4. NoneForgotten' /\ OrphansInUse'
  BY DEF Inv, NoneForgotten, OrphansInUse, Remembered, Releasing
<1> QED  BY <1>1, <1>2, <1>3, <1>4 DEF Inv, Base

\* ... and so does every step.
LEMMA NextKeepsInv == Inv /\ [Next]_vars => Inv'
BY RemoteKeepsInv, OwnerCodeKeepsInv, CommandsKeepInv, CollectKeepsInv, ShutdownKeepsInv,
   StutterKeepsInv DEF Next

\* The invariant holds for any number of threads, tokens, values and commands.
THEOREM Invariance == Spec => []Inv
BY InitInv, NextKeepsInv, PTL DEF Spec

\* Every variable keeps its type; in particular no token count ever wraps
\* below zero (fetch_sub in ShardRcId::drop).
THEOREM TypeCorrect == Spec => []TypeOK
<1>1. Inv => TypeOK
  BY DEF Inv, Base, IdsOK, TokenTypes, OtherTypes, TypeOK
<1> QED  BY <1>1, Invariance, PTL

\* The atomic counter of an entry is the number of its tokens.
THEOREM CountsAreExact == Spec => []TokensCounted
<1>1. Inv => TokensCounted
  BY DEF Inv, Base, IdsOK
<1> QED  BY <1>1, Invariance, PTL

\* No value is collected while a handle, a queued strong call or a call in
\* flight uses it.
THEOREM NoUseAfterCollection == Spec => []InUseIsStored
<1>1. Inv => InUseIsStored
  BY DEF Inv
<1> QED  BY <1>1, Invariance, PTL

\* No unused value is forgotten by the collection signal and the passes.
THEOREM NoLeak == Spec => []NoneForgotten
<1>1. Inv => NoneForgotten
  BY DEF Inv
<1> QED  BY <1>1, Invariance, PTL

\* Rechecking orphans on completions alone is enough.
THEOREM OrphansAreInUse == Spec => []OrphansInUse
<1>1. Inv => OrphansInUse
  BY DEF Inv
<1> QED  BY <1>1, Invariance, PTL

\* The driver never sleeps through a notification.
THEOREM WakeupIsNotLost == Spec => []NoLostWakeup
<1>1. Inv => NoLostWakeup
  BY DEF Inv, Reachable, NoLostWakeup
<1> QED  BY <1>1, Invariance, PTL

\* A shard that sleeps undisturbed stores no unused value: what its orphan list
\* and its queue promise together.
THEOREM SleepIsClean == Spec => []AsleepMeansClean
<1>1. Inv => AsleepMeansClean
  <2> SUFFICES ASSUME Inv, pc = "parked", ~notified, \A t \in Threads : Idle(t),
                      NEW k \in values
               PROVE  tokens[k] > 0 \/ borrowed[k] > 0
    BY DEF AsleepMeansClean
  <2>1. stage = "run" /\ batch = {} /\ ~closed
    BY DEF Inv, Phases
  <2>2. candidates = {}
    BY DEF Inv, Reachable, Idle
  <2>3. ~Remembered(k)
    BY <2>1, <2>2 DEF Remembered, Releasing, Idle
  <2>4. tokens[k] \in Nat
    BY ValuesAreKeys DEF Inv, Base, IdsOK, TokenTypes
  <2>5. CASE tokens[k] = 0
    <3>1. k \in orphans
      BY <2>1, <2>3, <2>5 DEF Inv, NoneForgotten
    <3> QED  BY <2>1, <2>3, <3>1 DEF Inv, OrphansInUse
  <2> QED  BY <2>4, <2>5
<1> QED  BY <1>1, Invariance, PTL

-------------------------------------------------------------------------------
(* The order of release: outside its two steps release_detached has nothing   *)
(* in hand, and outside a pass no allocation is waiting to be dropped.         *)
NothingInHand ==
  /\ pc # "retire" => popped = NoKey
  /\ pc \notin {"check", "drop"} => retired = {}

Ordered ==
  /\ Len(detached') < Len(detached) /\ stage # "down" =>
       detached' = Older /\ popped = NoKey /\ retired = {}
  /\ popped # NoKey /\ popped' = NoKey => retired' = {popped} \cap (values \ InUse)

\* The steps that have nothing to do with it.
LEMMA OthersKeepInHand ==
  ASSUME NothingInHand, detached \in Seq(RcIds),
         \/ \E t \in Threads : Remote(t)
         \/ RequestShutdown \/ Quit \/ OwnerCode \/ Commands
         \/ UNCHANGED vars
  PROVE  NothingInHand' /\ Ordered
<1>1. CASE \E t \in Threads : Remote(t)
  BY <1>1 DEF Remote, RemoteClone, RemoteDrop, SendStrong, SendDetach, SendWeak,
     NotifyCheck, NotifyPush, NotifyWake, NothingInHand, Ordered, garbage, stack, life
<1>2. CASE RequestShutdown \/ Quit \/ UNCHANGED vars
  BY <1>2 DEF RequestShutdown, Quit, NothingInHand, Ordered, garbage, stack, life, vars
<1>3. CASE OwnerCode
  <2>1. ASSUME NEW i \in RcIds, Bind(i) \/ DropLocal(i) \/ DetachLocal(i)
        PROVE  NothingInHand' /\ Ordered
    BY <2>1 DEF Bind, DropLocal, DetachLocal, OwnerRuns, Resume, OwnerDrop,
       NothingInHand, Ordered, garbage, stack, life
  <2>2. ASSUME NEW i \in RcIds, NEW k \in Keys, TryLocal(k, i) \/ UpgradeAfter(k, i)
        PROVE  NothingInHand' /\ Ordered
    BY <2>2 DEF TryLocal, UpgradeAfter, OwnerRuns, Resume, NothingInHand, Ordered,
       garbage, stack, life
  <2>3. ASSUME NEW i \in RcIds, NEW q \in Threads \cup Keys, HandOut(i, q)
        PROVE  NothingInHand' /\ Ordered
    BY <2>3 DEF HandOut, OwnerRuns, Resume, NothingInHand, Ordered, garbage, stack, life
  <2>4. ASSUME NEW i \in RcIds, DropAfter(i)
        PROVE  NothingInHand' /\ Ordered
    <3>1. pc = "turn" /\ pc' \in {"turn", "drop"} /\ UNCHANGED <<detached, popped>>
      BY <2>4 DEF DropAfter, Ended, stack
    <3>2. pc' = "turn" => retired' = retired
      BY <2>4, <3>1 DEF DropAfter
    <3> QED  BY <3>1, <3>2 DEF NothingInHand, Ordered
  <2> QED  BY <1>3, <2>1, <2>2, <2>3, <2>4 DEF OwnerCode
<1>4. CASE Commands
  BY <1>4 DEF Commands, StartStrong, RunDetach, FinishStrong, StartWeak, FinishWeak,
     OwnerRuns, OwnerDrop, Selecting, Completed, NothingInHand, Ordered, garbage, stack, life
<1> QED  BY <1>1, <1>2, <1>3, <1>4

\* A pass gathers and drops allocations, and leaves release_detached alone.
LEMMA CollectKeepsInHand ==
  ASSUME NothingInHand, detached \in Seq(RcIds), Collect
  PROVE  NothingInHand' /\ Ordered
<1>1. CASE CollectOrphans \/ RegisterWaker \/ PollCandidates \/ Park \/ Unpark \/ EndCheck
  BY <1>1 DEF CollectOrphans, RegisterWaker, PollCandidates, TakeGarbage, Park, Unpark,
     EndCheck, NothingInHand, Ordered, garbage, stack, life
<1>2. CASE EndDrop
  BY <1>2 DEF EndDrop, NothingInHand, Ordered, garbage, stack, life
<1>3. ASSUME NEW k \in Keys, CheckKey(k) \/ DropValue(k) \/ UnwindValue(k)
      PROVE  NothingInHand' /\ Ordered
  BY <1>3 DEF CheckKey, DropValue, UnwindValue, Unwinding, Destroying, NextToDrop,
     NothingInHand, Ordered, stack
<1>4. ASSUME NEW k \in Keys, NEW i \in RcIds, DropField(k, i) \/ DetachField(k, i)
      PROVE  NothingInHand' /\ Ordered
  BY <1>4 DEF DropField, DetachField, Destroying, NextToDrop, NothingInHand, Ordered, garbage, stack
<1> QED  BY <1>1, <1>2, <1>3, <1>4 DEF Collect

\* Nor do the other steps of the shutdown put anything in its hand.
LEMMA ShutdownKeepsInHand ==
  ASSUME NothingInHand, detached \in Seq(RcIds), OtherTypes, TokenTypes, Shutdown
  PROVE  NothingInHand' /\ Ordered
<1>1. CASE Stop \/ EndDrain \/ EndCancel \/ CloseSignal
  BY <1>1 DEF Stop, Selecting, EndDrain, EndCancel, CloseSignal,
     NothingInHand, Ordered, garbage, stack, life
<1>2. CASE PopDetached
  <2>1. popped = NoKey /\ retired = {} /\ pc' = "retire" /\ detached' = Older
    BY <1>2 DEF PopDetached, NothingInHand
  <2>2. retired' = retired
    BY <1>2 DEF PopDetached, garbage
  <2> QED  BY <2>1, <2>2 DEF NothingInHand, Ordered
<1>3. CASE Retire
  <2>1. popped' = NoKey /\ pc' = "drop" /\ detached' = detached
    BY <1>3 DEF Retire
  <2>2. retired = {} /\ popped \in Keys \cup {NoKey} /\ values \subseteq Keys
    BY <1>3, ValuesAreKeys DEF Retire, NothingInHand, OtherTypes
  <2>3. retired' = {popped} \cap (values \ InUse)
    <3>1. CASE popped \in values
      <4>1. tokens[popped] \in Nat /\ borrowed[popped] \in Nat
        BY <2>2, <3>1 DEF TokenTypes, OtherTypes
      <4>2. popped \in InUse <=> ~(tokens[popped] = 0 /\ borrowed[popped] = 0)
        BY <2>2, <3>1, <4>1 DEF InUse
      <4> QED  BY <1>3, <2>2, <3>1, <4>2 DEF Retire
    <3>2. CASE popped \notin values
      BY <1>3, <2>2, <3>2 DEF Retire
    <3> QED  BY <3>1, <3>2
  <2> QED  BY <2>1, <2>3 DEF NothingInHand, Ordered
<1>4. CASE EndRelease
  BY <1>4 DEF EndRelease, TakeGarbage, NothingInHand, Ordered, stack
<1>5. CASE DropDetached
  BY <1>5 DEF DropDetached, NothingInHand, Ordered
<1>6. CASE DropStore
  BY <1>6 DEF DropStore, NothingInHand, Ordered, stack
<1>7. ASSUME NEW i \in RcIds, CancelStrong(i)
      PROVE  NothingInHand' /\ Ordered
  BY <1>7 DEF CancelStrong, NothingInHand, Ordered, garbage, stack
<1>8. ASSUME NEW k \in Keys, CancelWeak(k)
      PROVE  NothingInHand' /\ Ordered
  BY <1>8 DEF CancelWeak, NothingInHand, Ordered, garbage, stack
<1>9. CASE DropRemaining
  BY <1>9 DEF DropRemaining, NothingInHand, Ordered, garbage
<1> QED  BY <1>1, <1>2, <1>3, <1>4, <1>5, <1>6, <1>7, <1>8, <1>9 DEF Shutdown

\* So it is at every step, ...
LEMMA InHandStep ==
  ASSUME Inv, NothingInHand, [Next]_vars
  PROVE  NothingInHand' /\ Ordered
<1>1. OtherTypes /\ detached \in Seq(RcIds) /\ TokenTypes
  BY DEF Inv, Base, IdsOK, OtherTypes
<1> QED  BY <1>1, OthersKeepInHand, CollectKeepsInHand, ShutdownKeepsInHand DEF Next

\* ... and always.
LEMMA InHandInvariant == Spec => []NothingInHand
<1>1. Init => NothingInHand
  BY DEF Init, NothingInHand
<1>2. Inv /\ NothingInHand /\ [Next]_vars => NothingInHand'
  BY InHandStep
<1> QED  BY <1>1, <1>2, Invariance, PTL DEF Spec

\* Detached values go newest first, each destroyed before the next is released:
\* release_detached, and ShardRcStore::drop where the driver never got there.
THEOREM NewestFirst == Spec => DetachedNewestFirst
<1>1. Inv /\ NothingInHand /\ [Next]_vars => [Ordered]_vars
  BY InHandStep
<1> QED  BY <1>1, InHandInvariant, Invariance, PTL DEF Spec, DetachedNewestFirst, Ordered

-------------------------------------------------------------------------------
(* The refinement: every step of the store is a step of ValueLifetime, or     *)
(* leaves what it speaks of alone.                                            *)
LifetimeStep == [Lifetime!Next]_(Lifetime!vars)

\* A step that neither stores, nor counts, nor closes is a stutter.
LEMMA StoreStutters ==
  ASSUME UNCHANGED <<last_id, values, closed, tokens, borrowed>>
  PROVE  LifetimeStep
BY DEF LifetimeStep, Lifetime!vars, InUse

\* Coming into use, or staying in use.
LEMMA StoreUses ==
  ASSUME UNCHANGED <<last_id, values, closed>>, NEW k \in Keys, k \in values \cup InUse,
         InUse' = InUse \cup {k}
  PROVE  LifetimeStep
<1>1. CASE k \in values
  BY <1>1 DEF LifetimeStep, Lifetime!Next, Lifetime!Use, Lifetime!Keys, Keys
<1>2. CASE k \in InUse
  BY <1>2 DEF LifetimeStep, Lifetime!vars
<1> QED  BY <1>1, <1>2

\* Going out of use, or staying in use.
LEMMA StoreUnuses ==
  ASSUME UNCHANGED <<last_id, values, closed>>, NEW k \in Keys,
         InUse' = InUse \/ InUse' = InUse \ {k}
  PROVE  LifetimeStep
<1>1. CASE InUse' = InUse
  BY <1>1 DEF LifetimeStep, Lifetime!vars
<1>2. CASE InUse' = InUse \ {k}
  BY <1>2 DEF LifetimeStep, Lifetime!Next, Lifetime!Unuse, Lifetime!Keys, Keys
<1> QED  BY <1>1, <1>2

\* A token more makes its key used, ...
LEMMA AcquiredInUse ==
  ASSUME OtherTypes, NEW i, NEW k \in Keys, NEW p, Acquired(i, k, p), UNCHANGED borrowed
  PROVE  InUse' = InUse \cup {k}
BY DEF Acquired, InUse

\* ... a token less makes at most its key unused, ...
LEMMA ReleasedInUse ==
  ASSUME NEW i, Released(i), UNCHANGED borrowed
  PROVE  InUse' = InUse \/ InUse' = InUse \ {key[i]}
<1>1. \A j \in Keys : j # key[i] => (j \in InUse' <=> j \in InUse)
  BY DEF Released, InUse
<1>2. key[i] \in InUse' => key[i] \in InUse
  BY DEF Released, InUse
<1>3. InUse \subseteq Keys /\ InUse' \subseteq Keys
  BY DEF InUse
<1> QED  BY <1>1, <1>2, <1>3

\* ... and a borrow less at most its own.
LEMMA ReturnedInUse ==
  ASSUME OtherTypes, NEW k \in Keys, borrowed[k] > 0, UNCHANGED tokens,
         borrowed' = [borrowed EXCEPT ![k] = @ - 1]
  PROVE  InUse' = InUse \/ InUse' = InUse \ {k}
<1>1. \A j \in Keys : borrowed'[j] = IF j = k THEN borrowed[k] - 1 ELSE borrowed[j]
  BY DEF OtherTypes
<1>2. \A j \in Keys : j # k => (j \in InUse' <=> j \in InUse)
  BY <1>1 DEF InUse
<1>3. k \in InUse
  BY DEF InUse
<1>4. InUse \subseteq Keys /\ InUse' \subseteq Keys
  BY DEF InUse
<1> QED  BY <1>2, <1>3, <1>4

\* What a drop on the owner's thread does to the store.
LEMMA OwnerDropIsLifetime ==
  ASSUME Inv, NEW i \in RcIds, holder[i] \in Places, OwnerDrop(i),
         UNCHANGED <<last_id, values, closed, borrowed>>
  PROVE  LifetimeStep
<1>1. Released(i) /\ key[i] \in Keys
  BY ReleaseEffect DEF Inv, Base, OwnerDrop, Released
<1>2. InUse' = InUse \/ InUse' = InUse \ {key[i]}
  BY <1>1, ReleasedInUse
<1> QED  BY <1>1, <1>2, StoreUnuses

\* A foreign thread only adds to the use of a value that is used, or ends a use.
LEMMA RemoteIsLifetime ==
  ASSUME Inv, (\E t \in Threads : Remote(t)) \/ RequestShutdown \/ Quit
  PROVE  LifetimeStep
<1> USE DEF life, ids, calls, flags
<1>1. ASSUME NEW t \in Threads, NEW i \in RcIds, NEW new \in RcIds, RemoteClone(t, i, new)
      PROVE  LifetimeStep
  <2>1. PICK k \in Keys : k = key[i] /\ Acquired(new, k, t)
    <3>1. PICK k \in Keys : k = key[i] /\ Acquire(new, k, t)
      BY <1>1, PlacesApart, PlacedHasKey DEF Inv, Base, RemoteClone
    <3> QED  BY <3>1, PlacesApart, AcquireEffect DEF Inv, Base
  <2>2. k \in InUse
    BY <2>1, CountedHasTokens DEF Inv, Base, InUse
  <2>3. UNCHANGED <<last_id, values, closed, borrowed>>
    BY <1>1 DEF RemoteClone
  <2>4. InUse' = InUse \cup {k}
    BY <2>1, <2>3, AcquiredInUse DEF Inv, Base
  <2> QED  BY <2>2, <2>3, <2>4, StoreUses
<1>2. ASSUME NEW t \in Threads, NEW i \in RcIds, RemoteDrop(t, i)
      PROVE  LifetimeStep
  <2>1. Released(i) /\ key[i] \in Keys /\ UNCHANGED <<last_id, values, closed, borrowed>>
    BY <1>2, PlacesApart, ReleaseEffect DEF Inv, Base, RemoteDrop, Released
  <2>2. InUse' = InUse \/ InUse' = InUse \ {key[i]}
    BY <2>1, ReleasedInUse
  <2> QED  BY <2>1, <2>2, StoreUnuses
<1>3. ASSUME NEW t \in Threads, NEW i \in RcIds, SendStrong(t, i) \/ SendDetach(t, i)
      PROVE  LifetimeStep
  BY <1>3, StoreStutters DEF SendStrong, SendDetach, Move
<1>4. ASSUME NEW t \in Threads, \/ \E k \in Keys : SendWeak(t, k)
                                \/ NotifyCheck(t) \/ NotifyPush(t) \/ NotifyWake(t)
      PROVE  LifetimeStep
  BY <1>4, StoreStutters DEF SendWeak, NotifyCheck, NotifyPush, NotifyWake
<1>5. CASE RequestShutdown \/ Quit
  BY <1>5, StoreStutters DEF RequestShutdown, Quit
<1> QED  BY <1>1, <1>2, <1>3, <1>4, <1>5 DEF Remote

\* Code on the owner's thread stores the next value, uses a stored one, or ends
\* a use.
LEMMA OwnerCodeIsLifetime ==
  ASSUME Inv, OwnerCode
  PROVE  LifetimeStep
<1> USE DEF life, ids, calls, flags
<1>1. ASSUME NEW i \in RcIds, Bind(i)
      PROVE  LifetimeStep
  <2> DEFINE k == last_id + 1
  <2>1. /\ ~closed /\ last_id < MaxKeys /\ k \in Keys
        /\ last_id' = k /\ values' = values \cup {k} /\ UNCHANGED <<closed, borrowed>>
    BY <1>1, StoreAssumption DEF Inv, Base, OtherTypes, Phases, Bind, Resume, OwnerRuns, Keys
  <2>2. Acquired(i, k, Local)
    BY <1>1, <2>1, PlacesApart, AcquireEffect DEF Inv, Base, Bind
  <2>3. InUse' = InUse \cup {k}
    BY <2>1, <2>2, AcquiredInUse DEF Inv, Base
  <2> QED  BY <2>1, <2>3 DEF LifetimeStep, Lifetime!Next, Lifetime!BindValue
<1>2. ASSUME NEW i \in RcIds, DropLocal(i)
      PROVE  LifetimeStep
  BY <1>2, PlacesApart, OwnerDropIsLifetime DEF DropLocal
<1>3. ASSUME NEW i \in RcIds, DetachLocal(i) \/ \E p \in Threads \cup Keys : HandOut(i, p)
      PROVE  LifetimeStep
  BY <1>3, StoreStutters DEF DetachLocal, HandOut, Move
<1>4. ASSUME NEW i \in RcIds, NEW k \in Keys, TryLocal(k, i)
      PROVE  LifetimeStep
  <2>1. k \in values /\ UNCHANGED <<last_id, values, closed, borrowed>>
    BY <1>4 DEF TryLocal
  <2>2. Acquired(i, k, Local)
    BY <1>4, PlacesApart, AcquireEffect DEF Inv, Base, TryLocal
  <2>3. InUse' = InUse \cup {k}
    BY <2>1, <2>2, AcquiredInUse DEF Inv, Base
  <2> QED  BY <2>1, <2>3, StoreUses
<1>5. ASSUME NEW i \in RcIds, NEW k \in Keys, UpgradeAfter(k, i)
      PROVE  LifetimeStep
  <2>1. k \in InUse /\ UNCHANGED <<last_id, values, closed, borrowed>>
    BY <1>5, CountedHasTokens DEF Inv, Base, UpgradeAfter, Kept, At, InUse
  <2>2. Acquired(i, k, Local)
    BY <1>5, PlacesApart, AcquireEffect DEF Inv, Base, UpgradeAfter
  <2>3. InUse' = InUse \cup {k}
    BY <2>1, <2>2, AcquiredInUse DEF Inv, Base
  <2> QED  BY <2>1, <2>3, StoreUses
<1>6. ASSUME NEW i \in RcIds, DropAfter(i)
      PROVE  LifetimeStep
  BY <1>6, PlacesApart, OwnerDropIsLifetime DEF DropAfter
<1> QED  BY <1>1, <1>2, <1>3, <1>4, <1>5, <1>6 DEF OwnerCode

\* So does a command from a foreign thread when the owner takes it.
LEMMA CommandsAreLifetime ==
  ASSUME Inv, Commands
  PROVE  LifetimeStep
<1> USE DEF life, ids, calls, flags
<1>1. ASSUME NEW i \in RcIds, StartStrong(i)
      PROVE  LifetimeStep
  <2>1. CASE key[i] \in values
    BY <1>1, <2>1, StoreStutters DEF StartStrong, Move
  <2>2. CASE key[i] \notin values
    BY <1>1, <2>2, PlacesApart, OwnerDropIsLifetime DEF StartStrong
  <2> QED  BY <2>1, <2>2
<1>2. ASSUME NEW i \in RcIds, RunDetach(i)
      PROVE  LifetimeStep
  BY <1>2, StoreStutters DEF RunDetach, Move
<1>3. ASSUME NEW i \in RcIds, FinishStrong(i)
      PROVE  LifetimeStep
  BY <1>3, PlacesApart, OwnerDropIsLifetime DEF FinishStrong
<1>4. ASSUME NEW k \in Keys, StartWeak(k)
      PROVE  LifetimeStep
  <2>1. CASE k \in values
    <3>1. UNCHANGED <<last_id, values, closed, tokens>> /\ borrowed' = [borrowed EXCEPT ![k] = @ + 1]
      BY <1>4, <2>1 DEF StartWeak
    <3>2. \A j \in Keys : borrowed'[j] = IF j = k THEN borrowed[k] + 1 ELSE borrowed[j]
      BY <3>1 DEF Inv, Base, OtherTypes
    <3>3. InUse' = InUse \cup {k}
      BY <3>1, <3>2 DEF Inv, Base, OtherTypes, InUse
    <3> QED  BY <2>1, <3>1, <3>3, StoreUses
  <2>2. CASE k \notin values
    BY <1>4, <2>2, StoreStutters DEF StartWeak
  <2> QED  BY <2>1, <2>2
<1>5. ASSUME NEW k \in Keys, FinishWeak(k)
      PROVE  LifetimeStep
  <2>1. InUse' = InUse \/ InUse' = InUse \ {k}
    BY <1>5, ReturnedInUse DEF Inv, Base, FinishWeak
  <2> QED  BY <1>5, <2>1, StoreUnuses DEF FinishWeak
<1> QED  BY <1>1, <1>2, <1>3, <1>4, <1>5 DEF Commands

\* An unused value is taken out of the store.
LEMMA DestroysUnused ==
  ASSUME Inv, NEW k \in Keys, k \in values, tokens[k] = 0, borrowed[k] = 0,
         values' = values \ {k}, UNCHANGED <<last_id, closed, tokens, borrowed>>
  PROVE  LifetimeStep
<1>1. k \notin InUse /\ InUse' = InUse
  BY DEF InUse
<1> QED  BY <1>1 DEF LifetimeStep, Lifetime!Next, Lifetime!Destroy, Lifetime!Keys, Keys

\* The store that ends lets go of all its values.
LEMMA StoreEmptied ==
  ASSUME closed, values' = {}, UNCHANGED <<last_id, closed, tokens, borrowed>>
  PROVE  LifetimeStep
<1>1. values' = values \ values /\ InUse' = InUse \ {}
  BY DEF InUse
<1> QED  BY <1>1 DEF LifetimeStep, Lifetime!Next, Lifetime!Evict

\* A collection destroys values that nothing uses.
LEMMA CollectIsLifetime ==
  ASSUME Inv, Collect
  PROVE  LifetimeStep
<1> USE DEF life, ids, calls, flags
<1>1. CASE CollectOrphans \/ RegisterWaker \/ PollCandidates \/ Park \/ Unpark \/ EndCheck \/ EndDrop
  BY <1>1, StoreStutters DEF CollectOrphans, RegisterWaker, PollCandidates, Park, Unpark,
     EndCheck, EndDrop
<1>2. ASSUME NEW k \in Keys, CheckKey(k)
      PROVE  LifetimeStep
  <2>1. UNCHANGED <<last_id, closed, tokens, borrowed>>
    BY <1>2 DEF CheckKey
  <2>2. \/ UNCHANGED values
        \/ k \in values /\ tokens[k] = 0 /\ borrowed[k] = 0 /\ values' = values \ {k}
    BY <1>2 DEF CheckKey
  <2> QED  BY <2>1, <2>2, StoreStutters, DestroysUnused
<1>3. ASSUME NEW k \in Keys, DropValue(k)
      PROVE  LifetimeStep
  BY <1>3, StoreStutters DEF DropValue
<1>4. ASSUME NEW k \in Keys, NEW i \in RcIds, DropField(k, i)
      PROVE  LifetimeStep
  BY <1>4, PlacesApart, OwnerDropIsLifetime DEF DropField, Destroying, NextToDrop
<1>5. ASSUME NEW k \in Keys, NEW i \in RcIds, DetachField(k, i)
      PROVE  LifetimeStep
  BY <1>5, StoreStutters DEF DetachField, Move
<1>6. ASSUME NEW k \in Keys, UnwindValue(k)
      PROVE  LifetimeStep
  <2>1. UNCHANGED <<last_id, closed, tokens, borrowed>>
    BY <1>6 DEF UnwindValue, Unwinding
  <2>2. CASE stage = "drop"
    <3>1. closed /\ values' = {}
      BY <1>6, <2>2 DEF Inv, Phases, UnwindValue, Unwinding, Destroying, NextToDrop
    <3> QED  BY <2>1, <3>1, StoreEmptied
  <2>3. CASE stage # "drop"
    BY <1>6, <2>1, <2>3, StoreStutters DEF UnwindValue
  <2> QED  BY <2>2, <2>3
<1> QED  BY <1>1, <1>2, <1>3, <1>4, <1>5, <1>6 DEF Collect

\* The shutdown closes the store once, and destroys what is left.
LEMMA ShutdownIsLifetime ==
  ASSUME Inv, Shutdown
  PROVE  LifetimeStep
<1> USE DEF life, ids, calls, flags
<1>1. CASE Stop \/ EndDrain \/ EndCancel \/ EndRelease
  BY <1>1, StoreStutters DEF Stop, EndDrain, EndCancel, EndRelease
<1>2. ASSUME NEW i \in RcIds, CancelStrong(i)
      PROVE  LifetimeStep
  <2>1. holder[i] \in Places
    BY <1>2, PlacesApart DEF CancelStrong
  <2> QED  BY <1>2, <2>1, OwnerDropIsLifetime DEF CancelStrong
<1>3. ASSUME NEW k \in Keys, CancelWeak(k)
      PROVE  LifetimeStep
  <2>1. CASE UNCHANGED borrowed
    BY <1>3, <2>1, StoreStutters DEF CancelWeak
  <2>2. CASE borrowed[k] > 0 /\ borrowed' = [borrowed EXCEPT ![k] = @ - 1]
    <3>1. InUse' = InUse \/ InUse' = InUse \ {k}
      BY <1>3, <2>2, ReturnedInUse DEF Inv, Base, CancelWeak
    <3> QED  BY <1>3, <3>1, StoreUnuses DEF CancelWeak
  <2> QED  BY <1>3, <2>1, <2>2 DEF CancelWeak
<1>4. CASE PopDetached
  <2>1. Newest \in RcIds /\ holder[Newest] \in Places
    BY <1>4, NewestHeld, PlacesApart DEF Inv, Base, PopDetached
  <2> QED  BY <1>4, <2>1, OwnerDropIsLifetime DEF PopDetached
<1>5. CASE Retire
  <2>1. CASE popped \in values /\ tokens[popped] = 0 /\ borrowed[popped] = 0
    <3>1. popped \in Keys
      BY <2>1, ValuesAreKeys DEF Inv, Base
    <3> QED  BY <1>5, <2>1, <3>1, DestroysUnused DEF Retire
  <2>2. CASE ~(popped \in values /\ tokens[popped] = 0 /\ borrowed[popped] = 0)
    BY <1>5, <2>2, StoreStutters DEF Retire
  <2> QED  BY <2>1, <2>2
<1>6. CASE CloseSignal
  <2>1. InUse' = InUse
    BY <1>6 DEF CloseSignal, InUse
  <2> QED  BY <1>6, <2>1 DEF CloseSignal, LifetimeStep, Lifetime!Next, Lifetime!BeginEnd
<1>7. CASE DropDetached
  <2> DEFINE k == key[Newest]
  <2>1. Newest \in RcIds /\ holder[Newest] \in Places
    BY <1>7, NewestHeld, PlacesApart DEF Inv, Base, DropDetached
  <2>2. /\ Released(Newest) /\ k \in Keys /\ closed /\ values' = values \ {k}
        /\ UNCHANGED <<last_id, closed, borrowed>>
    BY <1>7, <2>1, ReleaseEffect DEF Inv, Base, DropDetached, OwnerDrop, Released
  <2>3. InUse' = InUse \/ InUse' = InUse \ {k}
    BY <2>1, <2>2, ReleasedInUse
  <2> HIDE DEF k
  <2>4. CASE k \in values
    <3> DEFINE S == {k}
    <3>1. S \in SUBSET values /\ values' = values \ S /\ \E gone \in SUBSET S : InUse' = InUse \ gone
      BY <2>2, <2>3, <2>4
    <3> HIDE DEF S
    <3> QED  BY <2>2, <3>1 DEF LifetimeStep, Lifetime!Next, Lifetime!Evict
  <2>5. CASE k \notin values
    <3>1. values' = values
      BY <2>2, <2>5
    <3> QED  BY <2>2, <2>3, <3>1, StoreUnuses
  <2> QED  BY <2>4, <2>5
<1>8. CASE DropStore
  BY <1>8, StoreEmptied DEF DropStore
<1>9. CASE DropRemaining
  <2>1. Head(detached) \in RcIds /\ holder[Head(detached)] \in Places
    BY <1>9, OldestHeld, PlacesApart DEF Inv, Base, DropRemaining
  <2> QED  BY <1>9, <2>1, OwnerDropIsLifetime DEF DropRemaining
<1> QED  BY <1>1, <1>2, <1>3, <1>4, <1>5, <1>6, <1>7, <1>8, <1>9 DEF Shutdown

\* The store does what ValueLifetime promises: a value in use stays stored until
\* the store itself ends, only a stored value comes into use, and a key is never
\* bound twice.
THEOREM StoreKeepsLifetime == Spec => Lifetime!Init /\ [][Lifetime!Next]_(Lifetime!vars)
<1>1. Init => Lifetime!Init
  <2> SUFFICES ASSUME Init PROVE Lifetime!Init
    OBVIOUS
  <2>1. InUse = {}
    BY DEF Init, InUse
  <2> QED  BY <2>1 DEF Init, Lifetime!Init
<1>2. Inv /\ [Next]_vars => [Lifetime!Next]_(Lifetime!vars)
  <2> SUFFICES ASSUME Inv, [Next]_vars PROVE LifetimeStep
    BY DEF LifetimeStep
  <2>1. CASE UNCHANGED vars
    BY <2>1, StoreStutters DEF vars, life, ids, calls, flags
  <2>2. CASE Next
    BY <2>2, RemoteIsLifetime, OwnerCodeIsLifetime, CommandsAreLifetime, CollectIsLifetime,
       ShutdownIsLifetime DEF Next
  <2> QED  BY <2>1, <2>2
<1> QED  BY <1>1, <1>2, Invariance, PTL DEF Spec

-------------------------------------------------------------------------------
(* The end of the store.  Whatever a destructor that unwinds cuts short, a     *)
(* value whose fields still hold tokens is stored, about to be dropped,        *)
(* leaked, or kept by a ShardRc; and once the driver is past its calls, no     *)
(* call holds a token and only the list holds detached ones.                   *)
Owned == values \cup retired \cup leaked

FieldsOwned ==
  \A k \in Keys, i \in RcIds : holder[i] = k => k \in Owned \/ Kept(k)

ListHoldsDetached ==
  \A i \in RcIds : holder[i] = Detached => \E n \in 1..Len(detached) : detached[n] = i

CallPlaces == {Queued, Flight, Detaching}
Late == stage \in {"release", "final", "drop", "down"}

NoCallHolds == ~open /\ \A i \in RcIds : holder[i] \notin CallPlaces

Leftover ==
  /\ FieldsOwned
  /\ ListHoldsDetached
  /\ Late => NoCallHolds
  /\ stage = "down" => values = {}

\* Only token i changes hands.
OnlyToken(i) == \A j \in RcIds \ {i} : holder'[j] = holder[j] /\ key'[j] = key[j]

\* A token that leaves a local reference leaves a value that is still owned, and
\* one that goes into a field goes into such a value.
LEMMA TokenKeepsFields ==
  ASSUME FieldsOwned, NEW i \in RcIds, OnlyToken(i), Owned \subseteq Owned',
         holder[i] = Local => key[i] \in Owned',
         holder'[i] \in Keys => holder'[i] \in Owned'
  PROVE  FieldsOwned'
<1> SUFFICES ASSUME NEW k \in Keys, NEW j \in RcIds, holder'[j] = k, k \notin Owned'
             PROVE  Kept(k)'
  BY DEF FieldsOwned
<1>1. j # i /\ holder[j] = k
  BY DEF OnlyToken
<1>2. PICK l \in RcIds : holder[l] = Local /\ key[l] = k
  BY <1>1 DEF FieldsOwned, Kept, At
<1>3. l # i
  BY <1>1, <1>2
<1> QED  BY <1>1, <1>2, <1>3 DEF OnlyToken, Kept, At

\* A step of one token that leaves the list alone, ...
LEMMA TokenKeepsLeftover ==
  ASSUME Leftover, NEW i \in RcIds, OnlyToken(i), UNCHANGED <<detached, stage, open>>,
         Owned \subseteq Owned', stage = "down" => values' = values,
         holder[i] = Local => key[i] \in Owned',
         holder'[i] \in Keys => holder'[i] \in Owned',
         holder'[i] # Detached,
         holder'[i] \in CallPlaces => ~Late
  PROVE  Leftover'
<1>1. FieldsOwned'
  BY TokenKeepsFields DEF Leftover
<1>2. ListHoldsDetached'
  BY DEF Leftover, ListHoldsDetached, OnlyToken
<1>3. Late' => NoCallHolds'
  BY DEF Leftover, Late, NoCallHolds, OnlyToken, CallPlaces
<1> QED  BY <1>1, <1>2, <1>3 DEF Leftover

\* ... one that pushes the token on the list, ...
LEMMA PushKeepsLeftover ==
  ASSUME Leftover, detached \in Seq(RcIds), NEW i \in RcIds, OnlyToken(i),
         UNCHANGED <<stage, open>>, detached' = Append(detached, i),
         Owned \subseteq Owned', stage = "down" => values' = values,
         holder[i] = Local => key[i] \in Owned',
         holder'[i] = Detached
  PROVE  Leftover'
<1>1. Detached \notin Keys \cup CallPlaces
  BY StoreAssumption DEF CallPlaces
<1>2. FieldsOwned'
  BY <1>1, TokenKeepsFields DEF Leftover
<1>3. /\ Len(detached') = Len(detached) + 1 /\ Len(detached) \in Nat
      /\ detached'[Len(detached) + 1] = i
      /\ \A n \in 1..Len(detached) : detached'[n] = detached[n] /\ n \in 1..Len(detached')
  OBVIOUS
<1>4. Len(detached) + 1 \in 1..Len(detached')
  BY <1>3
<1>5. ListHoldsDetached'
  BY <1>3, <1>4 DEF Leftover, ListHoldsDetached, OnlyToken
<1>6. Late' => NoCallHolds'
  BY <1>1 DEF Leftover, Late, NoCallHolds, OnlyToken
<1> QED  BY <1>2, <1>5, <1>6 DEF Leftover

\* ... one that drops a token off the list, ...
LEMMA PopKeepsLeftover ==
  ASSUME Leftover, NEW i \in RcIds, OnlyToken(i), holder[i] = Detached,
         holder'[i] = Nobody, UNCHANGED <<stage, open>>,
         \A n \in 1..Len(detached) :
            detached[n] = i \/ \E m \in 1..Len(detached') : detached'[m] = detached[n],
         Owned \subseteq Owned', stage = "down" => values' = values
  PROVE  Leftover'
<1>1. /\ Detached # Local /\ Nobody # Detached /\ Nobody \notin Keys \cup CallPlaces
  BY StoreAssumption DEF CallPlaces
<1>2. FieldsOwned'
  BY <1>1, TokenKeepsFields DEF Leftover
<1>3. ListHoldsDetached'
  BY <1>1 DEF Leftover, ListHoldsDetached, OnlyToken
<1>4. Late' => NoCallHolds'
  BY <1>1 DEF Leftover, Late, NoCallHolds, OnlyToken
<1> QED  BY <1>2, <1>3, <1>4 DEF Leftover

\* ... and one that moves no token.
LEMMA QuietKeepsLeftover ==
  ASSUME Leftover, UNCHANGED <<holder, key, detached>>, open' => open,
         Owned \subseteq Owned',
         Late' => Late \/ NoCallHolds',
         stage' = "down" => values' = {}
  PROVE  Leftover'
<1>1. FieldsOwned'
  BY DEF Leftover, FieldsOwned, Kept, At
<1>2. ListHoldsDetached'
  BY DEF Leftover, ListHoldsDetached
<1>3. Late' => NoCallHolds'
  BY DEF Leftover, NoCallHolds
<1> QED  BY <1>1, <1>2, <1>3 DEF Leftover

\* What the newest and the oldest token leave in the list.
LEMMA OlderRest ==
  ASSUME OtherTypes, detached # <<>>, detached' = Older
  PROVE  \A n \in 1..Len(detached) :
            detached[n] = Newest \/ \E m \in 1..Len(detached') : detached'[m] = detached[n]
<1>1. Len(detached) \in Nat /\ Len(detached) > 0
  BY DEF OtherTypes
<1>2. /\ Len(detached') = Len(detached) - 1
      /\ \A n \in 1..Len(detached') : detached'[n] = detached[n]
  BY <1>1, FrontOf DEF OtherTypes, Older
<1>3. \A n \in 1..Len(detached) : n = Len(detached) \/ n \in 1..Len(detached')
  BY <1>1, <1>2
<1> QED  BY <1>2, <1>3 DEF Newest

LEMMA TailRest ==
  ASSUME OtherTypes, detached # <<>>, detached' = Tail(detached)
  PROVE  \A n \in 1..Len(detached) :
            detached[n] = Head(detached) \/ \E m \in 1..Len(detached') : detached'[m] = detached[n]
<1>1. /\ Len(detached) \in Nat /\ Len(detached') = Len(detached) - 1
      /\ Head(detached) = detached[1]
  BY DEF OtherTypes
<1>2. \A m \in 1..Len(detached') : detached'[m] = detached[m + 1]
  BY DEF OtherTypes
<1>3. ASSUME NEW n \in 1..Len(detached), n # 1
      PROVE  \E m \in 1..Len(detached') : detached'[m] = detached[n]
  <2>1. n - 1 \in 1..Len(detached') /\ n - 1 + 1 = n
    BY <1>1, <1>3
  <2>2. detached'[n - 1] = detached[n - 1 + 1]
    BY <1>2, <2>1
  <2> QED  BY <2>1, <2>2
<1> QED  BY <1>1, <1>3

\* What the four things that can happen to a token mean for the others.
LEMMA OnlyThisToken ==
  ASSUME NEW i
  PROVE  /\ \A k, p : Acquired(i, k, p) => OnlyToken(i)
         /\ \A p : Moved(i, p) => OnlyToken(i)
         /\ Released(i) => OnlyToken(i)
         /\ OwnerDropped(i) => OnlyToken(i)
BY DEF OnlyToken, Acquired, Moved, Released, OwnerDropped

\* Places that are no field, no list, and no call.
LEMMA OtherPlaces ==
  /\ \A t \in Threads : t \notin Keys \cup {Local, Detached} \cup CallPlaces
  /\ Local \notin Keys \cup {Detached} \cup CallPlaces
  /\ Nobody \notin Keys \cup {Local, Detached} \cup CallPlaces
  /\ \A k \in Keys : k \notin {Local, Detached} \cup CallPlaces
  /\ CallPlaces \cap (Keys \cup {Local, Detached}) = {}
  /\ Detached # Local
BY StoreAssumption DEF CallPlaces

\* A step of another thread keeps what is said of the end.
LEMMA RemoteKeepsLeftover ==
  ASSUME Inv, Leftover, (\E t \in Threads : Remote(t)) \/ RequestShutdown \/ Quit
  PROVE  Leftover'
<1> USE DEF life, ids, calls, garbage, stack, flags
<1>1. ASSUME NEW t \in Threads, NEW i \in RcIds, NEW new \in RcIds, RemoteClone(t, i, new)
      PROVE  Leftover'
  <2>1. PICK k \in Keys : k = key[i] /\ Acquired(new, k, t)
    <3>1. PICK k \in Keys : k = key[i] /\ Acquire(new, k, t)
      BY <1>1, PlacesApart, PlacedHasKey DEF Inv, Base, Acquire, RemoteClone, Idle
    <3> QED  BY <3>1, PlacesApart, AcquireEffect DEF Inv, Base
  <2>2. OnlyToken(new) /\ holder[new] = Nobody /\ holder'[new] = t
    <3>1. OnlyToken(new)
      BY <2>1, OnlyThisToken
    <3> QED  BY <2>1, <3>1 DEF Acquired
  <2>3. UNCHANGED <<values, retired, leaked, detached, stage, open>>
    BY <1>1 DEF RemoteClone
  <2> QED  BY <2>2, <2>3, OtherPlaces, TokenKeepsLeftover DEF Owned
<1>2. ASSUME NEW t \in Threads, NEW i \in RcIds, RemoteDrop(t, i)
      PROVE  Leftover'
  <2>1. Released(i)
    BY <1>2, PlacesApart, ReleaseEffect DEF Inv, Base, RemoteDrop
  <2>2. OnlyToken(i) /\ holder[i] = t /\ holder'[i] = Nobody
    BY <1>2, <2>1, OnlyThisToken DEF Released, RemoteDrop
  <2>3. UNCHANGED <<values, retired, leaked, detached, stage, open>>
    BY <1>2 DEF RemoteDrop
  <2> QED  BY <2>2, <2>3, OtherPlaces, TokenKeepsLeftover DEF Owned
<1>3. ASSUME NEW t \in Threads, NEW i \in RcIds, SendStrong(t, i) \/ SendDetach(t, i)
      PROVE  Leftover'
  <2>1. holder[i] = t /\ open /\ \E p \in {Queued, Detaching} : Move(i, p)
    BY <1>3 DEF SendStrong, SendDetach, Admit
  <2>2. PICK p \in {Queued, Detaching} : Moved(i, p)
    BY <2>1, PlacesApart, MoveEffect DEF Inv, Base
  <2>3. OnlyToken(i) /\ holder'[i] = p /\ p \in CallPlaces
    BY <2>2, OnlyThisToken DEF Moved, CallPlaces
  <2>4. UNCHANGED <<values, retired, leaked, detached, stage, open>>
    BY <1>3 DEF SendStrong, SendDetach
  <2>5. ~Late
    BY <2>1 DEF Leftover, NoCallHolds
  <2> QED  BY <2>1, <2>3, <2>4, <2>5, OtherPlaces, TokenKeepsLeftover DEF Owned
<1>4. ASSUME NEW t \in Threads, \/ \E k \in Keys : SendWeak(t, k)
                                \/ NotifyCheck(t) \/ NotifyPush(t) \/ NotifyWake(t)
      PROVE  Leftover'
  <2>1. UNCHANGED <<holder, key, values, retired, leaked, detached, stage, open>>
    BY <1>4 DEF SendWeak, NotifyCheck, NotifyPush, NotifyWake
  <2> QED  BY <2>1, QuietKeepsLeftover DEF Owned, Late, Leftover
<1>5. CASE RequestShutdown \/ Quit
  <2>1. /\ UNCHANGED <<holder, key, values, retired, leaked, detached>>
        /\ open' => open
        /\ stage' = stage \/ stage' = "cancel"
    BY <1>5 DEF RequestShutdown, Quit
  <2> QED  BY <2>1, QuietKeepsLeftover DEF Owned, Late, Leftover
<1> QED  BY <1>1, <1>2, <1>3, <1>4, <1>5 DEF Remote

\* Before the store closes, the value of a local reference is stored.
LEMMA LocalIsOwned ==
  ASSUME Inv, NEW i \in RcIds, holder[i] = Local, ~closed
  PROVE  key[i] \in Owned
BY PlacesApart, PlacedHasKey, Distinct DEF Inv, Base, InUseIsStored, Owned

\* So does code on the owner's thread, ...
LEMMA OwnerCodeKeepsLeftover ==
  ASSUME Inv, NothingInHand, Leftover, OwnerCode
  PROVE  Leftover'
<1> USE DEF life, ids, calls, garbage, stack, flags
<1>1. ASSUME NEW i \in RcIds, Bind(i)
      PROVE  Leftover'
  <2>1. last_id + 1 \in Keys
    BY <1>1, StoreAssumption DEF Inv, Base, OtherTypes, Keys, Bind
  <2>2. Acquired(i, last_id + 1, Local)
    BY <1>1, <2>1, PlacesApart, AcquireEffect DEF Inv, Base, Bind
  <2>3. OnlyToken(i) /\ holder[i] = Nobody /\ holder'[i] = Local
    BY <2>2, OnlyThisToken DEF Acquired
  <2>4. /\ values \subseteq values' /\ stage # "down"
        /\ UNCHANGED <<retired, leaked, detached, stage, open>>
    BY <1>1 DEF Bind, Resume, OwnerRuns
  <2> QED  BY <2>3, <2>4, OtherPlaces, TokenKeepsLeftover DEF Owned
<1>2. ASSUME NEW i \in RcIds, NEW k \in Keys, TryLocal(k, i) \/ UpgradeAfter(k, i)
      PROVE  Leftover'
  <2>1. Acquired(i, k, Local)
    BY <1>2, PlacesApart, AcquireEffect DEF Inv, Base, TryLocal, UpgradeAfter
  <2>2. OnlyToken(i) /\ holder[i] = Nobody /\ holder'[i] = Local
    BY <2>1, OnlyThisToken DEF Acquired
  <2>3. UNCHANGED <<values, retired, leaked, detached, stage, open>>
    BY <1>2 DEF TryLocal, UpgradeAfter
  <2> QED  BY <2>2, <2>3, OtherPlaces, TokenKeepsLeftover DEF Owned
<1>3. ASSUME NEW i \in RcIds, DropLocal(i)
      PROVE  Leftover'
  <2>1. holder[i] = Local /\ ~closed
    BY <1>3 DEF Inv, Phases, DropLocal, Resume, OwnerRuns
  <2>2. OwnerDropped(i)
    BY <1>3, <2>1, PlacesApart, OwnerDropEffect DEF Inv, Base, DropLocal
  <2>3. OnlyToken(i) /\ holder'[i] = Nobody
    BY <2>2, OnlyThisToken DEF OwnerDropped
  <2>4. UNCHANGED <<values, retired, leaked, detached, stage, open>>
    BY <1>3 DEF DropLocal
  <2>5. key[i] \in Owned'
    BY <2>1, <2>4, LocalIsOwned DEF Owned
  <2> QED  BY <2>1, <2>3, <2>4, <2>5, OtherPlaces, TokenKeepsLeftover DEF Owned
<1>4. ASSUME NEW i \in RcIds, NEW p \in Threads \cup Keys, HandOut(i, p)
      PROVE  Leftover'
  <2>1. holder[i] = Local /\ ~closed /\ p \in Threads \cup values
    BY <1>4 DEF Inv, Phases, HandOut, Resume, OwnerRuns
  <2>2. Moved(i, p)
    BY <1>4, <2>1, PlacesApart, MoveEffect DEF Inv, Base, HandOut
  <2>3. OnlyToken(i) /\ holder'[i] = p
    BY <2>2, OnlyThisToken DEF Moved
  <2>4. UNCHANGED <<values, retired, leaked, detached, stage, open>>
    BY <1>4 DEF HandOut
  <2>5. key[i] \in Owned' /\ (p \in Keys => p \in Owned')
    BY <2>1, <2>4, LocalIsOwned, OtherPlaces DEF Owned
  <2> QED  BY <2>3, <2>4, <2>5, OtherPlaces, TokenKeepsLeftover DEF Owned
<1>5. ASSUME NEW i \in RcIds, DetachLocal(i)
      PROVE  Leftover'
  <2>1. holder[i] = Local /\ ~closed /\ detached \in Seq(RcIds)
    BY <1>5 DEF Inv, Base, OtherTypes, Phases, DetachLocal, Resume, OwnerRuns
  <2>2. Moved(i, Detached)
    BY <1>5, <2>1, PlacesApart, MoveEffect DEF Inv, Base, DetachLocal
  <2>3. OnlyToken(i) /\ holder'[i] = Detached
    BY <2>2, OnlyThisToken DEF Moved
  <2>4. UNCHANGED <<values, retired, leaked, stage, open>> /\ detached' = Append(detached, i)
    BY <1>5 DEF DetachLocal
  <2>5. key[i] \in Owned'
    BY <2>1, <2>4, LocalIsOwned DEF Owned
  <2> QED  BY <2>1, <2>3, <2>4, <2>5, PushKeepsLeftover DEF Owned
<1>6. ASSUME NEW i \in RcIds, DropAfter(i)
      PROVE  Leftover'
  <2>1. /\ holder[i] = Local /\ retired = {} /\ values = {} /\ stage = "down"
        /\ UNCHANGED <<values, leaked, detached, stage, open>>
    BY <1>6 DEF DropAfter, Ended, NothingInHand, Leftover
  <2>2. OwnerDropped(i)
    BY <1>6, <2>1, PlacesApart, OwnerDropEffect DEF Inv, Base, DropAfter
  <2>3. OnlyToken(i) /\ holder'[i] = Nobody
    BY <2>2, OnlyThisToken DEF OwnerDropped
  <2>4. CASE \E j \in At(Local) \ {i} : key[j] = key[i]
    <3>1. PICK j \in RcIds : j # i /\ holder[j] = Local /\ key[j] = key[i]
      BY <2>4 DEF At
    <3>2. \A k \in Keys : Kept(k) => Kept(k)'
      BY <2>3, <3>1 DEF Kept, At, OnlyToken
    <3>3. Owned' = Owned
      BY <1>6, <2>1, <2>4 DEF DropAfter, Owned
    <3>4. FieldsOwned'
      BY <2>3, <3>2, <3>3, OtherPlaces DEF Leftover, FieldsOwned, OnlyToken
    <3>5. ListHoldsDetached' /\ (Late' => NoCallHolds')
      BY <2>1, <2>3, OtherPlaces DEF Leftover, ListHoldsDetached, OnlyToken, Late, NoCallHolds
    <3> QED  BY <2>1, <3>4, <3>5 DEF Leftover
  <2>5. CASE ~\E j \in At(Local) \ {i} : key[j] = key[i]
    <3>1. retired' = {key[i]} \ leaked
      BY <1>6, <2>5 DEF DropAfter
    <3>2. key[i] \in Owned' /\ Owned \subseteq Owned'
      BY <2>1, <3>1 DEF Owned
    <3> QED  BY <2>1, <2>3, <3>2, OtherPlaces, TokenKeepsLeftover
  <2> QED  BY <2>4, <2>5
<1> QED  BY <1>1, <1>2, <1>3, <1>4, <1>5, <1>6 DEF OwnerCode

\* ... a command, ...
LEMMA CommandsKeepLeftover ==
  ASSUME Inv, Leftover, Commands
  PROVE  Leftover'
<1> USE DEF life, ids, calls, garbage, stack, flags
<1>1. ASSUME NEW i \in RcIds, StartStrong(i)
      PROVE  Leftover'
  <2>1. /\ holder[i] = Queued /\ ~Late
        /\ UNCHANGED <<values, retired, leaked, detached, stage, open>>
    BY <1>1 DEF StartStrong, Selecting, Late
  <2>2. Moved(i, Flight) \/ OwnerDropped(i)
    BY <1>1, <2>1, PlacesApart, MoveEffect, OwnerDropEffect DEF Inv, Base, StartStrong
  <2>3. OnlyToken(i) /\ holder'[i] \in {Flight, Nobody}
    BY <2>2, OnlyThisToken DEF Moved, OwnerDropped
  <2>4. Queued \in CallPlaces /\ Flight \in CallPlaces
    BY DEF CallPlaces
  <2> QED  BY <2>1, <2>3, <2>4, OtherPlaces, TokenKeepsLeftover DEF Owned
<1>2. ASSUME NEW i \in RcIds, RunDetach(i)
      PROVE  Leftover'
  <2>1. /\ holder[i] = Detaching /\ detached \in Seq(RcIds)
        /\ UNCHANGED <<values, retired, leaked, stage, open>> /\ detached' = Append(detached, i)
    BY <1>2 DEF Inv, Base, OtherTypes, RunDetach
  <2>2. Moved(i, Detached)
    BY <1>2, <2>1, PlacesApart, MoveEffect DEF Inv, Base, RunDetach
  <2>3. OnlyToken(i) /\ holder'[i] = Detached
    BY <2>2, OnlyThisToken DEF Moved
  <2>4. Detaching \in CallPlaces
    BY DEF CallPlaces
  <2> QED  BY <2>1, <2>3, <2>4, OtherPlaces, PushKeepsLeftover DEF Owned
<1>3. ASSUME NEW i \in RcIds, FinishStrong(i)
      PROVE  Leftover'
  <2>1. /\ holder[i] = Flight
        /\ UNCHANGED <<values, retired, leaked, detached, stage, open>>
    BY <1>3 DEF FinishStrong
  <2>2. OwnerDropped(i)
    BY <1>3, <2>1, PlacesApart, OwnerDropEffect DEF Inv, Base, FinishStrong
  <2>3. OnlyToken(i) /\ holder'[i] = Nobody
    BY <2>2, OnlyThisToken DEF OwnerDropped
  <2>4. Flight \in CallPlaces
    BY DEF CallPlaces
  <2> QED  BY <2>1, <2>3, <2>4, OtherPlaces, TokenKeepsLeftover DEF Owned
<1>4. ASSUME NEW k \in Keys, StartWeak(k) \/ FinishWeak(k)
      PROVE  Leftover'
  <2>1. UNCHANGED <<holder, key, values, retired, leaked, detached, stage, open>>
    BY <1>4 DEF StartWeak, FinishWeak
  <2> QED  BY <2>1, QuietKeepsLeftover DEF Owned, Late, Leftover
<1> QED  BY <1>1, <1>2, <1>3, <1>4 DEF Commands

\* ... a pass, even one whose destructors unwind, ...
LEMMA CollectKeepsLeftover ==
  ASSUME Inv, Leftover, Collect
  PROVE  Leftover'
<1> USE DEF life, ids, calls, garbage, stack, flags
<1>1. CASE CollectOrphans \/ RegisterWaker \/ PollCandidates \/ Park \/ Unpark \/ EndCheck
  <2>1. UNCHANGED <<holder, key, values, retired, leaked, detached, stage, open>>
    BY <1>1 DEF CollectOrphans, RegisterWaker, PollCandidates, TakeGarbage, Park, Unpark, EndCheck
  <2> QED  BY <2>1, QuietKeepsLeftover DEF Owned, Late, Leftover
<1>2. ASSUME NEW k \in Keys, CheckKey(k)
      PROVE  Leftover'
  <2>1. UNCHANGED <<holder, key, leaked, detached, stage, open>>
    BY <1>2 DEF CheckKey
  <2>2. values' \subseteq values /\ values \cup retired \subseteq values' \cup retired'
    BY <1>2 DEF CheckKey
  <2> QED  BY <2>1, <2>2, QuietKeepsLeftover DEF Owned, Late, Leftover
<1>3. CASE EndDrop
  <2>1. /\ UNCHANGED <<holder, key, values, retired, leaked, detached, open>>
        /\ stage' = stage \/ stage' = "cancel" \/ (stage = "final" /\ stage' = "drop")
    BY <1>3 DEF EndDrop
  <2> QED  BY <2>1, QuietKeepsLeftover DEF Owned, Late, Leftover
<1>4. ASSUME NEW k \in Keys, NEW i \in RcIds, DropField(k, i)
      PROVE  Leftover'
  <2>1. holder[i] = k /\ UNCHANGED <<values, retired, leaked, detached, stage, open>>
    BY <1>4 DEF DropField
  <2>2. OwnerDropped(i)
    BY <1>4, <2>1, PlacesApart, OwnerDropEffect DEF Inv, Base, DropField
  <2>3. OnlyToken(i) /\ holder'[i] = Nobody
    BY <2>2, OnlyThisToken DEF OwnerDropped
  <2> QED  BY <2>1, <2>3, OtherPlaces, TokenKeepsLeftover DEF Owned
<1>5. ASSUME NEW k \in Keys, NEW i \in RcIds, DetachField(k, i)
      PROVE  Leftover'
  <2>1. /\ holder[i] = k /\ detached \in Seq(RcIds)
        /\ UNCHANGED <<values, retired, leaked, stage, open>> /\ detached' = Append(detached, i)
    BY <1>5 DEF Inv, Base, OtherTypes, DetachField
  <2>2. Moved(i, Detached)
    BY <1>5, <2>1, PlacesApart, MoveEffect DEF Inv, Base, DetachField
  <2>3. OnlyToken(i) /\ holder'[i] = Detached
    BY <2>2, OnlyThisToken DEF Moved
  <2> QED  BY <2>1, <2>3, OtherPlaces, PushKeepsLeftover DEF Owned
<1>6. ASSUME NEW k \in Keys, DropValue(k) \/ UnwindValue(k)
      PROVE  Leftover'
  <2>1. /\ UNCHANGED <<holder, key, detached, open>>
        /\ At(k) = {} \/ Kept(k)
        /\ Owned \ {k} \subseteq Owned'
    BY <1>6 DEF DropValue, UnwindValue, Unwinding, Owned
  <2>2. FieldsOwned'
    BY <2>1 DEF Leftover, FieldsOwned, Kept, At
  <2>3. Late' => Late
    BY <1>6 DEF DropValue, UnwindValue, Late
  <2>4. stage' = "down" => values' = {}
    BY <1>6 DEF DropValue, UnwindValue, Leftover
  <2>5. ListHoldsDetached' /\ (Late' => NoCallHolds')
    BY <2>1, <2>3 DEF Leftover, ListHoldsDetached, NoCallHolds
  <2> QED  BY <2>2, <2>4, <2>5 DEF Leftover
<1> QED  BY <1>1, <1>2, <1>3, <1>4, <1>5, <1>6 DEF Collect

\* ... and the shutdown.
LEMMA ShutdownKeepsLeftover ==
  ASSUME Inv, NothingInHand, Leftover, Shutdown
  PROVE  Leftover'
<1> USE DEF life, ids, calls, garbage, stack, flags
<1>1. CASE Stop \/ EndDrain \/ CloseSignal \/ EndRelease
  <2>1. /\ UNCHANGED <<holder, key, values, retired, leaked, detached, open>>
        /\ stage' \in {stage, "drain", "cancel"} \/ (stage = "release" /\ stage' = "final")
    BY <1>1 DEF Stop, EndDrain, CloseSignal, EndRelease, TakeGarbage
  <2> QED  BY <2>1, QuietKeepsLeftover DEF Owned, Late, Leftover
<1>2. CASE EndCancel
  <2>1. /\ UNCHANGED <<holder, key, values, retired, leaked, detached>>
        /\ open' => open
        /\ stage' \in {stage, "drop", "release"}
    BY <1>2 DEF EndCancel
  <2>2. CASE open
    BY <1>2, <2>1, <2>2, QuietKeepsLeftover DEF EndCancel, Owned, Late, Leftover
  <2>3. CASE ~open
    <3>1. \A i \in RcIds : holder[i] \notin CallPlaces
      BY <1>2, <2>3 DEF EndCancel, NothingInFlight, NothingQueued, At, CallPlaces
    <3>2. NoCallHolds'
      BY <2>1, <2>3, <3>1 DEF NoCallHolds
    <3> QED  BY <2>1, <3>2, QuietKeepsLeftover DEF Owned, Leftover
  <2> QED  BY <2>2, <2>3
<1>3. CASE PopDetached
  <2>1. /\ Newest \in RcIds /\ holder[Newest] = Detached
        /\ OtherTypes /\ detached # <<>> /\ detached' = Older
        /\ UNCHANGED <<values, retired, leaked, stage, open>>
    BY <1>3, NewestHeld DEF Inv, Base, PopDetached
  <2>2. OwnerDropped(Newest)
    BY <1>3, <2>1, PlacesApart, OwnerDropEffect DEF Inv, Base, PopDetached
  <2>3. OnlyToken(Newest) /\ holder'[Newest] = Nobody
    BY <2>1, <2>2, OnlyThisToken DEF OwnerDropped
  <2> QED  BY <2>1, <2>3, OlderRest, PopKeepsLeftover DEF Owned
<1>4. CASE DropDetached
  <2>1. /\ Newest \in RcIds /\ holder[Newest] = Detached
        /\ OtherTypes /\ detached # <<>> /\ detached' = Older
        /\ stage # "down" /\ UNCHANGED <<leaked, stage, open>>
    BY <1>4, NewestHeld DEF Inv, Base, DropDetached
  <2>2. OwnerDropped(Newest)
    BY <1>4, <2>1, PlacesApart, OwnerDropEffect DEF Inv, Base, DropDetached
  <2>3. OnlyToken(Newest) /\ holder'[Newest] = Nobody
    BY <2>1, <2>2, OnlyThisToken DEF OwnerDropped
  <2>4. Owned \subseteq Owned'
    BY <1>4, <2>1 DEF DropDetached, NothingInHand, Owned
  <2> QED  BY <2>1, <2>3, <2>4, OlderRest, PopKeepsLeftover
<1>5. CASE DropRemaining
  <2>1. /\ Head(detached) \in RcIds /\ holder[Head(detached)] = Detached
        /\ OtherTypes /\ detached # <<>> /\ detached' = Tail(detached)
        /\ UNCHANGED <<values, retired, leaked, stage, open>>
    BY <1>5, OldestHeld DEF Inv, Base, DropRemaining
  <2>2. OwnerDropped(Head(detached))
    BY <1>5, <2>1, PlacesApart, OwnerDropEffect DEF Inv, Base, DropRemaining
  <2>3. OnlyToken(Head(detached)) /\ holder'[Head(detached)] = Nobody
    BY <2>1, <2>2, OnlyThisToken DEF OwnerDropped
  <2> QED  BY <2>1, <2>3, TailRest, PopKeepsLeftover DEF Owned
<1>6. CASE Retire
  <2>1. UNCHANGED <<holder, key, leaked, detached, stage, open>> /\ retired = {}
    BY <1>6 DEF Retire, NothingInHand
  <2>2. values' \subseteq values /\ values \subseteq values' \cup retired'
    BY <1>6 DEF Retire
  <2> QED  BY <2>1, <2>2, QuietKeepsLeftover DEF Owned, Late, Leftover
<1>7. CASE DropStore
  <2>1. /\ UNCHANGED <<holder, key, leaked, detached, open>> /\ retired = {}
        /\ retired' = values /\ values' = {} /\ Late
    BY <1>7 DEF DropStore, NothingInHand, Late
  <2> QED  BY <2>1, QuietKeepsLeftover DEF Owned
<1>8. ASSUME NEW i \in RcIds, CancelStrong(i)
      PROVE  Leftover'
  <2>1. /\ holder[i] \in CallPlaces
        /\ UNCHANGED <<values, retired, leaked, detached, stage, open>>
    BY <1>8 DEF CancelStrong, CallPlaces
  <2>2. OwnerDropped(i)
    BY <1>8, <2>1, PlacesApart, OwnerDropEffect DEF Inv, Base, CancelStrong, CallPlaces
  <2>3. OnlyToken(i) /\ holder'[i] = Nobody
    BY <2>2, OnlyThisToken DEF OwnerDropped
  <2> QED  BY <2>1, <2>3, OtherPlaces, TokenKeepsLeftover DEF Owned
<1>9. ASSUME NEW k \in Keys, CancelWeak(k)
      PROVE  Leftover'
  <2>1. UNCHANGED <<holder, key, values, retired, leaked, detached, stage, open>>
    BY <1>9 DEF CancelWeak
  <2> QED  BY <2>1, QuietKeepsLeftover DEF Owned, Late, Leftover
<1> QED  BY <1>1, <1>2, <1>3, <1>4, <1>5, <1>6, <1>7, <1>8, <1>9 DEF Shutdown

\* When the store has come to its end nothing of it is left, wherever destructors
\* unwound on the way, except what a caller's ShardRc keeps and what a destructor
\* unwinding out of the map leaked (ContextGuard::drop, ShardRcStore::drop).
THEOREM EndLeavesNothing == Spec => []EndIsComplete
<1>1. Init => Leftover
  <2> SUFFICES ASSUME Init PROVE Leftover
    OBVIOUS
  <2>1. \A i \in RcIds : holder[i] = Nobody
    BY DEF Init
  <2> QED  BY <2>1, OtherPlaces DEF Init, Leftover, FieldsOwned, ListHoldsDetached, Late
<1>2. Inv /\ NothingInHand /\ Leftover /\ [Next]_vars => Leftover'
  <2> SUFFICES ASSUME Inv, NothingInHand, Leftover, [Next]_vars PROVE Leftover'
    OBVIOUS
  <2>1. CASE UNCHANGED vars
    <3>1. UNCHANGED <<holder, key, values, retired, leaked, detached, stage, open>>
      BY <2>1 DEF vars, life, ids, garbage, stack, flags
    <3> QED  BY <3>1, QuietKeepsLeftover DEF Owned, Late, Leftover
  <2> QED  BY <2>1, RemoteKeepsLeftover, OwnerCodeKeepsLeftover, CommandsKeepLeftover,
              CollectKeepsLeftover, ShutdownKeepsLeftover DEF Next
<1>3. Inv /\ NothingInHand /\ Leftover => EndIsComplete
  <2> SUFFICES ASSUME Inv, NothingInHand, Leftover, Ended PROVE NothingLeft
    BY DEF EndIsComplete
  <2>1. values = {} /\ retired = {} /\ detached = <<>> /\ NoCallHolds
    BY DEF Ended, NothingInHand, Leftover, Late
  <2>2. \A k \in Keys : At(k) # {} => Kept(k) \/ k \in leaked
    BY <2>1 DEF Leftover, FieldsOwned, Owned, At
  <2>3. \A i \in RcIds : holder[i] # Detached
    BY <2>1 DEF Leftover, ListHoldsDetached
  <2>4. \A i \in RcIds : holder[i] \in Places \cup {Nobody} /\ holder[i] \notin {Queued, Flight, Detaching}
    BY <2>1 DEF Inv, Base, IdsOK, TokenTypes, NoCallHolds, CallPlaces
  <2>5. \A i \in RcIds : holder[i] \in Threads \cup Keys \cup {Local, Nobody}
    BY <2>3, <2>4 DEF Places
  <2> QED  BY <2>1, <2>2, <2>5 DEF NothingLeft
<1> QED  BY <1>1, <1>2, <1>3, InHandInvariant, Invariance, PTL DEF Spec

===============================================================================
