------------------------------ MODULE EventsProofs ------------------------------
(* That an event reaches its subscribers, once and in connection order, and   *)
(* nobody after a disconnect has returned, for any number of threads, groups, *)
(* connections and emissions.                                                 *)
(*                                                                            *)
(* The invariant has two halves.  The first is about the list: identities are *)
(* not used twice (IdentitiesOK), a group under construction belongs to one   *)
(* thread and grows no more once its token exists (GroupsOK), a thread that   *)
(* disconnects a group has still to remove what is listed of it (ThreadOK),   *)
(* and a group that the source value has ever owned is owned, on its way out, *)
(* or not listed (ValueOK).  The second is about one emission at a time       *)
(* (FrameOK), and meets the first only where the snapshot is taken.           *)
EXTENDS Events, SublistsProofs, TLAPS

Adding(t) == op[t] \in {"adding", "reserved"}

IdentitiesOK ==
  /\ Distinct(list) /\ Entries(list) \subseteq ready
  /\ gone \subseteq going /\ going \subseteq ready /\ \A x \in ready : x < next_id
  /\ \A t \in Threads : op[t] = "reserved" => newid[t] < next_id /\ newid[t] \notin ready
  /\ \A t, u \in Threads : op[t] = "reserved" /\ op[u] = "reserved" /\ t # u => newid[t] # newid[u]
  /\ ready \ going \subseteq Entries(list) /\ gone \cap Entries(list) = {}

GroupsOK ==
  /\ \A g \in Groups : Entries(conns[g]) \subseteq ready
  /\ \A t \in Threads : Adding(t) => build[t] \in Groups \ made
  /\ \A t, u \in Threads : Adding(t) /\ Adding(u) /\ t # u => build[t] # build[u]

ThreadOK(t) ==
  /\ Entries(todo[t]) \subseteq made /\ Entries(left[t]) \subseteq going
  /\ op[t] \in {"dropping", "removing"} <=> todo[t] # <<>>
  /\ op[t] = "removing" =>
        \A x \in Entries(conns[Head(todo[t])]) :
           x \in going /\ (x \in Entries(left[t]) \/ x \notin Entries(list))

Unlisted(g) == Entries(conns[g]) \cap Entries(list) = {}

ValueOK ==
  /\ Entries(owned) \subseteq made /\ kept \subseteq made
  /\ ~alive => owned = <<>> /\ ~Adding(Owner)
  /\ \A g \in kept : g \in Entries(owned) \/ g \in Entries(todo[Owner]) \/ Unlisted(g)

ListTypes ==
  /\ next_id \in Ids /\ list \in Seq(Ids)
  /\ conns \in [Groups -> Seq(Ids)] /\ flag \in [Groups -> BOOLEAN] /\ made \subseteq Groups
  /\ op \in [Threads -> {"idle", "adding", "reserved", "dropping", "removing"}]
  /\ build \in [Threads -> Groups \cup {NoGroup}] /\ newid \in [Threads -> Ids]
  /\ todo \in [Threads -> Seq(Groups)] /\ left \in [Threads -> Seq(Ids)]
  /\ owned \in Seq(Groups) /\ alive \in BOOLEAN /\ kept \subseteq Groups
  /\ ready \subseteq Ids /\ going \subseteq Ids /\ gone \subseteq Ids

ListInv == ListTypes /\ IdentitiesOK /\ GroupsOK /\ (\A t \in Threads : ThreadOK(t)) /\ ValueOK

-------------------------------------------------------------------------------
(* One emission.                                                             *)

SnapshotOK(f) ==
  /\ Distinct(f.snap) /\ Entries(f.snap) \subseteq Ids \ {None}
  /\ f.must \subseteq Entries(f.snap) /\ f.dead \cap Entries(f.snap) = {}
  /\ Len(f.verdict) <= Len(f.snap)

StageOK(f) ==
  /\ f.stage \in {"new", "scan", "wait"} => f.result = "none"
  /\ f.stage = "wait" => f.tracked
  /\ f.stage = "done" /\ ~f.tracked => f.result \in {"ok", "panicked"}
  /\ f.stage \in {"wait", "done"} /\ ~CutShort(f) => f.previous = None

\* The connections taken so far, in connection order.
Took(f) == [k \in DOMAIN Taken(f) |-> f.snap[Taken(f)[k]]]

OrderOK(f) ==
  IF CutShort(f) THEN IsPrefix(DeliveredTo(f), Took(f)) ELSE DeliveredTo(f) \o Held(f) = Took(f)

ResultOK(f) ==
  f.tracked /\ f.stage = "done" =>
    /\ Pending(f) = {}
    /\ f.result = "ok" <=> Failed(f) = {}
    /\ \A n \in Failed(f) : f.result = f.deliveries[n].out \/ \E m \in Failed(f) : m < n

FrameOK(f) == f \in Frames /\ SnapshotOK(f) /\ StageOK(f) /\ OrderOK(f) /\ ResultOK(f)

FrameInv == frame = [e \in Emissions |-> frame[e]] /\ \A e \in Emissions : FrameOK(frame[e])

EInv == ListInv /\ FrameInv

-------------------------------------------------------------------------------
(* The list.                                                                 *)

\* ToSet, which the properties use, and Entries name the same set.
LEMMA ToSetEntries == ASSUME NEW A, NEW s \in Seq(A) PROVE ToSet(s) = Entries(s)
  BY DEF ToSet, Entries

\* A disconnect takes one connection out of the list and leaves the others,
\* in their order.
LEMMA WithoutEntries ==
  ASSUME list \in Seq(Ids), Distinct(list), NEW id \in Ids
  PROVE  /\ Without(id) \in Seq(Ids) /\ Distinct(Without(id))
         /\ Entries(Without(id)) = Entries(list) \ {id}
<1>1. CASE id \notin Entries(list)
  <2>1. Without(id) = list
    BY <1>1 DEF Without, Entries
  <2> QED  BY <1>1, <2>1
<1>2. CASE id \in Entries(list)
  <2>1. PICK k \in 1..Len(list) : list[k] = id
    BY <1>2 DEF Entries
  <2>2. SelectInSeq(list, LAMBDA x : x = id) = k
    <3> DEFINE I == {i \in 1..Len(list) : list[i] = id}
    <3>1. I = {k}
      BY <2>1 DEF Distinct
    <3>2. \A S : S = {k} => Min(S) = k
      BY DEF Min
    <3>3. SelectInSeq(list, LAMBDA x : x = id) = IF I # {} THEN Min(I) ELSE 0
      BY DEF SelectInSeq
    <3> HIDE DEF I
    <3> QED  BY <3>1, <3>2, <3>3
  <2> DEFINE a == SubSeq(list, 1, k - 1)
             b == SubSeq(list, k + 1, Len(list))
  <2>3. Without(id) = a \o b
    <3>1. Without(id) = RemoveAt(list, k)
      <4>1. \E n \in DOMAIN list : list[n] = id
        BY <2>1
      <4> QED  BY <2>2, <4>1, Zenon DEF Without
    <3> QED  BY <3>1, Zenon DEF RemoveAt
  <2>4. /\ a \in Seq(Ids) /\ Len(a) = k - 1
        /\ \A i \in 1..(k - 1) : a[i] = list[i] /\ i \in 1..Len(list)
        /\ b \in Seq(Ids) /\ Len(b) = Len(list) - k
        /\ \A i \in 1..(Len(list) - k) : b[i] = list[i + k]
        /\ Len(list) \in Nat /\ k \in Nat \ {0} /\ k <= Len(list)
    <3>1. Len(list) \in Nat /\ k \in Nat \ {0} /\ k <= Len(list)
      BY <2>1
    <3>2. a \in Seq(Ids) /\ Len(a) = k - 1 /\ \A i \in 1..(k - 1) : a[i] = list[i] /\ i \in 1..Len(list)
      BY <3>1
    <3>3. b \in Seq(Ids) /\ Len(b) = Len(list) - k /\ \A i \in 1..(Len(list) - k) : b[i] = list[i + k]
      BY <3>1
    <3> QED  BY <3>1, <3>2, <3>3
  <2> HIDE DEF a, b
  <2>5. Distinct(a) /\ Distinct(b)
    <3>1. Distinct(a)
      BY <2>4 DEF Distinct
    <3>2. ASSUME NEW i \in 1..Len(b), NEW j \in 1..Len(b), b[i] = b[j] PROVE i = j
      <4>1. i + k \in 1..Len(list) /\ j + k \in 1..Len(list) /\ list[i + k] = list[j + k]
        BY <2>4, <3>2
      <4>2. i + k = j + k
        BY <4>1 DEF Distinct
      <4> QED  BY <2>4, <4>2
    <3> QED  BY <3>1, <3>2 DEF Distinct
  <2>6. Entries(a) = {list[i] : i \in 1..(k - 1)}
    BY <2>4 DEF Entries
  <2>7. Entries(b) = {list[i] : i \in (k + 1)..Len(list)}
    <3>1. \A i \in (k + 1)..Len(list) : i - k \in 1..(Len(list) - k) /\ b[i - k] = list[i]
      <4> SUFFICES ASSUME NEW i \in (k + 1)..Len(list)
                   PROVE  i - k \in 1..(Len(list) - k) /\ b[i - k] = list[i]
        OBVIOUS
      <4>1. i - k \in 1..(Len(list) - k) /\ (i - k) + k = i
        BY <2>4
      <4> QED  BY <2>4, <4>1
    <3>2. \A i \in 1..(Len(list) - k) : i + k \in (k + 1)..Len(list) /\ b[i] = list[i + k]
      BY <2>4
    <3>3. Entries(b) = {b[i] : i \in 1..(Len(list) - k)}
      BY <2>4 DEF Entries
    <3>4. {b[i] : i \in 1..(Len(list) - k)} \subseteq {list[i] : i \in (k + 1)..Len(list)}
      BY <3>2
    <3>5. {list[i] : i \in (k + 1)..Len(list)} \subseteq {b[i] : i \in 1..(Len(list) - k)}
      BY <3>1
    <3> QED  BY <3>3, <3>4, <3>5
  <2>8. Entries(a) \cap Entries(b) = {}
    <3> SUFFICES ASSUME NEW i \in 1..(k - 1), NEW j \in (k + 1)..Len(list), list[i] = list[j]
                 PROVE  FALSE
      BY <2>6, <2>7
    <3>1. i \in 1..Len(list) /\ j \in 1..Len(list) /\ i # j
      BY <2>4
    <3> QED  BY <3>1 DEF Distinct
  <2>9. Entries(a) \cup Entries(b) = Entries(list) \ {id}
    <3>1. 1..Len(list) = 1..(k - 1) \cup {k} \cup (k + 1)..Len(list)
      BY <2>4
    <3>2. \A i \in 1..(k - 1) \cup (k + 1)..Len(list) : i \in 1..Len(list) /\ i # k /\ list[i] # id
      BY <2>1, <2>4 DEF Distinct
    <3> QED  BY <2>1, <2>6, <2>7, <3>1, <3>2 DEF Entries
  <2> QED  BY <2>3, <2>4, <2>5, <2>8, <2>9, ConcatEntries
<1> QED  BY <1>1, <1>2

-------------------------------------------------------------------------------
(* Subscribing keeps the first half.                                         *)

\* Nothing is connected at first.
LEMMA ListInit == Init => ListInv
<1> SUFFICES ASSUME Init PROVE ListInv
  OBVIOUS
<1> USE EventsAssumption DEF Init
<1>1. ListTypes
  BY DEF ListTypes, Ids, None
<1>2. IdentitiesOK
  BY DEF IdentitiesOK, Distinct, Entries
<1>3. GroupsOK
  BY DEF GroupsOK, Entries, Adding
<1>4. \A t \in Threads : ThreadOK(t)
  BY DEF ThreadOK, Entries
<1>5. ValueOK
  BY DEF ValueOK, Entries
<1> QED  BY <1>1, <1>2, <1>3, <1>4, <1>5 DEF ListInv

\* What a step that does not touch the list, the groups or the threads keeps.
LEMMA ListFrame ==
  ASSUME ListInv, UNCHANGED <<storage, groups, threads, value, ghosts>>
  PROVE  ListInv'
<1> USE DEF storage, groups, threads, value, ghosts, Adding
<1>1. ListTypes'
  BY DEF ListInv, ListTypes
<1>2. IdentitiesOK'
  BY DEF ListInv, IdentitiesOK, Distinct
<1>3. GroupsOK'
  BY DEF ListInv, GroupsOK
<1>4. \A t \in Threads : ThreadOK(t)'
  BY DEF ListInv, ThreadOK
<1>5. ValueOK'
  BY DEF ListInv, ValueOK, Unlisted
<1> QED  BY <1>1, <1>2, <1>3, <1>4, <1>5 DEF ListInv

\* A thread that begins to connect takes a group that no one else builds.
LEMMA BeginKeeps ==
  ASSUME ListInv, NEW t \in Threads, NEW g \in Groups, Begin(t, g)
  PROVE  ListInv'
<1>1. /\ op[t] = "idle" /\ (t = Owner => alive)
      /\ g \notin made /\ \A u \in Threads : build[u] # g
      /\ \A u \in Threads : op'[u] = IF u = t THEN "adding" ELSE op[u]
      /\ \A u \in Threads : build'[u] = IF u = t THEN g ELSE build[u]
      /\ UNCHANGED <<next_id, list, conns, flag, made, newid, todo, left, owned, alive, kept, ready, going, gone>>
  BY DEF ListInv, ListTypes, Begin, storage, groups, value, ghosts
<1>2. ListTypes'
  BY <1>1 DEF ListInv, ListTypes, Begin
<1>3. IdentitiesOK'
  BY <1>1 DEF ListInv, IdentitiesOK, Distinct
<1>4. GroupsOK'
  BY <1>1 DEF ListInv, GroupsOK, Adding
<1>5. \A u \in Threads : ThreadOK(u)'
  BY <1>1 DEF ListInv, ThreadOK
<1>6. ValueOK'
  BY <1>1, EventsAssumption DEF ListInv, ValueOK, Unlisted, Adding
<1> QED  BY <1>2, <1>3, <1>4, <1>5, <1>6 DEF ListInv

\* An identity is reserved above all that were used, ...
LEMMA ReserveKeeps ==
  ASSUME ListInv, NEW t \in Threads, Reserve(t)
  PROVE  ListInv'
<1>1. /\ op[t] = "adding"
      /\ next_id < MaxId /\ next_id' = next_id + 1
      /\ \A u \in Threads : op'[u] = IF u = t THEN "reserved" ELSE op[u]
      /\ \A u \in Threads : newid'[u] = IF u = t THEN next_id ELSE newid[u]
      /\ UNCHANGED <<list, conns, flag, made, build, todo, left, owned, alive, kept, ready, going, gone>>
  BY DEF ListInv, ListTypes, Reserve, groups, value, ghosts
<1>2. ListTypes'
  <2>1. next_id \in Ids /\ next_id' \in Ids
    BY <1>1, EventsAssumption DEF ListInv, ListTypes, Ids
  <2>2. op' \in [Threads -> {"idle", "adding", "reserved", "dropping", "removing"}]
    BY DEF ListInv, ListTypes, Reserve
  <2>3. newid' \in [Threads -> Ids]
    BY <2>1 DEF ListInv, ListTypes, Reserve
  <2> QED  BY <1>1, <2>1, <2>2, <2>3 DEF ListInv, ListTypes
<1>3. IdentitiesOK'
  <2>1. \A x \in Ids : x < next_id => x < next_id' /\ x # next_id
    BY <1>1, EventsAssumption DEF ListInv, ListTypes, Ids
  <2>2. next_id < next_id' /\ next_id \notin ready
    BY <1>1, <2>1, EventsAssumption DEF ListInv, ListTypes, IdentitiesOK, Ids
  <2>3. /\ \A x \in ready : x < next_id'
        /\ \A u \in Threads : op[u] = "reserved" =>
             newid[u] < next_id' /\ newid[u] # next_id /\ newid[u] \notin ready
    BY <2>1 DEF ListInv, ListTypes, IdentitiesOK
  <2>4. \A u \in Threads : op'[u] = "reserved" => newid'[u] < next_id' /\ newid'[u] \notin ready
    BY <1>1, <2>2, <2>3
  <2>5. \A u, w \in Threads :
          op'[u] = "reserved" /\ op'[w] = "reserved" /\ u # w => newid'[u] # newid'[w]
    BY <1>1, <2>3 DEF ListInv, IdentitiesOK
  <2> QED  BY <1>1, <2>3, <2>4, <2>5 DEF ListInv, IdentitiesOK, Distinct
<1>4. GroupsOK'
  BY <1>1 DEF ListInv, GroupsOK, Adding
<1>5. \A u \in Threads : ThreadOK(u)'
  BY <1>1 DEF ListInv, ThreadOK
<1>6. ValueOK'
  BY <1>1, EventsAssumption DEF ListInv, ValueOK, Unlisted, Adding
<1> QED  BY <1>2, <1>3, <1>4, <1>5, <1>6 DEF ListInv

\* ... or none is left, and the group under construction is dropped, ...
LEMMA ExhaustedKeeps ==
  ASSUME ListInv, NEW t \in Threads, Exhausted(t)
  PROVE  ListInv'
<1>1. /\ op[t] = "adding"
      /\ \A u \in Threads : op'[u] = IF u = t THEN "idle" ELSE op[u]
      /\ UNCHANGED <<next_id, list, conns, flag, made, build, newid, todo, left, owned, alive, kept,
                     ready, going, gone>>
  BY DEF ListInv, ListTypes, Exhausted, storage, groups, value, ghosts
<1>2. ListTypes'
  BY <1>1 DEF ListInv, ListTypes, Exhausted
<1>3. IdentitiesOK'
  BY <1>1 DEF ListInv, IdentitiesOK, Distinct
<1>4. GroupsOK'
  BY <1>1 DEF ListInv, GroupsOK, Adding
<1>5. \A u \in Threads : ThreadOK(u)'
  BY <1>1 DEF ListInv, ThreadOK
<1>6. ValueOK'
  BY <1>1, EventsAssumption DEF ListInv, ValueOK, Unlisted, Adding
<1> QED  BY <1>2, <1>3, <1>4, <1>5, <1>6 DEF ListInv

\* ... and the connection that bears it is listed once.
LEMMA PushKeeps ==
  ASSUME ListInv, NEW t \in Threads, Push(t)
  PROVE  ListInv'
<1> DEFINE g == build[t]
           id == newid[t]
<1>1. /\ op[t] = "reserved" /\ g \in Groups \ made /\ id \in Ids /\ id \notin ready /\ id < next_id
      /\ list' = Append(list, id)
      /\ \A h \in Groups : conns'[h] = IF h = g THEN Append(conns[g], id) ELSE conns[h]
      /\ ready' = ready \cup {id}
      /\ \A u \in Threads : op'[u] = IF u = t THEN "adding" ELSE op[u]
      /\ \A u \in Threads : newid'[u] = IF u = t THEN None ELSE newid[u]
      /\ UNCHANGED <<next_id, flag, made, build, todo, left, owned, alive, kept, going, gone>>
  BY DEF ListInv, ListTypes, IdentitiesOK, GroupsOK, Adding, Push, value
<1>2. list \in Seq(Ids) /\ conns[g] \in Seq(Ids) /\ Distinct(list) /\ id \notin Entries(list)
  BY <1>1 DEF ListInv, ListTypes, IdentitiesOK
<1>3. /\ list' \in Seq(Ids) /\ Distinct(list') /\ Entries(list') = Entries(list) \cup {id}
      /\ conns'[g] \in Seq(Ids) /\ Entries(conns'[g]) = Entries(conns[g]) \cup {id}
  <2>1. g \in Groups /\ id \in Ids /\ conns'[g] = Append(conns[g], id) /\ list' = Append(list, id)
    BY <1>1
  <2> HIDE DEF g, id
  <2>2. list' \in Seq(Ids) /\ Distinct(list') /\ Entries(list') = Entries(list) \cup {id}
    BY <1>2, <2>1, AppendEntries
  <2>3. conns'[g] \in Seq(Ids) /\ Entries(conns'[g]) = Entries(conns[g]) \cup {id}
    BY <1>2, <2>1, AppendEntries
  <2> QED  BY <2>2, <2>3
<1>4. \A h \in made : h \in Groups /\ conns'[h] = conns[h] /\ id \notin Entries(conns'[h])
  BY <1>1 DEF ListInv, ListTypes, GroupsOK
<1>5. ListTypes'
  <2>1. conns' \in [Groups -> Seq(Ids)]
    <3>1. conns' = [h \in Groups |-> conns'[h]]
      BY DEF ListInv, ListTypes, Push
    <3>2. \A h \in Groups : conns'[h] \in Seq(Ids)
      BY <1>1, <1>3 DEF ListInv, ListTypes
    <3> QED  BY <3>1, <3>2
  <2>2. op' \in [Threads -> {"idle", "adding", "reserved", "dropping", "removing"}]
    BY DEF ListInv, ListTypes, Push
  <2>3. newid' \in [Threads -> Ids]
    BY EventsAssumption DEF ListInv, ListTypes, Push, Ids, None
  <2> QED  BY <1>1, <1>3, <2>1, <2>2, <2>3 DEF ListInv, ListTypes
<1>6. IdentitiesOK'
  BY <1>1, <1>3 DEF ListInv, IdentitiesOK
<1>7. GroupsOK'
  BY <1>1, <1>3 DEF ListInv, GroupsOK, Adding
<1>8. \A u \in Threads : ThreadOK(u)'
  <2> SUFFICES ASSUME NEW u \in Threads PROVE ThreadOK(u)'
    OBVIOUS
  <2>1. op'[u] = "removing" => op[u] = "removing" /\ Head(todo[u]) \in made
    <3>1. op'[u] = "removing" => op[u] = "removing" /\ todo[u] # <<>>
      BY <1>1 DEF ListInv, ThreadOK
    <3>2. todo[u] \in Seq(Groups) /\ Entries(todo[u]) \subseteq made
      BY DEF ListInv, ListTypes, ThreadOK
    <3>3. todo[u] # <<>> => Head(todo[u]) \in Entries(todo[u])
      BY <3>2, TailEntries
    <3> QED  BY <3>1, <3>2, <3>3
  <2> QED  BY <1>1, <1>3, <1>4, <2>1 DEF ListInv, ThreadOK
<1>9. ValueOK'
  BY <1>1, <1>3, <1>4, EventsAssumption DEF ListInv, ValueOK, Unlisted, Adding
<1> QED  BY <1>5, <1>6, <1>7, <1>8, <1>9 DEF ListInv

\* A group that is finished has its token and grows no more.
LEMMA FinishKeeps ==
  ASSUME ListInv, NEW t \in Threads, Finish(t)
  PROVE  ListInv'
<1>1. /\ op[t] = "adding" /\ t # Owner /\ build[t] \in Groups \ made
      /\ made' = made \cup {build[t]}
      /\ \A u \in Threads : op'[u] = IF u = t THEN "idle" ELSE op[u]
      /\ \A u \in Threads : build'[u] = IF u = t THEN NoGroup ELSE build[u]
      /\ UNCHANGED <<next_id, list, conns, flag, newid, todo, left, owned, alive, kept, ready, going, gone>>
  BY DEF ListInv, ListTypes, GroupsOK, Adding, Finish, storage, value, ghosts
<1>2. ListTypes'
  BY <1>1 DEF ListInv, ListTypes, Finish
<1>3. IdentitiesOK'
  BY <1>1 DEF ListInv, IdentitiesOK, Distinct
<1>4. GroupsOK'
  BY <1>1 DEF ListInv, GroupsOK, Adding
<1>5. \A u \in Threads : ThreadOK(u)'
  BY <1>1 DEF ListInv, ThreadOK
<1>6. ValueOK'
  BY <1>1, EventsAssumption DEF ListInv, ValueOK, Unlisted, Adding
<1> QED  BY <1>2, <1>3, <1>4, <1>5, <1>6 DEF ListInv

\* The value owns the new group; the groups it stops owning are those it is
\* about to disconnect, so a connection it ever had is on one list or the other.
LEMMA OwnKeeps ==
  ASSUME ListInv, Own
  PROVE  ListInv'
<1> DEFINE g == build[Owner]
<1>1. Owner \in Threads /\ op[Owner] = "adding" /\ g \in Groups \ made /\ owned \in Seq(Groups)
      /\ todo[Owner] = <<>> /\ alive
  BY EventsAssumption DEF ListInv, ListTypes, GroupsOK, ThreadOK, ValueOK, Adding, Own
<1>2. /\ owned' = Append(Filtered(owned, Connected), g)
      /\ kept' = kept \cup {g} /\ made' = made \cup {g}
      /\ \A u \in Threads : build'[u] = IF u = Owner THEN NoGroup ELSE build[u]
      /\ todo' = [todo EXCEPT ![Owner] = Filtered(owned, Disconnected)]
      /\ todo'[Owner] = Filtered(owned, Disconnected)
      /\ \A u \in Threads : u # Owner => todo'[u] = todo[u] /\ op'[u] = op[u]
      /\ op' = [op EXCEPT ![Owner] = IF todo'[Owner] = <<>> THEN "idle" ELSE "dropping"]
      /\ op'[Owner] = IF todo'[Owner] = <<>> THEN "idle" ELSE "dropping"
      /\ UNCHANGED <<next_id, list, conns, flag, newid, left, alive, ready, going, gone>>
  BY <1>1 DEF ListInv, ListTypes, Own, storage, ghosts
<1>3. /\ Filtered(owned, Connected) \in Seq(Groups)
      /\ Entries(Filtered(owned, Connected)) = Entries(owned) \cap Connected
      /\ Filtered(owned, Disconnected) \in Seq(Groups)
      /\ Entries(Filtered(owned, Disconnected)) = Entries(owned) \cap Disconnected
  BY <1>1, FilteredEntries
<1>4. owned' \in Seq(Groups) /\ Entries(owned') = (Entries(owned) \cap Connected) \cup {g}
  <2>1. g \in Groups
    BY <1>1
  <2> HIDE DEF g
  <2> QED  BY <1>2, <1>3, <2>1, AppendEntries
<1>5. Entries(owned) \subseteq Connected \cup Disconnected
  BY <1>1 DEF Connected, Entries
<1>6. ListTypes'
  <2>1. build' \in [Threads -> Groups \cup {NoGroup}]
    BY DEF ListInv, ListTypes, Own
  <2>2. op' \in [Threads -> {"idle", "adding", "reserved", "dropping", "removing"}]
    BY <1>2 DEF ListInv, ListTypes
  <2>3. todo' \in [Threads -> Seq(Groups)]
    BY <1>2, <1>3 DEF ListInv, ListTypes
  <2> QED  BY <1>1, <1>2, <1>4, <2>1, <2>2, <2>3 DEF ListInv, ListTypes
<1>7. IdentitiesOK'
  BY <1>2 DEF ListInv, IdentitiesOK, Distinct
<1>8. GroupsOK'
  BY <1>1, <1>2 DEF ListInv, GroupsOK, Adding
<1>9. ASSUME NEW u \in Threads PROVE ThreadOK(u)'
  <2>1. CASE u = Owner
    BY <1>1, <1>2, <1>3, <2>1 DEF ListInv, ThreadOK, ValueOK
  <2>2. CASE u # Owner
    BY <1>2, <2>2 DEF ListInv, ThreadOK
  <2> QED  BY <2>1, <2>2
<1>10. ValueOK'
  <2>1. Entries(todo[Owner]) = {}
    BY <1>1 DEF Entries
  <2> QED  BY <1>1, <1>2, <1>3, <1>4, <1>5, <2>1 DEF ListInv, ValueOK, Unlisted, Adding
<1> QED  BY <1>6, <1>7, <1>8, <1>9, <1>10 DEF ListInv

-------------------------------------------------------------------------------
(* Disconnecting keeps the first half.                                       *)

\* ConnectionId::disconnect takes the one connection off the list.
LEMMA DisconnectKeeps ==
  ASSUME ListInv, NEW t \in Threads, NEW id \in Ids, Disconnect(t, id)
  PROVE  ListInv'
<1>1. /\ list' \in Seq(Ids) /\ Distinct(list') /\ Entries(list') = Entries(list) \ {id}
      /\ id \in ready /\ going' = going \cup {id} /\ gone' = gone \cup {id}
      /\ UNCHANGED <<next_id, conns, flag, made, op, build, newid, todo, left, owned, alive, kept, ready>>
  BY WithoutEntries
     DEF ListInv, ListTypes, IdentitiesOK, Disconnect, groups, threads, value
<1>2. ListTypes'
  BY <1>1 DEF ListInv, ListTypes
<1>3. IdentitiesOK'
  BY <1>1 DEF ListInv, IdentitiesOK
<1>4. GroupsOK'
  BY <1>1 DEF ListInv, GroupsOK, Adding
<1>5. \A u \in Threads : ThreadOK(u)'
  BY <1>1 DEF ListInv, ThreadOK
<1>6. ValueOK'
  BY <1>1 DEF ListInv, ValueOK, Unlisted, Adding
<1> QED  BY <1>2, <1>3, <1>4, <1>5, <1>6 DEF ListInv

\* EventConnections::disconnect puts the whole group before the thread.
LEMMA DisconnectGroupKeeps ==
  ASSUME ListInv, NEW t \in Threads, NEW g \in Groups, DisconnectGroup(t, g)
  PROVE  ListInv'
<1>1. /\ op[t] = "idle" /\ g \in made /\ todo[t] = <<>>
      /\ \A u \in Threads : op'[u] = IF u = t THEN "dropping" ELSE op[u]
      /\ \A u \in Threads : todo'[u] = IF u = t THEN <<g>> ELSE todo[u]
      /\ UNCHANGED <<next_id, list, conns, flag, made, build, newid, left, owned, alive, kept,
                     ready, going, gone>>
  BY DEF ListInv, ListTypes, ThreadOK, DisconnectGroup, storage, groups, value, ghosts
<1>2. /\ <<g>> \in Seq(Groups) /\ <<g>> # <<>> /\ Entries(<<g>>) = {g}
      /\ Entries(todo[t]) = {}
  BY <1>1 DEF Entries
<1>3. ListTypes'
  BY <1>1, <1>2 DEF ListInv, ListTypes, DisconnectGroup
<1>4. IdentitiesOK'
  BY <1>1 DEF ListInv, IdentitiesOK, Distinct
<1>5. GroupsOK'
  BY <1>1 DEF ListInv, GroupsOK, Adding
<1>6. \A u \in Threads : ThreadOK(u)'
  BY <1>1, <1>2 DEF ListInv, ThreadOK
<1>7. ValueOK'
  BY <1>1, <1>2, EventsAssumption DEF ListInv, ValueOK, Unlisted, Adding
<1> QED  BY <1>3, <1>4, <1>5, <1>6, <1>7 DEF ListInv

\* The destroyed value puts all its groups before its thread, in their order.
LEMMA DestroyKeeps ==
  ASSUME ListInv, Destroy
  PROVE  ListInv'
<1>1. /\ op[Owner] = "idle" /\ todo[Owner] = <<>> /\ alive' = FALSE /\ owned' = <<>>
      /\ todo' = [todo EXCEPT ![Owner] = owned] /\ todo'[Owner] = owned
      /\ \A u \in Threads : u # Owner => todo'[u] = todo[u] /\ op'[u] = op[u]
      /\ op'[Owner] = IF owned = <<>> THEN "idle" ELSE "dropping"
      /\ UNCHANGED <<next_id, list, conns, flag, made, build, newid, left, kept, ready, going, gone>>
  BY EventsAssumption DEF ListInv, ListTypes, ThreadOK, Destroy, storage, groups, ghosts
<1>2. Entries(todo[Owner]) = {} /\ Entries(owned') = {}
  BY <1>1 DEF Entries
<1>3. ListTypes'
  <2>1. op' \in [Threads -> {"idle", "adding", "reserved", "dropping", "removing"}]
    <3>1. op \in [Threads -> {"idle", "adding", "reserved", "dropping", "removing"}]
      BY DEF ListInv, ListTypes
    <3>2. CASE owned = <<>>
      BY <3>1, <3>2 DEF Destroy
    <3>3. CASE owned # <<>>
      BY <3>1, <3>3 DEF Destroy
    <3> QED  BY <3>2, <3>3
  <2>2. todo' \in [Threads -> Seq(Groups)] /\ owned' \in Seq(Groups)
    <3>1. todo \in [Threads -> Seq(Groups)] /\ owned \in Seq(Groups)
      BY DEF ListInv, ListTypes
    <3>2. todo' = [todo EXCEPT ![Owner] = owned] /\ owned' = <<>>
      BY <1>1
    <3>3. [todo EXCEPT ![Owner] = owned] \in [Threads -> Seq(Groups)]
      BY <3>1, Zenon
    <3>4. <<>> \in Seq(Groups)
      OBVIOUS
    <3> QED  BY <3>2, <3>3, <3>4, Zenon
  <2> QED  BY <1>1, <2>1, <2>2 DEF ListInv, ListTypes
<1>4. IdentitiesOK'
  BY <1>1 DEF ListInv, IdentitiesOK, Distinct
<1>5. GroupsOK'
  BY <1>1 DEF ListInv, GroupsOK, Adding
<1>6. ASSUME NEW u \in Threads PROVE ThreadOK(u)'
  <2>1. CASE u = Owner
    BY <1>1, <2>1 DEF ListInv, ThreadOK, ValueOK
  <2>2. CASE u # Owner
    BY <1>1, <2>2 DEF ListInv, ThreadOK
  <2> QED  BY <2>1, <2>2
<1>7. ValueOK'
  BY <1>1, <1>2 DEF ListInv, ValueOK, Unlisted, Adding
<1> QED  BY <1>3, <1>4, <1>5, <1>6, <1>7 DEF ListInv

\* The group a thread is disconnecting is the first of those it has to, and
\* has its token.
LEMMA GroupAtHand ==
  ASSUME ListInv, NEW t \in Threads, op[t] \in {"dropping", "removing"}
  PROVE  /\ todo[t] # <<>> /\ todo[t] \in Seq(Groups) /\ Tail(todo[t]) \in Seq(Groups)
         /\ Head(todo[t]) \in made /\ Head(todo[t]) \in Groups
         /\ Entries(todo[t]) = Entries(Tail(todo[t])) \cup {Head(todo[t])}
         /\ conns[Head(todo[t])] \in Seq(Ids)
<1>1. todo[t] # <<>> /\ todo[t] \in Seq(Groups) /\ Entries(todo[t]) \subseteq made
  BY DEF ListInv, ListTypes, ThreadOK
<1>2. /\ Head(todo[t]) \in Groups /\ Head(todo[t]) \in Entries(todo[t]) /\ Tail(todo[t]) \in Seq(Groups)
      /\ Entries(todo[t]) = Entries(Tail(todo[t])) \cup {Head(todo[t])}
  BY <1>1, TailEntries
<1> QED  BY <1>1, <1>2 DEF ListInv, ListTypes

\* A group at hand is on its way: either it had been disconnected, or its
\* connections, all of them, are now to be removed.
LEMMA StartGroupKeeps ==
  ASSUME ListInv, NEW t \in Threads, StartGroup(t)
  PROVE  ListInv'
<1> DEFINE g == Head(todo[t])
<1>1. /\ op[t] = "dropping" /\ todo[t] # <<>> /\ g \in Groups /\ conns[g] \in Seq(Ids)
      /\ Entries(conns[g]) \subseteq ready
  BY GroupAtHand DEF ListInv, GroupsOK, StartGroup
<1>2. going' = going \cup Entries(conns[g])
  BY <1>1, ToSetEntries DEF StartGroup
<1>3. /\ flag' = [flag EXCEPT ![g] = TRUE]
      /\ left' = [left EXCEPT ![t] = conns[g]]
      /\ \A u \in Threads : left'[u] = IF u = t THEN conns[g] ELSE left[u]
      /\ \A u \in Threads : op'[u] = IF u = t THEN "removing" ELSE op[u]
      /\ UNCHANGED <<next_id, list, conns, made, build, newid, todo, owned, alive, kept, ready, gone>>
  BY DEF ListInv, ListTypes, StartGroup, storage, value
<1>4. ListTypes'
  BY <1>1, <1>2, <1>3 DEF ListInv, ListTypes, StartGroup, IdentitiesOK
<1>5. IdentitiesOK'
  BY <1>1, <1>2, <1>3 DEF ListInv, IdentitiesOK, Distinct
<1>6. GroupsOK'
  BY <1>1, <1>3 DEF ListInv, GroupsOK, Adding
<1>7. ASSUME NEW u \in Threads PROVE ThreadOK(u)'
  BY <1>1, <1>2, <1>3 DEF ListInv, ThreadOK
<1>8. ValueOK'
  BY <1>1, <1>3, EventsAssumption DEF ListInv, ValueOK, Unlisted, Adding
<1> QED  BY <1>4, <1>5, <1>6, <1>7, <1>8 DEF ListInv

\* What is removed of the group at hand is listed no more.
LEMMA RemoveNextKeeps ==
  ASSUME ListInv, NEW t \in Threads, RemoveNext(t)
  PROVE  ListInv'
<1> DEFINE id == Head(left[t])
<1>1. op[t] = "removing" /\ left[t] # <<>> /\ left[t] \in Seq(Ids) /\ Entries(left[t]) \subseteq going
  BY DEF ListInv, ListTypes, ThreadOK, RemoveNext
<1>2. /\ id \in Ids /\ id \in going /\ Tail(left[t]) \in Seq(Ids)
      /\ Entries(left[t]) = Entries(Tail(left[t])) \cup {id}
  BY <1>1, TailEntries
<1>3. list' \in Seq(Ids) /\ Distinct(list') /\ Entries(list') = Entries(list) \ {id}
  <2>1. list' = Without(id)
    BY DEF RemoveNext
  <2>2. list \in Seq(Ids) /\ Distinct(list) /\ id \in Ids
    BY <1>2 DEF ListInv, ListTypes, IdentitiesOK
  <2> HIDE DEF id
  <2> QED  BY <2>1, <2>2, WithoutEntries
<1>4. /\ left' = [left EXCEPT ![t] = Tail(left[t])]
      /\ \A u \in Threads : left'[u] = IF u = t THEN Tail(left[t]) ELSE left[u]
      /\ UNCHANGED <<next_id, conns, flag, made, op, build, newid, todo, owned, alive, kept,
                     ready, going, gone>>
  BY DEF ListInv, ListTypes, RemoveNext, groups, value, ghosts
<1>5. ListTypes'
  BY <1>2, <1>3, <1>4 DEF ListInv, ListTypes
<1>6. IdentitiesOK'
  BY <1>2, <1>3, <1>4 DEF ListInv, IdentitiesOK
<1>7. GroupsOK'
  BY <1>4 DEF ListInv, GroupsOK, Adding
<1>8. ASSUME NEW u \in Threads PROVE ThreadOK(u)'
  <2>1. CASE u = t
    BY <1>1, <1>2, <1>3, <1>4, <2>1 DEF ListInv, ThreadOK
  <2>2. CASE u # t
    BY <1>3, <1>4, <2>2 DEF ListInv, ThreadOK
  <2> QED  BY <2>1, <2>2
<1>9. ValueOK'
  BY <1>3, <1>4 DEF ListInv, ValueOK, Unlisted, Adding
<1> QED  BY <1>5, <1>6, <1>7, <1>8, <1>9 DEF ListInv

\* The group at hand is done with when nothing of it is left on the list.
LEMMA EndGroupKeeps ==
  ASSUME ListInv, NEW t \in Threads, EndGroup(t)
  PROVE  ListInv'
<1> DEFINE g == Head(todo[t])
<1>1. /\ todo[t] # <<>> /\ todo[t] \in Seq(Groups) /\ Tail(todo[t]) \in Seq(Groups)
      /\ g \in made /\ g \in Groups /\ conns[g] \in Seq(Ids)
      /\ Entries(todo[t]) = Entries(Tail(todo[t])) \cup {g}
  BY GroupAtHand DEF EndGroup
<1>2. op[t] = "removing" /\ gone' = gone \cup Entries(conns[g])
  BY <1>1, ToSetEntries DEF EndGroup
<1>3. Unlisted(g) /\ Entries(conns[g]) \subseteq going
  <2>1. left[t] = <<>> /\ Entries(left[t]) = {}
    BY DEF EndGroup, Entries
  <2> QED  BY <1>2, <2>1 DEF ListInv, ThreadOK, Unlisted
<1>4. /\ todo' = [todo EXCEPT ![t] = Tail(todo[t])]
      /\ \A u \in Threads : todo'[u] = IF u = t THEN Tail(todo[t]) ELSE todo[u]
      /\ op' = [op EXCEPT ![t] = IF Tail(todo[t]) = <<>> THEN "idle" ELSE "dropping"]
      /\ op'[t] = IF Tail(todo[t]) = <<>> THEN "idle" ELSE "dropping"
      /\ \A u \in Threads : u # t => op'[u] = op[u]
      /\ UNCHANGED <<next_id, list, conns, flag, made, build, newid, left, owned, alive, kept, ready, going>>
  BY DEF ListInv, ListTypes, EndGroup, storage, groups, value
<1>5. ListTypes'
  <2>1. op' \in [Threads -> {"idle", "adding", "reserved", "dropping", "removing"}]
    BY <1>4 DEF ListInv, ListTypes
  <2>2. todo' \in [Threads -> Seq(Groups)]
    BY <1>1, <1>4 DEF ListInv, ListTypes
  <2>3. gone' \subseteq Ids
    BY <1>2, <1>3 DEF ListInv, ListTypes
  <2> QED  BY <1>4, <2>1, <2>2, <2>3 DEF ListInv, ListTypes
<1>6. IdentitiesOK'
  BY <1>2, <1>3, <1>4 DEF ListInv, IdentitiesOK, Unlisted, Distinct
<1>7. GroupsOK'
  BY <1>2, <1>4 DEF ListInv, GroupsOK, Adding
<1>8. ASSUME NEW u \in Threads PROVE ThreadOK(u)'
  <2>1. CASE u = t
    <3>1. Entries(todo'[t]) \subseteq made' /\ Entries(left'[t]) \subseteq going'
      BY <1>1, <1>4 DEF ListInv, ThreadOK
    <3>2. /\ op'[t] \in {"dropping", "removing"} <=> todo'[t] # <<>>
          /\ op'[t] # "removing"
      <4>1. todo'[t] = Tail(todo[t]) /\ op'[t] = IF Tail(todo[t]) = <<>> THEN "idle" ELSE "dropping"
        BY <1>4
      <4>2. CASE Tail(todo[t]) = <<>>
        BY <4>1, <4>2
      <4>3. CASE Tail(todo[t]) # <<>>
        BY <4>1, <4>3
      <4> QED  BY <4>2, <4>3
    <3> QED  BY <2>1, <3>1, <3>2 DEF ThreadOK
  <2>2. CASE u # t
    BY <1>4, <2>2 DEF ListInv, ThreadOK
  <2> QED  BY <2>1, <2>2
<1>9. ValueOK'
  <2>1. \A h \in kept : h \in Entries(owned) \/ h \in Entries(todo'[Owner]) \/ Unlisted(h)
    BY <1>1, <1>3, <1>4, EventsAssumption DEF ListInv, ValueOK
  <2>2. Entries(owned) \subseteq made /\ kept \subseteq made /\ (~alive => owned = <<>> /\ ~Adding(Owner)')
    BY <1>4, EventsAssumption DEF ListInv, ValueOK, Adding
  <2> QED  BY <1>4, <2>1, <2>2 DEF ValueOK, Unlisted
<1> QED  BY <1>5, <1>6, <1>7, <1>8, <1>9 DEF ListInv

-------------------------------------------------------------------------------
(* What an emission has taken, and the steps of its frame.                   *)

Verdicts == {"accept", "reject", "panic"}
Identity(n) == [i \in 1..n |-> i]
Kept(s) == {n \in DOMAIN s : s[n] # "reject"}

\* The positions of a list, in order.
LEMMA IdentityIs ==
  ASSUME NEW m \in Nat
  PROVE  /\ Identity(m) \in Seq(1..m) /\ Len(Identity(m)) = m /\ \A i \in 1..m : Identity(m)[i] = i
         /\ Entries(Identity(m)) = 1..m /\ Distinct(Identity(m))
<1> DEFINE I == Identity(m)
<1>1. /\ I \in Seq(1..m) /\ Len(I) = m /\ \A i \in 1..m : I[i] = i
  BY DEF Identity
<1> HIDE DEF I
<1>2. Entries(I) = 1..m /\ Distinct(I)
  BY <1>1 DEF Entries, Distinct
<1> QED  BY <1>1, <1>2 DEF I

\* The positions an emission has taken are those its labels did not reject.
LEMMA TakenTypes ==
  ASSUME NEW f, f.verdict \in Seq(Verdicts)
  PROVE  /\ Taken(f) = Filtered(Identity(Len(f.verdict)), Kept(f.verdict))
         /\ Taken(f) \in Seq(1..Len(f.verdict)) /\ Distinct(Taken(f))
         /\ Entries(Taken(f)) = {n \in 1..Len(f.verdict) : f.verdict[n] # "reject"}
<1> DEFINE s == f.verdict
           m == Len(s)
<1>1. DOMAIN s = 1..m /\ m \in Nat
  OBVIOUS
<1>2. Taken(f) = Filtered(Identity(m), Kept(s))
  BY <1>1 DEF Taken, Identity, Kept
<1> DEFINE I == Identity(m)
           A == 1..m
           S == Kept(s)
<1>3. I \in Seq(A) /\ Entries(I) = A /\ Distinct(I)
  BY <1>1, IdentityIs
<1>4. /\ Filtered(I, S) \in Seq(A) /\ Entries(Filtered(I, S)) = A \cap S
      /\ Distinct(Filtered(I, S))
  <2> HIDE DEF I, A, S
  <2> QED  BY <1>3, FilteredEntries
<1> QED  BY <1>1, <1>2, <1>4 DEF Kept

\* What an emission has taken are connections of its snapshot, each once.
LEMMA TookTypes ==
  ASSUME NEW f, f.verdict \in Seq(Verdicts), f.snap \in Seq(Ids), Distinct(f.snap),
         Len(f.verdict) <= Len(f.snap)
  PROVE  /\ Took(f) \in Seq(Ids) /\ Distinct(Took(f)) /\ Entries(Took(f)) \subseteq Entries(f.snap)
         /\ \A n \in 1..Len(f.verdict) : f.snap[n] \in Entries(Took(f)) <=> f.verdict[n] # "reject"
<1> DEFINE T == Taken(f)
           m == Len(f.verdict)
<1>1. /\ T \in Seq(1..m) /\ Distinct(T) /\ Entries(T) = {n \in 1..m : f.verdict[n] # "reject"}
      /\ m \in Nat /\ m <= Len(f.snap) /\ Len(f.snap) \in Nat
  BY TakenTypes
<1> HIDE DEF T, m
<1>2. /\ DOMAIN T = 1..Len(T) /\ Len(T) \in Nat
      /\ \A k \in 1..Len(T) : T[k] \in 1..m /\ T[k] \in 1..Len(f.snap) /\ f.snap[T[k]] \in Ids
  BY <1>1
<1>3. /\ Took(f) = [k \in 1..Len(T) |-> f.snap[T[k]]]
      /\ Took(f) \in Seq(Ids) /\ Len(Took(f)) = Len(T)
      /\ \A k \in 1..Len(T) : Took(f)[k] = f.snap[T[k]]
  BY <1>2 DEF Took, T
<1>4. Distinct(Took(f))
  BY <1>1, <1>2, <1>3 DEF Distinct
<1>5. Entries(Took(f)) \subseteq Entries(f.snap)
  BY <1>2, <1>3 DEF Entries
<1>6. ASSUME NEW n \in 1..m PROVE f.snap[n] \in Entries(Took(f)) <=> f.verdict[n] # "reject"
  <2>1. f.snap[n] \in Entries(Took(f)) <=> \E k \in 1..Len(T) : f.snap[T[k]] = f.snap[n]
    <3>1. f.snap[n] \in Entries(Took(f)) <=> \E k \in 1..Len(Took(f)) : Took(f)[k] = f.snap[n]
      BY Zenon DEF Entries
    <3>2. Len(Took(f)) = Len(T) /\ \A k \in 1..Len(T) : Took(f)[k] = f.snap[T[k]]
      BY <1>3
    <3> QED  BY <3>1, <3>2, Zenon
  <2>2. \A k \in 1..Len(T) : f.snap[T[k]] = f.snap[n] <=> T[k] = n
    BY <1>1, <1>2 DEF Distinct
  <2>3. f.snap[n] \in Entries(Took(f)) <=> n \in Entries(T)
    BY <2>1, <2>2 DEF Entries
  <2> QED  BY <1>1, <2>3
<1> QED  BY <1>3, <1>4, <1>5, <1>6 DEF m

\* One more answer takes the connection it is about, or skips it.
LEMMA TookAppend ==
  ASSUME NEW f, NEW h, NEW v \in Verdicts, f.verdict \in Seq(Verdicts), f.snap \in Seq(Ids),
         Len(f.verdict) < Len(f.snap), h.verdict = Append(f.verdict, v), h.snap = f.snap
  PROVE  Took(h) = IF v = "reject" THEN Took(f) ELSE Append(Took(f), Current(f))
<1> DEFINE m == Len(f.verdict)
           S == Kept(f.verdict)
           U == Kept(h.verdict)
           T == Taken(f)
<1>1. /\ m \in Nat /\ h.verdict \in Seq(Verdicts) /\ Len(h.verdict) = m + 1
      /\ DOMAIN f.verdict = 1..m /\ DOMAIN h.verdict = 1..(m + 1)
      /\ \A n \in 1..m : h.verdict[n] = f.verdict[n]
      /\ h.verdict[m + 1] = v
  OBVIOUS
<1>2. /\ T = Filtered(Identity(m), S) /\ T \in Seq(1..m)
      /\ Taken(h) = Filtered(Identity(m + 1), U)
  BY <1>1, TakenTypes
<1>3. /\ Identity(m + 1) = Append(Identity(m), m + 1) /\ Identity(m) \in Seq(Nat)
      /\ Len(Identity(m)) = m
  BY <1>1 DEF Identity
<1>4. /\ \A n \in 1..m : Identity(m)[n] \in S <=> Identity(m)[n] \in U
      /\ m + 1 \in U <=> v # "reject"
  BY <1>1 DEF Identity, Kept
<1>5. Taken(h) = IF v = "reject" THEN T ELSE Append(T, m + 1)
  <2>1. m + 1 \in Nat
    BY <1>1
  <2> DEFINE I == Identity(m)
             x == m + 1
  <2>2. /\ I \in Seq(Nat) /\ x \in Nat /\ \A i \in 1..Len(I) : I[i] \in S <=> I[i] \in U
        /\ Identity(x) = Append(I, x) /\ (x \in U <=> v # "reject")
        /\ T = Filtered(I, S) /\ Taken(h) = Filtered(Identity(x), U)
    BY <1>2, <1>3, <1>4, <2>1
  <2> HIDE DEF S, U, T, I, x
  <2>3. Filtered(Append(I, x), U) = IF x \in U THEN Append(Filtered(I, S), x) ELSE Filtered(I, S)
    BY <2>2, FilteredAppend
  <2>4. Taken(h) = IF v = "reject" THEN T ELSE Append(T, x)
    BY <2>2, <2>3
  <2> QED  BY <2>4 DEF x
<1> HIDE DEF T
<1>6. CASE v = "reject"
  BY <1>5, <1>6 DEF Took, T
<1>7. CASE v # "reject"
  <2> DEFINE a == Append(T, m + 1)
             b == Append(Took(f), Current(f))
  <2>1. Taken(h) = a /\ Took(h) = [k \in DOMAIN a |-> f.snap[a[k]]]
    BY <1>5, <1>7 DEF Took
  <2>2. /\ Len(T) \in Nat /\ a \in Seq(1..(m + 1)) /\ DOMAIN a = 1..(Len(T) + 1) /\ DOMAIN T = 1..Len(T)
        /\ \A k \in 1..Len(T) : a[k] = T[k] /\ T[k] \in 1..m
        /\ a[Len(T) + 1] = m + 1
    BY <1>1, <1>2
  <2>3. \A k \in 1..Len(T) : f.snap[T[k]] \in Ids
    <3>1. \A n \in 1..m : f.snap[n] \in Ids
      BY <1>1
    <3> HIDE DEF m
    <3> QED  BY <2>2, <3>1
  <2>4. Took(f) \in Seq(Ids) /\ Len(Took(f)) = Len(T) /\ \A k \in 1..Len(T) : Took(f)[k] = f.snap[T[k]]
    BY <2>2, <2>3 DEF Took, T
  <2>5. Current(f) = f.snap[m + 1] /\ f.snap[m + 1] \in Ids
    BY <1>1 DEF Current
  <2>6. /\ DOMAIN b = 1..(Len(T) + 1)
        /\ \A k \in 1..Len(T) : b[k] = f.snap[T[k]]
        /\ b[Len(T) + 1] = f.snap[m + 1]
        /\ b = [k \in 1..(Len(T) + 1) |-> b[k]]
    BY <2>2, <2>4, <2>5
  <2> HIDE DEF a, b, m
  <2>7. \A k \in 1..(Len(T) + 1) : b[k] = f.snap[a[k]]
    <3>1. 1..(Len(T) + 1) = 1..Len(T) \cup {Len(T) + 1}
      BY <2>2
    <3> QED  BY <2>2, <2>6, <3>1
  <2>8. Took(h) = b
    BY <2>1, <2>2, <2>6, <2>7
  <2> QED  BY <1>7, <2>8 DEF b
<1> QED  BY <1>6, <1>7

\* The parts of a frame.
Results == {"none"} \cup (Outcomes \ {"pending"})
Deliveries == Seq([id : Ids, out : Outcomes])

\* A delivery is to a connection, and has an outcome.
LEMMA DeliveryIds ==
  ASSUME NEW d \in Deliveries, NEW n \in 1..Len(d)
  PROVE  d[n].id \in Ids /\ d[n].out \in Outcomes
<1> DEFINE R == [id : Ids, out : Outcomes]
<1>1. \A x \in R : x.id \in Ids /\ x.out \in Outcomes
  OBVIOUS
<1>2. d \in Seq(R)
  BY DEF Deliveries
<1> HIDE DEF R
<1> QED  BY <1>1, <1>2

\* The fields of a frame and what is read off them have their types.
LEMMA FrameParts ==
  ASSUME NEW f \in Frames
  PROVE  /\ f.stage \in {"new", "scan", "wait", "done"} /\ f.tracked \in BOOLEAN
         /\ f.snap \in Seq(Ids) /\ f.verdict \in Seq(Verdicts) /\ f.previous \in Ids
         /\ f.deliveries \in Deliveries /\ f.result \in Results
         /\ f.must \in SUBSET Ids /\ f.dead \in SUBSET Ids
         /\ DeliveredTo(f) \in Seq(Ids) /\ Held(f) \in Seq(Ids)
<1>1. /\ f.stage \in {"new", "scan", "wait", "done"} /\ f.tracked \in BOOLEAN
      /\ f.snap \in Seq(Ids) /\ f.verdict \in Seq(Verdicts) /\ f.previous \in Ids
      /\ f.deliveries \in Deliveries /\ f.result \in Results
      /\ f.must \in SUBSET Ids /\ f.dead \in SUBSET Ids
  BY DEF Frames, Verdicts, Deliveries, Results
<1>2. DeliveredTo(f) \in Seq(Ids)
  <2>1. \A n \in 1..Len(f.deliveries) : f.deliveries[n].id \in Ids
    BY <1>1, DeliveryIds
  <2> QED  BY <1>1, <2>1 DEF DeliveredTo, Deliveries
<1>3. Held(f) \in Seq(Ids)
  BY <1>1 DEF Held
<1> QED  BY <1>1, <1>2, <1>3

\* An answer of a label changes the verdict of a frame and nothing else, ...
LEMMA AnsweredIs ==
  ASSUME NEW f \in Frames, NEW v \in Verdicts
  PROVE  /\ Answered(f, v) \in Frames
         /\ Answered(f, v).verdict = Append(f.verdict, v)
         /\ Answered(f, v).stage = f.stage /\ Answered(f, v).tracked = f.tracked
         /\ Answered(f, v).snap = f.snap /\ Answered(f, v).previous = f.previous
         /\ Answered(f, v).deliveries = f.deliveries /\ Answered(f, v).result = f.result
         /\ Answered(f, v).must = f.must /\ Answered(f, v).dead = f.dead
<1>1. f.verdict \in Seq(Verdicts)
  BY FrameParts
<1>2. Append(f.verdict, v) \in Seq(Verdicts)
  BY <1>1
<1> DEFINE w == Append(f.verdict, v)
<1>3. Answered(f, v) = [f EXCEPT !.verdict = w]
  BY DEF Answered
<1>4. w \in Seq({"accept", "reject", "panic"})
  BY <1>2 DEF Verdicts
<1> HIDE DEF w
<1>5. [f EXCEPT !.verdict = w] \in Frames
  BY <1>4 DEF Frames
<1>6. /\ [f EXCEPT !.verdict = w].verdict = w
      /\ [f EXCEPT !.verdict = w].stage = f.stage /\ [f EXCEPT !.verdict = w].tracked = f.tracked
      /\ [f EXCEPT !.verdict = w].snap = f.snap /\ [f EXCEPT !.verdict = w].previous = f.previous
      /\ [f EXCEPT !.verdict = w].deliveries = f.deliveries
      /\ [f EXCEPT !.verdict = w].result = f.result
      /\ [f EXCEPT !.verdict = w].must = f.must /\ [f EXCEPT !.verdict = w].dead = f.dead
  BY DEF Frames
<1> QED  BY <1>3, <1>5, <1>6 DEF w

\* ... a delivery is added to the ones there are, ...
LEMMA RecordedIs ==
  ASSUME NEW f \in Frames, NEW id \in Ids, NEW out \in Outcomes
  PROVE  /\ Recorded(f, id, out) \in Frames
         /\ DeliveredTo(Recorded(f, id, out)) = Append(DeliveredTo(f), id)
         /\ Recorded(f, id, out).deliveries = Append(f.deliveries, [id |-> id, out |-> out])
         /\ Recorded(f, id, out).verdict = f.verdict
         /\ Recorded(f, id, out).stage = f.stage /\ Recorded(f, id, out).tracked = f.tracked
         /\ Recorded(f, id, out).snap = f.snap /\ Recorded(f, id, out).previous = f.previous
         /\ Recorded(f, id, out).result = f.result
         /\ Recorded(f, id, out).must = f.must /\ Recorded(f, id, out).dead = f.dead
<1> DEFINE r == [id |-> id, out |-> out]
           w == Append(f.deliveries, r)
           h == Recorded(f, id, out)
<1>1. f.deliveries \in Deliveries /\ r \in [id : Ids, out : Outcomes] /\ r.id = id
  BY FrameParts
<1> HIDE DEF r
<1>2. /\ w \in Seq([id : Ids, out : Outcomes]) /\ Len(w) = Len(f.deliveries) + 1
      /\ Len(f.deliveries) \in Nat /\ DOMAIN w = 1..Len(w) /\ DOMAIN f.deliveries = 1..Len(f.deliveries)
      /\ \A n \in 1..Len(f.deliveries) : w[n] = f.deliveries[n]
      /\ w[Len(f.deliveries) + 1] = r
  BY <1>1 DEF Deliveries
<1> HIDE DEF w
<1>3. h = [f EXCEPT !.deliveries = w]
  BY DEF Recorded, w, r
<1>4. h \in Frames
  BY <1>2, <1>3 DEF Frames
<1>5. /\ h.deliveries = w /\ h.verdict = f.verdict
      /\ h.stage = f.stage /\ h.tracked = f.tracked /\ h.snap = f.snap /\ h.previous = f.previous
      /\ h.result = f.result /\ h.must = f.must /\ h.dead = f.dead
  BY <1>3 DEF Frames
<1> HIDE DEF h
<1>6. DeliveredTo(h) = Append(DeliveredTo(f), id)
  <2> DEFINE a == DeliveredTo(h)
             c == DeliveredTo(f)
             b == Append(c, id)
             m == Len(f.deliveries)
  <2>1. c \in Seq(Ids) /\ Len(c) = m /\ \A n \in 1..m : c[n] = f.deliveries[n].id
    <3>1. c \in Seq(Ids)
      BY FrameParts
    <3>2. c = [n \in 1..m |-> f.deliveries[n].id] /\ m \in Nat
      BY <1>2 DEF DeliveredTo
    <3> HIDE DEF c, m
    <3> QED  BY <3>1, <3>2
  <2>2. /\ b = [n \in 1..(m + 1) |-> b[n]] /\ b[m + 1] = id
        /\ \A n \in 1..m : b[n] = f.deliveries[n].id
    <3> HIDE DEF c, m
    <3>1. b \in Seq(Ids) /\ Len(b) = m + 1 /\ b[m + 1] = id /\ \A n \in 1..m : b[n] = c[n]
      BY <2>1
    <3> HIDE DEF b
    <3>2. b = [n \in 1..(m + 1) |-> b[n]]
      BY <3>1
    <3> QED  BY <2>1, <3>1, <3>2
  <2>3. /\ a = [n \in 1..(m + 1) |-> a[n]] /\ a[m + 1] = id
        /\ \A n \in 1..m : a[n] = f.deliveries[n].id
    BY <1>1, <1>2, <1>5 DEF DeliveredTo
  <2>4. m \in Nat /\ 1..(m + 1) = 1..m \cup {m + 1}
    BY <1>2
  <2> HIDE DEF a, b, c, m
  <2>5. \A n \in 1..(m + 1) : a[n] = b[n]
    BY <2>2, <2>3, <2>4
  <2>6. a = b
    BY <2>2, <2>3, <2>5
  <2> QED  BY <2>6 DEF a, b, c
<1> QED  BY <1>4, <1>5, <1>6 DEF h, w, r

\* ... and the connection held back is delivered to, if there is one.
LEMMA FlushedIs ==
  ASSUME NEW f \in Frames, NEW out \in {"pending", "panicked"}
  PROVE  /\ Flushed(f, out) \in Frames
         /\ DeliveredTo(Flushed(f, out)) = DeliveredTo(f) \o Held(f)
         /\ Flushed(f, out).previous = None /\ Flushed(f, out).verdict = f.verdict
         /\ Flushed(f, out).stage = f.stage /\ Flushed(f, out).tracked = f.tracked
         /\ Flushed(f, out).snap = f.snap /\ Flushed(f, out).result = f.result
         /\ Flushed(f, out).must = f.must /\ Flushed(f, out).dead = f.dead
<1> DEFINE h == Flushed(f, out)
<1>1. f.previous \in Ids /\ DeliveredTo(f) \in Seq(Ids) /\ out \in Outcomes /\ None \in Ids
  BY FrameParts, EventsAssumption DEF Outcomes, None, Ids
<1>2. CASE f.previous = None
  <2>1. h = f
    BY <1>2 DEF Flushed
  <2>2. DeliveredTo(f) \o <<>> = DeliveredTo(f)
    BY <1>1
  <2> QED  BY <1>2, <2>1, <2>2 DEF Held
<1>3. CASE f.previous # None
  <2> DEFINE r == Recorded(f, f.previous, out)
  <2>1. /\ r \in Frames /\ DeliveredTo(r) = Append(DeliveredTo(f), f.previous)
        /\ r.verdict = f.verdict /\ r.stage = f.stage /\ r.tracked = f.tracked
        /\ r.snap = f.snap /\ r.result = f.result /\ r.must = f.must /\ r.dead = f.dead
    <3>1. f \in Frames /\ f.previous \in Ids /\ out \in Outcomes
      BY <1>1
    <3> QED  BY <3>1, RecordedIs, Zenon
  <2>2. h = [r EXCEPT !.previous = None]
    BY <1>3 DEF Flushed
  <2> HIDE DEF r, h
  <2>3. h \in Frames
    BY <1>1, <2>1, <2>2 DEF Frames
  <2>4. /\ h.previous = None /\ h.deliveries = r.deliveries
        /\ h.verdict = r.verdict /\ h.stage = r.stage /\ h.tracked = r.tracked
        /\ h.snap = r.snap /\ h.result = r.result /\ h.must = r.must /\ h.dead = r.dead
    BY <2>1, <2>2 DEF Frames
  <2>5. DeliveredTo(h) = DeliveredTo(f) \o Held(f)
    <3>1. DeliveredTo(h) = DeliveredTo(r)
      BY <2>4 DEF DeliveredTo
    <3>2. Append(DeliveredTo(f), f.previous) = DeliveredTo(f) \o <<f.previous>>
      BY <1>1
    <3> QED  BY <1>3, <2>1, <3>1, <3>2 DEF Held
  <2> QED  BY <2>1, <2>3, <2>4, <2>5 DEF h
<1> QED  BY <1>2, <1>3

-------------------------------------------------------------------------------
(* Every step of a scan keeps the second half.                               *)

\* A frame that is in the middle of its scan.
LEMMA ScanParts ==
  ASSUME NEW f, FrameOK(f), f.stage = "scan"
  PROVE  /\ f \in Frames /\ f.result = "none" /\ ~CutShort(f)
         /\ Took(f) \in Seq(Ids) /\ DeliveredTo(f) \in Seq(Ids) /\ Held(f) \in Seq(Ids)
         /\ DeliveredTo(f) \o Held(f) = Took(f)
         /\ Len(f.verdict) < Len(f.snap) =>
              Current(f) \in Ids \ {None} /\ Len(f.verdict) + 1 <= Len(f.snap)
<1>1. f \in Frames /\ f.result = "none" /\ ~CutShort(f)
  BY DEF FrameOK, StageOK, CutShort
<1>2. Took(f) \in Seq(Ids) /\ DeliveredTo(f) \in Seq(Ids) /\ Held(f) \in Seq(Ids)
  BY <1>1, FrameParts, TookTypes DEF FrameOK, SnapshotOK
<1>3. DeliveredTo(f) \o Held(f) = Took(f)
  BY <1>1 DEF FrameOK, OrderOK
<1>4. ASSUME Len(f.verdict) < Len(f.snap)
      PROVE  Current(f) \in Ids \ {None} /\ Len(f.verdict) + 1 <= Len(f.snap)
  <2>1. f.verdict \in Seq(Verdicts) /\ f.snap \in Seq(Ids) /\ Entries(f.snap) \subseteq Ids \ {None}
    BY <1>1, FrameParts DEF FrameOK, SnapshotOK
  <2>2. Len(f.verdict) \in Nat /\ Len(f.verdict) + 1 \in 1..Len(f.snap)
    BY <1>4, <2>1
  <2> QED  BY <2>1, <2>2 DEF Current, Entries
<1> QED  BY <1>1, <1>2, <1>3, <1>4

\* One more label has answered: the emission goes on, with the connection it
\* took, or a panic leaves it with less.
LEMMA ScanStep ==
  ASSUME NEW f, FrameOK(f), f.stage = "scan", Len(f.verdict) < Len(f.snap),
         NEW v \in Verdicts, NEW h \in Frames, h.verdict = Append(f.verdict, v),
         h.snap = f.snap, h.must = f.must, h.dead = f.dead, h.tracked = f.tracked,
         \/ /\ h.stage = "scan" /\ h.result = "none"
            /\ DeliveredTo(h) \o Held(h) =
                 IF v = "reject" THEN Took(f) ELSE Append(Took(f), Current(f))
         \/ /\ h.stage = "done" /\ h.result = "panicked" /\ ~f.tracked
            /\ \/ DeliveredTo(h) = Took(f) /\ v # "reject"
               \/ DeliveredTo(h) = DeliveredTo(f)
  PROVE  FrameOK(h)
<1>1. /\ f \in Frames /\ f.verdict \in Seq(Verdicts) /\ f.snap \in Seq(Ids)
      /\ Took(f) \in Seq(Ids) /\ DeliveredTo(f) \in Seq(Ids) /\ Held(f) \in Seq(Ids)
      /\ DeliveredTo(f) \o Held(f) = Took(f) /\ Current(f) \in Ids
  BY ScanParts, FrameParts
<1>2. SnapshotOK(h)
  <2>1. Len(Append(f.verdict, v)) <= Len(f.snap)
    BY <1>1
  <2> QED  BY <2>1 DEF FrameOK, SnapshotOK
<1>3. Took(h) = IF v = "reject" THEN Took(f) ELSE Append(Took(f), Current(f))
  BY <1>1, TookAppend
<1>4. CASE h.stage = "scan"
  <2>1. ~CutShort(h) /\ StageOK(h) /\ ResultOK(h)
    BY <1>4 DEF CutShort, StageOK, ResultOK
  <2>2. OrderOK(h)
    BY <1>3, <1>4, <2>1 DEF OrderOK
  <2> QED  BY <1>2, <2>1, <2>2 DEF FrameOK
<1>5. CASE h.stage = "done"
  <2>1. CutShort(h) /\ StageOK(h) /\ ResultOK(h)
    BY <1>5 DEF CutShort, StageOK, ResultOK
  <2>2. IsPrefix(DeliveredTo(h), Took(h))
    <3> DEFINE a == DeliveredTo(f)
               b == Held(f)
               c == Took(f)
               w == Current(f)
    <3>1. a \in Seq(Ids) /\ b \in Seq(Ids) /\ c = a \o b /\ c \in Seq(Ids) /\ w \in Ids
      BY <1>1
    <3>2. Took(h) = c \/ Took(h) = Append(c, w)
      BY <1>3
    <3>3. DeliveredTo(h) = a \/ (DeliveredTo(h) = c /\ Took(h) = Append(c, w))
      BY <1>3, <1>5
    <3> HIDE DEF a, b, c, w
    <3>4. IsPrefix(a, c) /\ IsPrefix(c, Append(c, w)) /\ IsPrefix(a, Append(c, w))
      BY <3>1 DEF IsPrefix
    <3> QED  BY <3>2, <3>3, <3>4
  <2>3. OrderOK(h)
    BY <2>1, <2>2 DEF OrderOK
  <2> QED  BY <1>2, <2>1, <2>3 DEF FrameOK
<1> QED  BY <1>4, <1>5

\* A label that rejects leaves the deliveries as they are.
LEMMA RejectOK ==
  ASSUME NEW f, FrameOK(f), f.stage = "scan", Len(f.verdict) < Len(f.snap)
  PROVE  FrameOK(Answered(f, "reject"))
<1> DEFINE h == Answered(f, "reject")
<1>1. f \in Frames /\ f.result = "none" /\ DeliveredTo(f) \o Held(f) = Took(f)
  BY ScanParts
<1>2. /\ h \in Frames /\ h.verdict = Append(f.verdict, "reject")
      /\ h.stage = f.stage /\ h.tracked = f.tracked /\ h.snap = f.snap
      /\ h.previous = f.previous /\ h.deliveries = f.deliveries /\ h.result = f.result
      /\ h.must = f.must /\ h.dead = f.dead
  BY <1>1, AnsweredIs DEF Verdicts
<1> HIDE DEF h
<1>3. DeliveredTo(h) = DeliveredTo(f) /\ Held(h) = Held(f)
  BY <1>2 DEF DeliveredTo, Held
<1>4. FrameOK(h)
  BY <1>1, <1>2, <1>3, ScanStep DEF Verdicts
<1> QED  BY <1>4 DEF h

\* A label that accepts lets the connection held back go, and holds its own; the
\* untracked emission ends there when that delivery unwinds.
LEMMA AcceptOK ==
  ASSUME NEW f, FrameOK(f), f.stage = "scan", Len(f.verdict) < Len(f.snap),
         NEW out \in {"pending", "panicked"}
  PROVE  FrameOK(Left([Answered(Flushed(f, out), "accept") EXCEPT !.previous = Current(f)],
                      out = "panicked"))
<1> DEFINE g == Flushed(f, out)
           a == Answered(g, "accept")
           b == [a EXCEPT !.previous = Current(f)]
           h == Left(b, out = "panicked")
<1>1. /\ f \in Frames /\ f.result = "none" /\ DeliveredTo(f) \o Held(f) = Took(f)
      /\ Took(f) \in Seq(Ids) /\ Current(f) \in Ids \ {None}
  BY ScanParts
<1>2. /\ g \in Frames /\ DeliveredTo(g) = Took(f)
      /\ g.verdict = f.verdict /\ g.stage = f.stage /\ g.tracked = f.tracked /\ g.snap = f.snap
      /\ g.result = f.result /\ g.must = f.must /\ g.dead = f.dead
  BY <1>1, FlushedIs
<1> HIDE DEF g
<1>3. /\ a \in Frames /\ a.verdict = Append(g.verdict, "accept") /\ a.deliveries = g.deliveries
      /\ a.stage = g.stage /\ a.tracked = g.tracked /\ a.snap = g.snap
      /\ a.result = g.result /\ a.must = g.must /\ a.dead = g.dead
  BY <1>2, AnsweredIs DEF Verdicts
<1> HIDE DEF a
<1>4. b \in Frames
  BY <1>1, <1>3 DEF Frames
<1>5. /\ b.previous = Current(f) /\ b.verdict = a.verdict /\ b.deliveries = a.deliveries
      /\ b.stage = a.stage /\ b.tracked = a.tracked /\ b.snap = a.snap
      /\ b.result = a.result /\ b.must = a.must /\ b.dead = a.dead
  BY <1>3 DEF Frames
<1> HIDE DEF b
<1>6. DeliveredTo(b) = Took(f) /\ Held(b) = <<Current(f)>>
  <2>1. DeliveredTo(b) = DeliveredTo(g)
    BY <1>3, <1>5 DEF DeliveredTo
  <2> QED  BY <1>1, <1>2, <1>5, <2>1 DEF Held
<1>7. CASE h = b
  <2> HIDE DEF h
  <2>1. DeliveredTo(h) \o Held(h) = Append(Took(f), Current(f))
    <3>1. \A s \in Seq(Ids), x \in Ids : s \o <<x>> = Append(s, x)
      OBVIOUS
    <3> QED  BY <1>1, <1>6, <1>7, <3>1
  <2>2. /\ h \in Frames /\ h.verdict = Append(f.verdict, "accept") /\ h.snap = f.snap
        /\ h.must = f.must /\ h.dead = f.dead /\ h.tracked = f.tracked
        /\ h.stage = "scan" /\ h.result = "none"
    BY <1>1, <1>2, <1>3, <1>4, <1>5, <1>7
  <2>3. FrameOK(h)
    BY <2>1, <2>2, ScanStep DEF Verdicts
  <2> QED  BY <2>3 DEF h, b, a, g
<1>8. CASE h # b
  <2>1. ~b.tracked /\ h = [b EXCEPT !.stage = "done", !.result = "panicked"]
    BY <1>8 DEF Left
  <2> HIDE DEF h
  <2>2. h \in Frames
    BY <1>4, <2>1 DEF Frames, Outcomes
  <2>3. /\ h.stage = "done" /\ h.result = "panicked" /\ h.verdict = b.verdict
        /\ h.deliveries = b.deliveries /\ h.tracked = b.tracked /\ h.snap = b.snap
        /\ h.must = b.must /\ h.dead = b.dead
    BY <1>4, <2>1 DEF Frames
  <2>4. DeliveredTo(h) = Took(f)
    BY <1>6, <2>3 DEF DeliveredTo
  <2>5. /\ h.verdict = Append(f.verdict, "accept") /\ h.snap = f.snap
        /\ h.must = f.must /\ h.dead = f.dead /\ h.tracked = f.tracked /\ ~f.tracked
    BY <1>2, <1>3, <1>5, <2>1, <2>3
  <2>6. FrameOK(h)
    BY <2>2, <2>3, <2>4, <2>5, ScanStep DEF Verdicts
  <2> QED  BY <2>6 DEF h, b, a, g
<1> QED  BY <1>7, <1>8

\* A label that unwinds is recorded as a failed delivery of a tracked emission,
\* and ends an untracked one.
LEMMA MatchPanicOK ==
  ASSUME NEW f, FrameOK(f), f.stage = "scan", Len(f.verdict) < Len(f.snap),
         NEW out \in {"pending", "panicked"}
  PROVE  FrameOK(IF f.tracked
                 THEN Recorded(Answered(Flushed(f, out), "panic"), Current(f), "panicked")
                 ELSE Left(Answered(f, "panic"), TRUE))
<1>1. /\ f \in Frames /\ f.result = "none" /\ DeliveredTo(f) \o Held(f) = Took(f)
      /\ Took(f) \in Seq(Ids) /\ Current(f) \in Ids
  BY ScanParts
<1>2. CASE f.tracked
  <2> DEFINE g == Flushed(f, out)
             a == Answered(g, "panic")
             h == Recorded(a, Current(f), "panicked")
  <2>1. /\ g \in Frames /\ DeliveredTo(g) = Took(f) /\ g.previous = None
        /\ g.verdict = f.verdict /\ g.stage = f.stage /\ g.tracked = f.tracked /\ g.snap = f.snap
        /\ g.result = f.result /\ g.must = f.must /\ g.dead = f.dead
    BY <1>1, FlushedIs
  <2> HIDE DEF g
  <2>2. /\ a \in Frames /\ a.verdict = Append(g.verdict, "panic") /\ a.deliveries = g.deliveries
        /\ a.stage = g.stage /\ a.tracked = g.tracked /\ a.snap = g.snap /\ a.previous = g.previous
        /\ a.result = g.result /\ a.must = g.must /\ a.dead = g.dead
    BY <2>1, AnsweredIs DEF Verdicts
  <2> HIDE DEF a
  <2>3. /\ h \in Frames /\ DeliveredTo(h) = Append(DeliveredTo(a), Current(f))
        /\ h.verdict = a.verdict /\ h.stage = a.stage /\ h.tracked = a.tracked /\ h.snap = a.snap
        /\ h.previous = a.previous /\ h.result = a.result /\ h.must = a.must /\ h.dead = a.dead
    <3>1. Current(f) \in Ids /\ "panicked" \in Outcomes
      BY <1>1 DEF Outcomes
    <3> QED  BY <2>2, <3>1, RecordedIs
  <2> HIDE DEF h
  <2>4. DeliveredTo(h) \o Held(h) = Append(Took(f), Current(f))
    <3>1. DeliveredTo(a) = DeliveredTo(g)
      BY <2>2 DEF DeliveredTo
    <3>2. Held(h) = <<>>
      BY <2>1, <2>2, <2>3 DEF Held
    <3>3. Append(Took(f), Current(f)) \in Seq(Ids)
      BY <1>1
    <3> QED  BY <2>1, <2>3, <3>1, <3>2, <3>3
  <2>5. /\ h.verdict = Append(f.verdict, "panic") /\ h.snap = f.snap
        /\ h.must = f.must /\ h.dead = f.dead /\ h.tracked = f.tracked
        /\ h.stage = "scan" /\ h.result = "none"
    BY <1>1, <2>1, <2>2, <2>3
  <2>6. FrameOK(h)
    BY <2>3, <2>4, <2>5, ScanStep DEF Verdicts
  <2> QED  BY <1>2, <2>6 DEF h, a, g
<1>3. CASE ~f.tracked
  <2> DEFINE a == Answered(f, "panic")
             h == Left(a, TRUE)
  <2>1. /\ a \in Frames /\ a.verdict = Append(f.verdict, "panic") /\ a.deliveries = f.deliveries
        /\ a.stage = f.stage /\ a.tracked = f.tracked /\ a.snap = f.snap
        /\ a.result = f.result /\ a.must = f.must /\ a.dead = f.dead
    BY <1>1, AnsweredIs DEF Verdicts
  <2> HIDE DEF a
  <2>2. h = [a EXCEPT !.stage = "done", !.result = "panicked"]
    BY <1>3, <2>1 DEF Left
  <2> HIDE DEF h
  <2>3. h \in Frames
    BY <2>1, <2>2 DEF Frames, Outcomes
  <2>4. /\ h.stage = "done" /\ h.result = "panicked" /\ h.verdict = a.verdict
        /\ h.deliveries = a.deliveries /\ h.tracked = a.tracked /\ h.snap = a.snap
        /\ h.must = a.must /\ h.dead = a.dead
    BY <2>1, <2>2 DEF Frames
  <2>5. DeliveredTo(h) = DeliveredTo(f)
    BY <2>1, <2>4 DEF DeliveredTo
  <2>6. /\ h.verdict = Append(f.verdict, "panic") /\ h.snap = f.snap
        /\ h.must = f.must /\ h.dead = f.dead /\ h.tracked = f.tracked
    BY <2>1, <2>4
  <2>7. FrameOK(h)
    BY <1>3, <2>3, <2>4, <2>5, <2>6, ScanStep DEF Verdicts
  <2> QED  BY <1>3, <2>7 DEF h, a
<1> QED  BY <1>2, <1>3

\* The end of the scan dispatches the match held back, so that everything taken
\* has been delivered, and in that order.
LEMMA EndScanOK ==
  ASSUME NEW f, FrameOK(f), f.stage = "scan", Len(f.verdict) = Len(f.snap),
         NEW out \in {"pending", "panicked"}
  PROVE  FrameOK([Flushed(f, out) EXCEPT
                    !.stage = IF f.tracked THEN "wait" ELSE "done",
                    !.result = IF f.tracked THEN @
                               ELSE IF out = "panicked" THEN "panicked" ELSE "ok"])
<1> DEFINE g == Flushed(f, out)
           stage == IF f.tracked THEN "wait" ELSE "done"
           result == IF f.tracked THEN g.result ELSE IF out = "panicked" THEN "panicked" ELSE "ok"
           h == [g EXCEPT !.stage = stage, !.result = result]
<1>1. /\ f \in Frames /\ f.result = "none" /\ DeliveredTo(f) \o Held(f) = Took(f)
      /\ Took(f) \in Seq(Ids) /\ f.verdict \in Seq(Verdicts) /\ f.tracked \in BOOLEAN
  BY ScanParts, FrameParts
<1>2. /\ g \in Frames /\ DeliveredTo(g) = Took(f) /\ g.previous = None
      /\ g.verdict = f.verdict /\ g.stage = f.stage /\ g.tracked = f.tracked /\ g.snap = f.snap
      /\ g.result = f.result /\ g.must = f.must /\ g.dead = f.dead
  BY <1>1, FlushedIs
<1> HIDE DEF g
<1>3. /\ stage \in {"wait", "done"} /\ (stage = "wait" <=> f.tracked)
      /\ result \in Results /\ (f.tracked => result = "none") /\ (~f.tracked => result \in {"ok", "panicked"})
  BY <1>1, <1>2 DEF Results, Outcomes
<1> HIDE DEF stage, result
<1>4. h \in Frames
  BY <1>2, <1>3 DEF Frames, Results
<1>5. /\ h.stage = stage /\ h.result = result /\ h.deliveries = g.deliveries /\ h.verdict = g.verdict
      /\ h.tracked = g.tracked /\ h.snap = g.snap /\ h.previous = g.previous
      /\ h.must = g.must /\ h.dead = g.dead
  BY <1>2 DEF Frames
<1> HIDE DEF h
<1>6. DeliveredTo(h) = Took(f) /\ Held(h) = <<>> /\ Took(h) = Took(f)
  BY <1>2, <1>5 DEF DeliveredTo, Held, Took, Taken
<1>7. SnapshotOK(h) /\ StageOK(h) /\ ResultOK(h)
  <2>1. SnapshotOK(h)
    BY <1>2, <1>5 DEF FrameOK, SnapshotOK
  <2>2. StageOK(h) /\ ResultOK(h)
    BY <1>2, <1>3, <1>5 DEF StageOK, ResultOK
  <2> QED  BY <2>1, <2>2
<1>8. OrderOK(h)
  <2> DEFINE c == Took(f)
  <2>1. c \in Seq(Ids)
    BY <1>1
  <2> HIDE DEF c
  <2>2. c \o <<>> = c /\ IsPrefix(c, c)
    BY <2>1 DEF IsPrefix
  <2> QED  BY <1>6, <2>2 DEF OrderOK, c
<1>9. FrameOK(h)
  BY <1>4, <1>7, <1>8 DEF FrameOK
<1> QED  BY <1>9 DEF h, stage, result, g

-------------------------------------------------------------------------------
(* The other steps of an emission.                                           *)

\* A frame whose labels have answered nothing has taken nothing.
LEMMA TookNothing ==
  ASSUME NEW f, f.verdict = <<>>
  PROVE  Took(f) = <<>>
<1>1. f.verdict \in Seq(Verdicts) /\ Len(f.verdict) = 0
  OBVIOUS
<1>2. Taken(f) \in Seq(1..Len(f.verdict))
  BY <1>1, TakenTypes
<1>3. Taken(f) \in Seq({})
  <2>1. 1..0 = {}
    OBVIOUS
  <2> QED  BY <1>1, <1>2, <2>1
<1>4. Taken(f) = <<>>
  <2> DEFINE T == Taken(f)
  <2>1. T \in Seq({})
    BY <1>3
  <2> HIDE DEF T
  <2>2. T = <<>>
    BY <2>1
  <2> QED  BY <2>2 DEF T
<1> QED  BY <1>4 DEF Took

\* A new emission is a frame.
LEMMA NewFrameTypes == NewFrame \in Frames
<1>1. /\ None \in Ids /\ <<>> \in Seq({"accept", "reject", "panic"})
      /\ <<>> \in Seq([id : Ids, out : Outcomes]) /\ <<>> \in Seq(Ids)
  BY EventsAssumption DEF None, Ids
<1> QED  BY <1>1 DEF NewFrame, Frames

\* An emission that begins has a snapshot of distinct connections, those that
\* are surely subscribed among them and none that is surely not: this is where
\* the two halves of the invariant meet.
LEMMA EmitOK ==
  ASSUME ListInv, NEW tracked \in BOOLEAN
  PROVE  FrameOK([NewFrame EXCEPT !.stage = "scan", !.tracked = tracked, !.snap = list,
                                  !.must = ready \ going, !.dead = gone])
<1> DEFINE h == [NewFrame EXCEPT !.stage = "scan", !.tracked = tracked, !.snap = list,
                                 !.must = ready \ going, !.dead = gone]
<1>1. /\ list \in Seq(Ids) /\ Distinct(list) /\ Entries(list) \subseteq Ids \ {None}
      /\ ready \ going \subseteq Entries(list) /\ gone \cap Entries(list) = {}
      /\ ready \ going \subseteq Ids /\ gone \subseteq Ids
  <2>1. /\ list \in Seq(Ids) /\ Distinct(list) /\ Entries(list) \subseteq ready
        /\ ready \subseteq Ids /\ gone \subseteq Ids /\ next_id \in Ids /\ \A x \in ready : x < next_id
        /\ ready \ going \subseteq Entries(list) /\ gone \cap Entries(list) = {}
    BY DEF ListInv, ListTypes, IdentitiesOK
  <2>2. \A x, y \in Ids : x < y => x # None
    BY EventsAssumption DEF None, Ids
  <2> QED  BY <2>1, <2>2
<1>2. /\ h.stage = "scan" /\ h.tracked = tracked /\ h.snap = list /\ h.verdict = <<>>
      /\ h.previous = None /\ h.deliveries = <<>> /\ h.result = "none"
      /\ h.must = ready \ going /\ h.dead = gone
  BY DEF NewFrame
<1>3. h \in Frames
  BY <1>1, NewFrameTypes DEF Frames
<1> HIDE DEF h
<1>4. SnapshotOK(h)
  <2>1. Len(h.verdict) <= Len(h.snap)
    BY <1>1, <1>2
  <2> QED  BY <1>1, <1>2, <2>1 DEF SnapshotOK
<1>5. StageOK(h) /\ ResultOK(h) /\ ~CutShort(h)
  BY <1>2 DEF StageOK, ResultOK, CutShort
<1>6. DeliveredTo(h) = <<>> /\ Held(h) = <<>> /\ Took(h) = <<>>
  <2>1. DeliveredTo(h) = <<>> /\ Held(h) = <<>>
    BY <1>2 DEF DeliveredTo, Held
  <2> QED  BY <1>2, <2>1, TookNothing
<1>7. OrderOK(h)
  BY <1>5, <1>6 DEF OrderOK
<1>8. FrameOK(h)
  BY <1>3, <1>4, <1>5, <1>7 DEF FrameOK
<1> QED  BY <1>8 DEF h

\* A delivery settles in its place: whom it was to does not change.
LEMMA SettleOK ==
  ASSUME NEW f, FrameOK(f), f.tracked, f.stage \in {"scan", "wait"},
         NEW n \in Pending(f), NEW out \in {"ok", "panicked"} \cup Errors
  PROVE  FrameOK([f EXCEPT !.deliveries[n].out = out])
<1> DEFINE d == f.deliveries
           r == [d[n] EXCEPT !.out = out]
           w == [d EXCEPT ![n] = r]
           h == [f EXCEPT !.deliveries = w]
           R == [id : Ids, out : Outcomes]
<1>1. [f EXCEPT !.deliveries[n].out = out] = h
  OBVIOUS
<1>2. f \in Frames /\ d \in Seq(R) /\ n \in 1..Len(d) /\ DOMAIN d = 1..Len(d) /\ d[n] \in R
  <2>1. f \in Frames /\ n \in DOMAIN d
    BY DEF FrameOK, Pending
  <2>2. d \in Seq(R)
    BY <2>1, FrameParts DEF Deliveries
  <2> HIDE DEF R, d
  <2> QED  BY <2>1, <2>2
<1>3. r \in R /\ r.id = d[n].id
  BY <1>2 DEF Outcomes
<1> HIDE DEF d, r, R
<1>4. w \in Seq(R) /\ DOMAIN w = DOMAIN d /\ \A m \in DOMAIN d : w[m] = IF m = n THEN r ELSE d[m]
  BY <1>2, <1>3
<1> HIDE DEF w
<1>5. h \in Frames
  BY <1>2, <1>4 DEF Frames, R
<1>6. /\ h.deliveries = w /\ h.stage = f.stage /\ h.result = f.result /\ h.verdict = f.verdict
      /\ h.tracked = f.tracked /\ h.snap = f.snap /\ h.previous = f.previous
      /\ h.must = f.must /\ h.dead = f.dead
  BY <1>2 DEF Frames
<1> HIDE DEF h
<1>7. DeliveredTo(h) = DeliveredTo(f) /\ Held(h) = Held(f) /\ Took(h) = Took(f)
  <2>1. DeliveredTo(h) = [m \in DOMAIN d |-> w[m].id] /\ DeliveredTo(f) = [m \in DOMAIN d |-> d[m].id]
    BY <1>4, <1>6 DEF DeliveredTo, d
  <2>2. \A m \in DOMAIN d : w[m].id = d[m].id
    BY <1>3, <1>4
  <2>3. Held(h) = Held(f) /\ Took(h) = Took(f)
    BY <1>6 DEF Held, Took, Taken
  <2> QED  BY <2>1, <2>2, <2>3
<1>8. SnapshotOK(h) /\ StageOK(h) /\ ResultOK(h)
  <2>1. SnapshotOK(h)
    BY <1>6 DEF FrameOK, SnapshotOK
  <2>2. StageOK(h) /\ ResultOK(h)
    BY <1>6 DEF FrameOK, StageOK, ResultOK, CutShort
  <2> QED  BY <2>1, <2>2
<1>9. OrderOK(h)
  BY <1>6, <1>7 DEF FrameOK, OrderOK, CutShort
<1>10. FrameOK(h)
  BY <1>5, <1>8, <1>9 DEF FrameOK
<1> QED  BY <1>1, <1>10

\* The result of a tracked emission: nothing is pending any more, and it is the
\* first failure.
LEMMA ReturnOK ==
  ASSUME NEW f, FrameOK(f), f.stage = "wait", Pending(f) = {},
         NEW r \in {"ok"} \cup {f.deliveries[n].out : n \in Failed(f)},
         IF Failed(f) = {} THEN r = "ok"
         ELSE \E n \in Failed(f) : r = f.deliveries[n].out /\ \A m \in Failed(f) : n <= m
  PROVE  FrameOK([f EXCEPT !.stage = "done", !.result = r])
<1> DEFINE h == [f EXCEPT !.stage = "done", !.result = r]
<1>1. f \in Frames /\ f.tracked /\ f.previous = None /\ f.deliveries \in Deliveries
  BY FrameParts DEF FrameOK, StageOK, CutShort
<1>2. DOMAIN f.deliveries = 1..Len(f.deliveries)
  BY <1>1 DEF Deliveries
<1>3. \A n \in Failed(f) : f.deliveries[n].out \in Outcomes \ {"pending", "ok"}
  BY <1>1, <1>2, DeliveryIds DEF Failed
<1>4. r \in Outcomes \ {"pending"} /\ (r = "ok" <=> Failed(f) = {})
  BY <1>3 DEF Outcomes
<1>5. h \in Frames
  BY <1>1, <1>4 DEF Frames
<1>6. /\ h.deliveries = f.deliveries /\ h.stage = "done" /\ h.result = r /\ h.verdict = f.verdict
      /\ h.tracked = f.tracked /\ h.snap = f.snap /\ h.previous = f.previous
      /\ h.must = f.must /\ h.dead = f.dead
  BY <1>1 DEF Frames
<1> HIDE DEF h
<1>7. /\ DeliveredTo(h) = DeliveredTo(f) /\ Held(h) = Held(f) /\ Took(h) = Took(f)
      /\ Pending(h) = Pending(f) /\ Failed(h) = Failed(f)
  BY <1>6 DEF DeliveredTo, Held, Took, Taken, Pending, Failed
<1>8. SnapshotOK(h) /\ StageOK(h)
  BY <1>1, <1>6 DEF FrameOK, SnapshotOK, StageOK
<1>9. OrderOK(h)
  BY <1>1, <1>6, <1>7 DEF FrameOK, OrderOK, CutShort
<1>10. ResultOK(h)
  <2>1. Failed(f) \subseteq Nat
    BY <1>2 DEF Failed
  <2>2. ASSUME NEW n \in Failed(f) PROVE r = f.deliveries[n].out \/ \E m \in Failed(f) : m < n
    BY <2>1, <2>2
  <2> QED  BY <1>4, <1>6, <1>7, <2>2 DEF ResultOK
<1>11. FrameOK(h)
  BY <1>5, <1>8, <1>9, <1>10 DEF FrameOK
<1> QED  BY <1>11 DEF h

-------------------------------------------------------------------------------
(* The invariant.                                                            *)

\* One emission takes a step and the others do not.
LEMMA OneFrame ==
  ASSUME ListInv, FrameInv, NEW e \in Emissions, NEW h, FrameOK(h),
         frame' = [frame EXCEPT ![e] = h], UNCHANGED <<storage, groups, threads, value, ghosts>>
  PROVE  EInv'
<1>1. ListInv'
  BY ListFrame
<1>2. /\ \A d \in Emissions : frame'[d] = IF d = e THEN h ELSE frame[d]
      /\ frame' = [d \in Emissions |-> frame'[d]]
  BY DEF FrameInv
<1>3. \A d \in Emissions : FrameOK(frame'[d])
  BY <1>2 DEF FrameInv
<1>4. FrameInv'
  BY <1>2, <1>3 DEF FrameInv
<1> QED  BY <1>1, <1>4 DEF EInv

\* Every step of an emission or of its receivers keeps the invariant.
LEMMA EmissionKeeps ==
  ASSUME EInv, NEW e \in Emissions,
         \/ Emitting(e) \/ Receivers(e)
         \/ \E tracked \in BOOLEAN : Emit(e, tracked)
  PROVE  EInv'
<1> DEFINE f == frame[e]
<1>1. ListInv /\ FrameInv /\ FrameOK(f)
  BY DEF EInv, FrameInv
<1>2. Len(f.verdict) <= Len(f.snap)
  BY <1>1 DEF FrameOK, SnapshotOK
<1>3. ASSUME NEW tracked \in BOOLEAN, Emit(e, tracked) PROVE EInv'
  <2> DEFINE h == [NewFrame EXCEPT !.stage = "scan", !.tracked = tracked, !.snap = list,
                                   !.must = ready \ going, !.dead = gone]
  <2>1. /\ FrameOK(h) /\ frame' = [frame EXCEPT ![e] = h]
        /\ UNCHANGED <<storage, groups, threads, value, ghosts>>
    BY <1>1, <1>3, EmitOK DEF Emit
  <2> HIDE DEF h
  <2> QED  BY <1>1, <2>1, OneFrame
<1>4. CASE Reject(e)
  <2>1. FrameOK(Answered(f, "reject"))
    BY <1>1, <1>4, RejectOK DEF Reject, Scanning
  <2>2. /\ frame' = [frame EXCEPT ![e] = Answered(f, "reject")]
        /\ UNCHANGED <<storage, groups, threads, value, ghosts>>
    BY <1>4 DEF Reject
  <2> QED  BY <1>1, <2>1, <2>2, OneFrame
<1>5. ASSUME NEW out \in {"pending", "panicked"}, Accept(e, out) PROVE EInv'
  <2> DEFINE h == Left([Answered(Flushed(f, out), "accept") EXCEPT !.previous = Current(f)],
                       out = "panicked")
  <2>1. f.stage = "scan" /\ Len(f.verdict) < Len(f.snap)
    BY <1>5 DEF Accept, Scanning
  <2>2. FrameOK(h)
    <3> HIDE DEF f
    <3> QED  BY <1>1, <2>1, AcceptOK
  <2>3. frame' = [frame EXCEPT ![e] = h] /\ UNCHANGED <<storage, groups, threads, value, ghosts>>
    BY <1>5 DEF Accept
  <2> HIDE DEF h
  <2> QED  BY <1>1, <2>2, <2>3, OneFrame
<1>6. ASSUME NEW out \in {"pending", "panicked"}, MatchPanic(e, out) PROVE EInv'
  <2> DEFINE h == IF f.tracked
                  THEN Recorded(Answered(Flushed(f, out), "panic"), Current(f), "panicked")
                  ELSE Left(Answered(f, "panic"), TRUE)
  <2>1. f.stage = "scan" /\ Len(f.verdict) < Len(f.snap)
    BY <1>6 DEF MatchPanic, Scanning
  <2>2. FrameOK(h)
    <3> HIDE DEF f
    <3> QED  BY <1>1, <2>1, MatchPanicOK
  <2>3. frame' = [frame EXCEPT ![e] = h] /\ UNCHANGED <<storage, groups, threads, value, ghosts>>
    BY <1>6 DEF MatchPanic
  <2> HIDE DEF h
  <2> QED  BY <1>1, <2>2, <2>3, OneFrame
<1>7. ASSUME NEW out \in {"pending", "panicked"}, EndScan(e, out) PROVE EInv'
  <2> DEFINE h == [Flushed(f, out) EXCEPT
                     !.stage = IF f.tracked THEN "wait" ELSE "done",
                     !.result = IF f.tracked THEN @
                                ELSE IF out = "panicked" THEN "panicked" ELSE "ok"]
  <2>1. f.stage = "scan" /\ Len(f.verdict) = Len(f.snap)
    BY <1>7 DEF EndScan
  <2>2. FrameOK(h)
    <3> HIDE DEF f
    <3> QED  BY <1>1, <2>1, EndScanOK
  <2>3. frame' = [frame EXCEPT ![e] = h] /\ UNCHANGED <<storage, groups, threads, value, ghosts>>
    BY <1>7 DEF EndScan
  <2> HIDE DEF h
  <2> QED  BY <1>1, <2>2, <2>3, OneFrame
<1>8. ASSUME NEW n \in DOMAIN f.deliveries, NEW out \in {"ok", "panicked"} \cup Errors,
             Settle(e, n, out)
      PROVE  EInv'
  <2> DEFINE h == [f EXCEPT !.deliveries[n].out = out]
  <2>1. f.tracked /\ f.stage \in {"scan", "wait"} /\ n \in Pending(f)
    BY <1>8 DEF Settle
  <2>2. FrameOK(h)
    <3> HIDE DEF f
    <3> QED  BY <1>1, <1>8, <2>1, SettleOK
  <2>3. frame' = [frame EXCEPT ![e] = h] /\ UNCHANGED <<storage, groups, threads, value, ghosts>>
    BY <1>8 DEF Settle
  <2> HIDE DEF h
  <2> QED  BY <1>1, <2>2, <2>3, OneFrame
<1>9. CASE Return(e)
  <2>1. f.stage = "wait" /\ Pending(f) = {}
    BY <1>9 DEF Return
  <2>2. PICK r \in {"ok"} \cup {f.deliveries[n].out : n \in Failed(f)} :
          /\ IF Failed(f) = {} THEN r = "ok"
             ELSE \E n \in Failed(f) : r = f.deliveries[n].out /\ \A m \in Failed(f) : n <= m
          /\ frame' = [frame EXCEPT ![e].stage = "done", ![e].result = r]
    BY <1>9 DEF Return
  <2> DEFINE h == [f EXCEPT !.stage = "done", !.result = r]
  <2>3. FrameOK(h)
    <3> HIDE DEF f
    <3> QED  BY <1>1, <2>1, <2>2, ReturnOK
  <2>4. frame' = [frame EXCEPT ![e] = h] /\ UNCHANGED <<storage, groups, threads, value, ghosts>>
    BY <1>9, <2>2 DEF Return, FrameInv
  <2> HIDE DEF h
  <2> QED  BY <1>1, <2>3, <2>4, OneFrame
<1> QED  BY <1>3, <1>4, <1>5, <1>6, <1>7, <1>8, <1>9 DEF Emitting, Receivers

\* The invariant holds throughout.
THEOREM EventsInvariant == Spec => []EInv
<1>1. Init => EInv
  <2> SUFFICES ASSUME Init PROVE EInv
    OBVIOUS
  <2>1. ListInv
    BY ListInit
  <2> DEFINE f == NewFrame
  <2>2. /\ f.snap = <<>> /\ f.verdict = <<>> /\ f.deliveries = <<>> /\ f.previous = None
        /\ f.stage = "new" /\ f.result = "none" /\ f.must = {} /\ f.dead = {}
    BY DEF NewFrame
  <2> HIDE DEF f
  <2>3. SnapshotOK(f)
    BY <2>2 DEF SnapshotOK, Distinct, Entries
  <2>4. StageOK(f) /\ ResultOK(f) /\ ~CutShort(f)
    BY <2>2 DEF StageOK, ResultOK, CutShort
  <2>5. OrderOK(f)
    <3>1. DeliveredTo(f) = <<>> /\ Held(f) = <<>> /\ Took(f) = <<>>
      <4>1. DeliveredTo(f) = <<>> /\ Held(f) = <<>>
        BY <2>2 DEF DeliveredTo, Held
      <4> QED  BY <2>2, <4>1, TookNothing
    <3> QED  BY <2>4, <3>1 DEF OrderOK
  <2>6. FrameOK(f)
    BY <2>3, <2>4, <2>5, NewFrameTypes DEF FrameOK, f
  <2>7. frame = [e \in Emissions |-> f]
    BY DEF Init, f
  <2>8. FrameInv
    BY <2>6, <2>7 DEF FrameInv
  <2> QED  BY <2>1, <2>8 DEF EInv
<1>2. EInv /\ [Next]_vars => EInv'
  <2> SUFFICES ASSUME EInv, [Next]_vars PROVE EInv'
    OBVIOUS
  <2>1. ASSUME ListInv', UNCHANGED frame PROVE EInv'
    <3>1. FrameInv'
      BY <2>1 DEF EInv, FrameInv
    <3> QED  BY <2>1, <3>1 DEF EInv
  <2> USE DEF EInv
  <2>2. ASSUME NEW t \in Threads, Subscribing(t) PROVE EInv'
    <3>1. CASE Reserve(t)
      BY <2>1, <3>1, ReserveKeeps DEF Reserve
    <3>2. CASE Exhausted(t)
      BY <2>1, <3>2, ExhaustedKeeps DEF Exhausted
    <3>3. CASE Push(t)
      BY <2>1, <3>3, PushKeeps DEF Push
    <3>4. CASE Finish(t)
      BY <2>1, <3>4, FinishKeeps DEF Finish
    <3>5. CASE Own
      BY <2>1, <3>5, OwnKeeps DEF Own
    <3> QED  BY <2>2, <3>1, <3>2, <3>3, <3>4, <3>5 DEF Subscribing
  <2>3. ASSUME NEW t \in Threads, Disconnecting(t) PROVE EInv'
    <3>1. CASE StartGroup(t)
      BY <2>1, <3>1, StartGroupKeeps DEF StartGroup
    <3>2. CASE RemoveNext(t)
      BY <2>1, <3>2, RemoveNextKeeps DEF RemoveNext
    <3>3. CASE EndGroup(t)
      BY <2>1, <3>3, EndGroupKeeps DEF EndGroup
    <3> QED  BY <2>3, <3>1, <3>2, <3>3 DEF Disconnecting
  <2>4. ASSUME NEW t \in Threads, NEW g \in Groups, Begin(t, g) PROVE EInv'
    BY <2>1, <2>4, BeginKeeps DEF Begin
  <2>5. ASSUME NEW t \in Threads, NEW g \in Groups, DisconnectGroup(t, g) PROVE EInv'
    BY <2>1, <2>5, DisconnectGroupKeeps DEF DisconnectGroup
  <2>6. ASSUME NEW t \in Threads, NEW id \in Ids, Disconnect(t, id) PROVE EInv'
    BY <2>1, <2>6, DisconnectKeeps DEF Disconnect
  <2>7. CASE Destroy
    BY <2>1, <2>7, DestroyKeeps DEF Destroy
  <2>8. ASSUME NEW e \in Emissions, Emitting(e) \/ Receivers(e) \/ \E tracked \in BOOLEAN : Emit(e, tracked)
        PROVE  EInv'
    BY <2>8, EmissionKeeps
  <2>9. CASE UNCHANGED vars
    BY <2>1, <2>9, ListFrame DEF vars
  <2> QED  BY <2>2, <2>3, <2>4, <2>5, <2>6, <2>7, <2>8, <2>9 DEF Next
<1> QED  BY <1>1, <1>2, PTL DEF Spec

\* The types of the variables.
THEOREM EventsTypesCorrect == Spec => []TypeOK
<1>1. EInv => TypeOK
  <2> SUFFICES ASSUME EInv PROVE TypeOK
    OBVIOUS
  <2>1. frame \in [Emissions -> Frames]
    BY DEF EInv, FrameInv, FrameOK
  <2> QED  BY <2>1 DEF EInv, ListInv, ListTypes, TypeOK
<1> QED  BY <1>1, EventsInvariant, PTL

\* Once a disconnect of a connection, or of its group, has returned, the
\* connection is not listed, whatever other threads are in the middle of.
THEOREM GoneStaysUnlisted == Spec => []GoneIsUnlisted
<1>1. EInv => GoneIsUnlisted
  <2> SUFFICES ASSUME EInv PROVE GoneIsUnlisted
    OBVIOUS
  <2>1. ToSet(list) = Entries(list)
    BY ToSetEntries DEF EInv, ListInv, ListTypes
  <2> QED  BY <2>1 DEF EInv, ListInv, IdentitiesOK, GoneIsUnlisted
<1> QED  BY <1>1, EventsInvariant, PTL

\* Once the source value is destroyed, and its shard has dropped its guards, no
\* connection it ever owned is listed.
THEOREM DestroyedValueIsSilent == Spec => []DestroyedIsSilent
<1>1. EInv => DestroyedIsSilent
  <2> SUFFICES ASSUME EInv, ~alive, op[Owner] = "idle", NEW g \in kept
               PROVE  ToSet(conns[g]) \cap ToSet(list) = {}
    BY DEF DestroyedIsSilent
  <2>1. owned = <<>> /\ todo[Owner] = <<>>
    BY EventsAssumption DEF EInv, ListInv, ValueOK, ThreadOK
  <2>2. Unlisted(g)
    BY <2>1 DEF EInv, ListInv, ValueOK, Entries
  <2>3. list \in Seq(Ids) /\ conns[g] \in Seq(Ids)
    BY DEF EInv, ListInv, ListTypes
  <2>4. ToSet(list) = Entries(list) /\ ToSet(conns[g]) = Entries(conns[g])
    BY <2>3, ToSetEntries
  <2> QED  BY <2>2, <2>4 DEF Unlisted
<1> QED  BY <1>1, EventsInvariant, PTL

\* At every point of a scan what has been dispatched, with the match held back,
\* is what was taken so far, in connection order.
THEOREM DispatchesInOrder == Spec => []InConnectionOrder
<1>1. EInv => InConnectionOrder
  BY DEF EInv, FrameInv, FrameOK, OrderOK, Took, InConnectionOrder
<1> QED  BY <1>1, EventsInvariant, PTL

\* A tracked emission returns when every delivery has settled, with the error
\* of the first that failed, if any did.
THEOREM ResultOfTracked == Spec => []TrackedResult
<1>1. EInv => TrackedResult
  BY DEF EInv, FrameInv, FrameOK, ResultOK, TrackedResult
<1> QED  BY <1>1, EventsInvariant, PTL

\* Deliveries go to connections of the snapshot.
LEMMA DeliveredInSnapshot ==
  ASSUME NEW f, FrameOK(f)
  PROVE  Entries(DeliveredTo(f)) \subseteq Entries(f.snap)
<1> DEFINE a == DeliveredTo(f)
           b == Held(f)
           c == Took(f)
<1>1. a \in Seq(Ids) /\ b \in Seq(Ids) /\ c \in Seq(Ids) /\ Entries(c) \subseteq Entries(f.snap)
  BY FrameParts, TookTypes DEF FrameOK, SnapshotOK
<1>2. IsPrefix(a, c) \/ a \o b = c
  BY DEF FrameOK, OrderOK
<1> HIDE DEF a, b, c
<1>3. Entries(a) \subseteq Entries(c)
  <2>1. CASE IsPrefix(a, c)
    <3>1. Len(a) <= Len(c) /\ \A i \in 1..Len(a) : a[i] = c[i] /\ i \in 1..Len(c)
      <4>1. Len(a) \in Nat /\ Len(c) \in Nat /\ Len(a) <= Len(c) /\ SubSeq(a, 1, Len(a)) = SubSeq(c, 1, Len(a))
        BY <1>1, <2>1 DEF IsPrefix
      <4>2. ASSUME NEW i \in 1..Len(a) PROVE SubSeq(a, 1, Len(a))[i] = a[i] /\ SubSeq(c, 1, Len(a))[i] = c[i]
        BY <1>1, <4>1
      <4> QED  BY <4>1, <4>2
    <3> QED  BY <3>1 DEF Entries
  <2>2. CASE a \o b = c
    <3>1. Entries(a \o b) = Entries(a) \cup Entries(b)
      BY <1>1, ConcatEntries
    <3> QED  BY <2>2, <3>1
  <2> QED  BY <1>2, <2>1, <2>2
<1>4. Entries(a) \subseteq Entries(f.snap)
  BY <1>1, <1>3
<1> QED  BY <1>4 DEF a

\* An emission that starts after a disconnect returned does not deliver to the
\* connection.
THEOREM DisconnectSilences == Spec => []SilentAfterDisconnect
<1>1. EInv => SilentAfterDisconnect
  <2> SUFFICES ASSUME EInv, NEW e \in Emissions
               PROVE  ToSet(DeliveredTo(frame[e])) \cap frame[e].dead = {}
    BY DEF SilentAfterDisconnect
  <2> DEFINE f == frame[e]
  <2>1. FrameOK(f)
    BY DEF EInv, FrameInv
  <2> HIDE DEF f
  <2>2. f \in Frames /\ f.dead \cap Entries(f.snap) = {}
    BY <2>1 DEF FrameOK, SnapshotOK
  <2>3. DeliveredTo(f) \in Seq(Ids) /\ Entries(DeliveredTo(f)) \subseteq Entries(f.snap)
    BY <2>1, <2>2, FrameParts, DeliveredInSnapshot
  <2>4. ToSet(DeliveredTo(f)) = Entries(DeliveredTo(f))
    BY <2>3, ToSetEntries
  <2>5. ToSet(DeliveredTo(f)) \cap f.dead = {}
    BY <2>2, <2>3, <2>4
  <2> QED  BY <2>5 DEF f
<1> QED  BY <1>1, EventsInvariant, PTL

\* An emission delivers once to each connection that was subscribed when it
\* began, unless its label rejects the emission: panics, other subscribers and
\* disconnects do not make a tracked emission skip it.
THEOREM EverySubscriberIsReached == Spec => []ReachesSubscribers
<1>1. EInv => ReachesSubscribers
  <2> SUFFICES ASSUME EInv, NEW e \in Emissions, Scanned(frame[e]), ~CutShort(frame[e]),
                      NEW id \in frame[e].must
               PROVE  \E n \in DOMAIN frame[e].snap :
                        /\ frame[e].snap[n] = id
                        /\ Occurrences(DeliveredTo(frame[e]), id) =
                             IF frame[e].verdict[n] = "reject" THEN 0 ELSE 1
    BY DEF ReachesSubscribers
  <2> DEFINE f == frame[e]
             d == DeliveredTo(f)
  <2>1. FrameOK(f) /\ f.stage \in {"wait", "done"} /\ Len(f.verdict) = Len(f.snap) /\ ~CutShort(f) /\ id \in f.must
    BY DEF EInv, FrameInv, Scanned
  <2> HIDE DEF f
  <2>2. /\ f \in Frames /\ f.previous = None /\ d \o Held(f) = Took(f)
        /\ id \in Entries(f.snap) /\ Distinct(f.snap)
    BY <2>1 DEF FrameOK, StageOK, OrderOK, SnapshotOK
  <2>3. f.snap \in Seq(Ids) /\ f.verdict \in Seq(Verdicts) /\ d \in Seq(Ids)
    BY <2>2, FrameParts
  <2>4. d = Took(f)
    <3> HIDE DEF d
    <3>1. Held(f) = <<>> /\ d \o <<>> = d
      BY <2>2, <2>3 DEF Held
    <3> QED  BY <2>2, <3>1
  <2>5. PICK n \in 1..Len(f.snap) : f.snap[n] = id
    BY <2>2 DEF Entries
  <2>6. /\ Distinct(Took(f))
        /\ f.snap[n] \in Entries(Took(f)) <=> f.verdict[n] # "reject"
    <3>1. n \in 1..Len(f.verdict) /\ Len(f.verdict) <= Len(f.snap)
      BY <2>1, <2>3, <2>5
    <3> QED  BY <2>2, <2>3, <3>1, TookTypes
  <2> HIDE DEF d
  <2>7. DOMAIN d = 1..Len(d) /\ DOMAIN f.snap = 1..Len(f.snap)
    BY <2>3
  <2>8. Occurrences(d, id) = IF id \in Entries(d) THEN 1 ELSE 0
    BY <2>4, <2>6, <2>7, DistinctOnce DEF Occurrences
  <2>9. Occurrences(d, id) = IF f.verdict[n] = "reject" THEN 0 ELSE 1
    BY <2>4, <2>5, <2>6, <2>8
  <2> QED  BY <2>5, <2>7, <2>9 DEF d, f
<1> QED  BY <1>1, EventsInvariant, PTL
===============================================================================
