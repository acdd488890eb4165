--------------------------------- MODULE Events ---------------------------------
(* One event (event.rs) and its subscriptions (connection.rs): connections    *)
(* are added, disconnected singly or as groups and captured by emissions, on  *)
(* several threads at once; groups connected by a source value are owned by   *)
(* the value and disconnected with it (ShardValue in shard_handle.rs).        *)
(*                                                                            *)
(* The subscription list is behind a lock and every operation holds it once,  *)
(* so an action is one use of the lock.  An emission is a frame of its own:   *)
(* it scans the snapshot it took, outside the lock, and so interleaves with   *)
(* everything else, an emission made by one of its inline callbacks included. *)
(* A connection's callback, and what becomes of a tracked delivery, is the    *)
(* receiver's business: a delivery is accepted, panics as it is submitted, or *)
(* settles later with a result.                                               *)
EXTENDS Naturals, FiniteSets, Sequences, SequencesExt, Sublists

CONSTANTS
  Threads,        \* threads that subscribe and disconnect
  Owner,          \* the thread of the shard that owns the source value
  Groups,         \* connection groups that may be made
  Emissions,      \* emissions that may be made
  MaxId,          \* the identity space: usize::MAX in the code
  MaxSize,        \* bound: connections in a group
  Errors,         \* what a delivery may fail with, apart from a panic
  NoGroup         \* no group is being made

ASSUME EventsAssumption ==
  /\ Owner \in Threads
  /\ MaxId \in Nat /\ MaxSize \in Nat \ {0}
  /\ NoGroup \notin Groups

Ids == 0..MaxId
None == MaxId               \* never allocated: no connection is waiting

VARIABLES
  next_id,        \* EventInternal: the next connection identity
  list,           \* EventInternal: identities of the listed connections
  conns,          \* ConnectionGroup: identities of each group's connections
  flag,           \* ConnectionGroup: the group has been disconnected
  made,           \* groups whose token exists
  op,             \* what each thread is doing
  build,          \* the group each thread is making
  newid,          \* the identity it has reserved
  todo,           \* groups each thread disconnects, one after the other
  left,           \* connections of the first of them still to be removed
  owned,          \* ShardValue: guards of the groups the value owns
  alive,          \* the source value exists
  kept,           \* ghost: groups that the value has ever owned
  ready,          \* ghost: connections whose registration has returned
  going,          \* ghost: connections some disconnect of which has begun
  gone,           \* ghost: connections some disconnect of which has returned
  frame           \* the emissions

storage == <<next_id, list>>
groups == <<conns, flag, made>>
threads == <<op, build, newid, todo, left>>
value == <<owned, alive, kept>>
ghosts == <<ready, going, gone>>
vars == <<storage, groups, threads, value, ghosts, frame>>

\* An emission: whether it is tracked, its snapshot, what the labels of the connections scanned so
\* far answered, the match it holds back, its deliveries and its result.  must
\* and dead are ghosts: connections surely subscribed, and surely not, when it
\* began.
NewFrame == [stage |-> "new", tracked |-> FALSE, snap |-> <<>>, verdict |-> <<>>,
             previous |-> None, deliveries |-> <<>>, result |-> "none",
             must |-> {}, dead |-> {}]

Init ==
  /\ next_id = 0 /\ list = <<>>
  /\ conns = [g \in Groups |-> <<>>] /\ flag = [g \in Groups |-> FALSE] /\ made = {}
  /\ op = [t \in Threads |-> "idle"] /\ build = [t \in Threads |-> NoGroup]
  /\ newid = [t \in Threads |-> None]
  /\ todo = [t \in Threads |-> <<>>] /\ left = [t \in Threads |-> <<>>]
  /\ owned = <<>> /\ alive = TRUE /\ kept = {}
  /\ ready = {} /\ going = {} /\ gone = {}
  /\ frame = [e \in Emissions |-> NewFrame]

-------------------------------------------------------------------------------
(* Subscribing.                                                              *)

\* A thread starts to connect the signals of an interface; the source value's
\* thread does so through ShardRc::connect, which needs the value.
Begin(t, g) ==
  /\ op[t] = "idle"
  /\ t = Owner => alive
  /\ g \notin made /\ conns[g] = <<>> /\ \A u \in Threads : build[u] # g
  /\ op' = [op EXCEPT ![t] = "adding"]
  /\ build' = [build EXCEPT ![t] = g]
  /\ UNCHANGED <<storage, groups, newid, todo, left, value, ghosts, frame>>

\* (Mutant of Reserve: identities wrap.)
ReserveWrapping(t) ==
  /\ op[t] = "adding"
  /\ Len(conns[build[t]]) < MaxSize
  /\ newid' = [newid EXCEPT ![t] = next_id]
  /\ next_id' = (next_id + 1) % MaxId
  /\ op' = [op EXCEPT ![t] = "reserved"]
  /\ UNCHANGED <<list, groups, build, todo, left, value, ghosts, frame>>

\* add_labelled_tracked_connection reserves an identity, ...
Reserve(t) ==
  /\ op[t] = "adding"
  /\ Len(conns[build[t]]) < MaxSize
  /\ next_id < MaxId
  /\ newid' = [newid EXCEPT ![t] = next_id]
  /\ next_id' = next_id + 1
  /\ op' = [op EXCEPT ![t] = "reserved"]
  /\ UNCHANGED <<list, groups, build, todo, left, value, ghosts, frame>>

\* ... panics when there are none left, which abandons the group, ...
Exhausted(t) ==
  /\ op[t] = "adding"
  /\ Len(conns[build[t]]) < MaxSize
  /\ next_id = MaxId
  /\ op' = [op EXCEPT ![t] = "idle"]
  /\ UNCHANGED <<storage, groups, build, newid, todo, left, value, ghosts, frame>>

\* ... and lists the connection under the lock: the list is in this order.
Push(t) ==
  /\ op[t] = "reserved"
  /\ list' = Append(list, newid[t])
  /\ conns' = [conns EXCEPT ![build[t]] = Append(@, newid[t])]
  /\ ready' = ready \cup {newid[t]}
  /\ newid' = [newid EXCEPT ![t] = None]
  /\ op' = [op EXCEPT ![t] = "adding"]
  /\ UNCHANGED <<next_id, flag, made, build, todo, left, value, going, gone, frame>>

\* A group of the application's own.
Finish(t) ==
  /\ op[t] = "adding" /\ t # Owner
  /\ conns[build[t]] # <<>>
  /\ made' = made \cup {build[t]}
  /\ op' = [op EXCEPT ![t] = "idle"]
  /\ build' = [build EXCEPT ![t] = NoGroup]
  /\ UNCHANGED <<storage, conns, flag, newid, todo, left, value, ghosts, frame>>

Disconnected == {g \in Groups : flag[g]}
Connected == Groups \ Disconnected

\* (Mutant of Own: the guards of pruned groups are forgotten, not dropped.)
OwnForgetting ==
  /\ op[Owner] = "adding"
  /\ conns[build[Owner]] # <<>>
  /\ owned' = Append(Filtered(owned, Connected), build[Owner])
  /\ kept' = kept \cup {build[Owner]}
  /\ made' = made \cup {build[Owner]}
  /\ build' = [build EXCEPT ![Owner] = NoGroup]
  /\ op' = [op EXCEPT ![Owner] = "idle"]
  /\ UNCHANGED <<storage, conns, flag, newid, todo, left, alive, ghosts, frame>>

\* ShardRc::connect: the value keeps a guard of the new group and drops those
\* of the groups that have been disconnected meanwhile.
Own ==
  /\ op[Owner] = "adding"
  /\ conns[build[Owner]] # <<>>
  /\ owned' = Append(Filtered(owned, Connected), build[Owner])
  /\ kept' = kept \cup {build[Owner]}
  /\ made' = made \cup {build[Owner]}
  /\ build' = [build EXCEPT ![Owner] = NoGroup]
  /\ todo' = [todo EXCEPT ![Owner] = Filtered(owned, Disconnected)]
  /\ op' = [op EXCEPT ![Owner] = IF todo'[Owner] = <<>> THEN "idle" ELSE "dropping"]
  /\ UNCHANGED <<storage, conns, flag, newid, left, alive, ghosts, frame>>

-------------------------------------------------------------------------------
(* Disconnecting.                                                            *)

\* EventInternal::disconnect: the first record with this identity goes.
Without(id) ==
  IF \E n \in DOMAIN list : list[n] = id
  THEN RemoveAt(list, SelectInSeq(list, LAMBDA x : x = id))
  ELSE list

\* Connection::disconnect, or the drop of a ScopedConnection.
Disconnect(t, id) ==
  /\ op[t] = "idle"
  /\ id \in ready
  /\ list' = Without(id)
  /\ going' = going \cup {id} /\ gone' = gone \cup {id}
  /\ UNCHANGED <<next_id, groups, threads, value, ready, frame>>

\* ConnectionGroup::disconnect, or the drop of a ScopedConnectionGroup: any
\* thread with a clone of the token, at any time, any number of times.
DisconnectGroup(t, g) ==
  /\ op[t] = "idle"
  /\ g \in made
  /\ todo' = [todo EXCEPT ![t] = <<g>>]
  /\ op' = [op EXCEPT ![t] = "dropping"]
  /\ UNCHANGED <<storage, groups, build, newid, left, value, ghosts, frame>>

\* The source value is destroyed on its shard: it drops its guards.
Destroy ==
  /\ op[Owner] = "idle"
  /\ alive
  /\ alive' = FALSE
  /\ todo' = [todo EXCEPT ![Owner] = owned]
  /\ owned' = <<>>
  /\ op' = [op EXCEPT ![Owner] = IF owned = <<>> THEN "idle" ELSE "dropping"]
  /\ UNCHANGED <<storage, groups, build, newid, left, kept, ghosts, frame>>

\* (Mutant of StartGroup: a group that is disconnected already needs nothing.)
StartGroupOnce(t) ==
  /\ op[t] = "dropping"
  /\ LET g == Head(todo[t]) IN
       /\ flag' = [flag EXCEPT ![g] = TRUE]
       /\ left' = [left EXCEPT ![t] = IF flag[g] THEN <<>> ELSE conns[g]]
       /\ going' = going \cup ToSet(conns[g])
  /\ op' = [op EXCEPT ![t] = "removing"]
  /\ UNCHANGED <<storage, conns, made, build, newid, todo, value, ready, gone, frame>>

\* disconnect_all sets the flag first, ...
StartGroup(t) ==
  /\ op[t] = "dropping"
  /\ LET g == Head(todo[t]) IN
       /\ flag' = [flag EXCEPT ![g] = TRUE]
       /\ left' = [left EXCEPT ![t] = conns[g]]
       /\ going' = going \cup ToSet(conns[g])
  /\ op' = [op EXCEPT ![t] = "removing"]
  /\ UNCHANGED <<storage, conns, made, build, newid, todo, value, ready, gone, frame>>

\* ... then removes one connection after the other, ...
RemoveNext(t) ==
  /\ op[t] = "removing"
  /\ left[t] # <<>>
  /\ list' = Without(Head(left[t]))
  /\ left' = [left EXCEPT ![t] = Tail(@)]
  /\ UNCHANGED <<next_id, groups, op, build, newid, todo, value, ghosts, frame>>

\* ... and returns to the next group, if there is one.
EndGroup(t) ==
  /\ op[t] = "removing"
  /\ left[t] = <<>>
  /\ gone' = gone \cup ToSet(conns[Head(todo[t])])
  /\ todo' = [todo EXCEPT ![t] = Tail(@)]
  /\ op' = [op EXCEPT ![t] = IF Tail(todo[t]) = <<>> THEN "idle" ELSE "dropping"]
  /\ UNCHANGED <<storage, groups, build, newid, left, value, ready, going, frame>>

-------------------------------------------------------------------------------
(* Emitting.                                                                 *)

\* The scan starts from a snapshot of the list.
Emit(e, tracked) ==
  /\ frame[e].stage = "new"
  /\ frame' = [frame EXCEPT ![e] =
       [NewFrame EXCEPT !.stage = "scan", !.tracked = tracked, !.snap = list,
                        !.must = ready \ going, !.dead = gone]]
  /\ UNCHANGED <<storage, groups, threads, value, ghosts>>

Scanning(e) == frame[e].stage = "scan" /\ Len(frame[e].verdict) < Len(frame[e].snap)
Current(f) == f.snap[Len(f.verdict) + 1]

Answered(f, v) == [f EXCEPT !.verdict = Append(@, v)]
Recorded(f, id, out) ==
  [f EXCEPT !.deliveries = Append(@, [id |-> id, out |-> out])]

\* (Mutant of Flushed: a panic as the delivery is submitted is not recorded.)
FlushedUncaught(f, out) ==
  IF f.previous = None THEN f
  ELSE [Recorded(f, f.previous, IF out = "panicked" THEN "pending" ELSE out)
          EXCEPT !.previous = None,
                 !.stage = IF out = "panicked" THEN "lost" ELSE @]

\* The match held back is dispatched: its delivery is submitted, or panics.
Flushed(f, out) ==
  IF f.previous = None THEN f
  ELSE [Recorded(f, f.previous, out) EXCEPT !.previous = None]

Submissions(f) == IF f.previous = None THEN {"pending"} ELSE {"pending", "panicked"}

\* A panic leaves an untracked emission at once; a tracked one goes on.
Left(f, panicked) ==
  IF ~f.tracked /\ panicked THEN [f EXCEPT !.stage = "done", !.result = "panicked"] ELSE f

\* The label rejects the emission: the connection is skipped.
Reject(e) ==
  /\ Scanning(e)
  /\ frame' = [frame EXCEPT ![e] = Answered(@, "reject")]
  /\ UNCHANGED <<storage, groups, threads, value, ghosts>>

\* The label accepts, or there is none: the match before is dispatched and this
\* one held back, so that the last one can be given the payload itself.
Accept(e, out) ==
  /\ Scanning(e)
  /\ LET f == frame[e] IN
       /\ out \in Submissions(f)
       /\ frame' = [frame EXCEPT ![e] =
            Left([Answered(Flushed(f, out), "accept") EXCEPT !.previous = Current(f)],
                 out = "panicked")]
  /\ UNCHANGED <<storage, groups, threads, value, ghosts>>

\* (Mutant of MatchPanic: the match held back stays held back.)
MatchPanicHolding(e, out) ==
  /\ Scanning(e)
  /\ LET f == frame[e] IN
       /\ out \in Submissions(f)
       /\ frame' = [frame EXCEPT ![e] =
            Left(Recorded(Answered(f, "panic"), Current(f), "panicked"), TRUE)]
  /\ UNCHANGED <<storage, groups, threads, value, ghosts>>

\* The label panics: a tracked emission dispatches the match before it first,
\* then records the panic, in connection order.
MatchPanic(e, out) ==
  /\ Scanning(e)
  /\ LET f == frame[e] IN
       /\ out \in IF f.tracked THEN Submissions(f) ELSE {"pending"}
       /\ frame' = [frame EXCEPT ![e] =
            IF f.tracked THEN Recorded(Answered(Flushed(f, out), "panic"), Current(f), "panicked")
            ELSE Left(Answered(f, "panic"), TRUE)]
  /\ UNCHANGED <<storage, groups, threads, value, ghosts>>

\* After the scan the last match is dispatched; an untracked emission is over.
EndScan(e, out) ==
  /\ frame[e].stage = "scan"
  /\ Len(frame[e].verdict) = Len(frame[e].snap)
  /\ LET f == frame[e] IN
       /\ out \in Submissions(f)
       /\ frame' = [frame EXCEPT ![e] =
            [Flushed(f, out) EXCEPT
               !.stage = IF f.tracked THEN "wait" ELSE "done",
               !.result = IF f.tracked THEN @
                          ELSE IF out = "panicked" THEN "panicked" ELSE "ok"]]
  /\ UNCHANGED <<storage, groups, threads, value, ghosts>>

Pending(f) == {n \in DOMAIN f.deliveries : f.deliveries[n].out = "pending"}
Failed(f) == {n \in DOMAIN f.deliveries : f.deliveries[n].out \notin {"pending", "ok"}}

\* The receiver completes the n-th delivery, fails it, or is gone.
Settle(e, n, out) ==
  /\ frame[e].tracked
  /\ frame[e].stage \in {"scan", "wait"}
  /\ n \in Pending(frame[e])
  /\ out \in {"ok", "panicked"} \cup Errors
  /\ frame' = [frame EXCEPT ![e].deliveries[n].out = out]
  /\ UNCHANGED <<storage, groups, threads, value, ghosts>>

\* (Mutant of Return: it returns the first failure as soon as there is one.)
ReturnEarly(e) ==
  /\ frame[e].stage = "wait"
  /\ LET f == frame[e] IN
       /\ Pending(f) = {} \/ Failed(f) # {}
       /\ \E r \in {"ok"} \cup {f.deliveries[n].out : n \in Failed(f)} :
            /\ IF Failed(f) = {} THEN r = "ok"
               ELSE \E n \in Failed(f) : r = f.deliveries[n].out /\ \A m \in Failed(f) : n <= m
            /\ frame' = [frame EXCEPT ![e].stage = "done", ![e].result = r]
  /\ UNCHANGED <<storage, groups, threads, value, ghosts>>

\* All deliveries have settled: the first error in connection order, if any.
Return(e) ==
  /\ frame[e].stage = "wait"
  /\ LET f == frame[e] IN
       /\ Pending(f) = {}
       /\ \E r \in {"ok"} \cup {f.deliveries[n].out : n \in Failed(f)} :
            /\ IF Failed(f) = {} THEN r = "ok"
               ELSE \E n \in Failed(f) : r = f.deliveries[n].out /\ \A m \in Failed(f) : n <= m
            /\ frame' = [frame EXCEPT ![e].stage = "done", ![e].result = r]
  /\ UNCHANGED <<storage, groups, threads, value, ghosts>>

-------------------------------------------------------------------------------
Subscribing(t) ==
  Reserve(t) \/ Exhausted(t) \/ Push(t) \/ Finish(t) \/ (t = Owner /\ Own)

Disconnecting(t) == StartGroup(t) \/ RemoveNext(t) \/ EndGroup(t)

Emitting(e) ==
  \/ Reject(e) \/ Return(e)
  \/ \E out \in {"pending", "panicked"} : Accept(e, out) \/ MatchPanic(e, out) \/ EndScan(e, out)

Receivers(e) ==
  \E n \in DOMAIN frame[e].deliveries, out \in {"ok", "panicked"} \cup Errors :
     Settle(e, n, out)

Next ==
  \/ \E t \in Threads :
       \/ Subscribing(t) \/ Disconnecting(t)
       \/ \E g \in Groups : Begin(t, g) \/ DisconnectGroup(t, g)
       \/ \E id \in Ids : Disconnect(t, id)
  \/ Destroy
  \/ \E e \in Emissions :
       Emitting(e) \/ Receivers(e) \/ \E tracked \in BOOLEAN : Emit(e, tracked)

Spec == Init /\ [][Next]_vars

\* What has begun goes on: threads run, and the receivers' shards complete
\* every delivery they accepted.
Fairness ==
  /\ \A t \in Threads : WF_vars(Subscribing(t)) /\ WF_vars(Disconnecting(t))
  /\ \A e \in Emissions : WF_vars(Emitting(e)) /\ WF_vars(Receivers(e))

LiveSpec == Spec /\ Fairness

-------------------------------------------------------------------------------
(* Properties.                                                               *)

Outcomes == {"pending", "ok", "panicked"} \cup Errors

Frames ==
  [stage : {"new", "scan", "wait", "done"}, tracked : BOOLEAN, snap : Seq(Ids),
   verdict : Seq({"accept", "reject", "panic"}), previous : Ids,
   deliveries : Seq([id : Ids, out : Outcomes]),
   result : {"none"} \cup (Outcomes \ {"pending"}), must : SUBSET Ids, dead : SUBSET Ids]

\* The types of the variables.
TypeOK ==
  /\ next_id \in Ids /\ list \in Seq(Ids)
  /\ conns \in [Groups -> Seq(Ids)] /\ flag \in [Groups -> BOOLEAN] /\ made \subseteq Groups
  /\ op \in [Threads -> {"idle", "adding", "reserved", "dropping", "removing"}]
  /\ build \in [Threads -> Groups \cup {NoGroup}] /\ newid \in [Threads -> Ids]
  /\ todo \in [Threads -> Seq(Groups)] /\ left \in [Threads -> Seq(Ids)]
  /\ owned \in Seq(Groups) /\ alive \in BOOLEAN /\ kept \subseteq Groups
  /\ ready \subseteq Ids /\ going \subseteq Ids /\ gone \subseteq Ids
  /\ frame \in [Emissions -> Frames]

\* Once a disconnect of a connection, or of a group it is in, has returned, the
\* connection is not listed, although another thread may be in the middle of
\* disconnecting the same group and have set its flag.
GoneIsUnlisted == ToSet(list) \cap gone = {}

\* Once the source value is destroyed no connection it ever owned is listed,
\* those of groups pruned earlier included.
DestroyedIsSilent ==
  ~alive /\ op[Owner] = "idle" =>
     \A g \in kept : ToSet(conns[g]) \cap ToSet(list) = {}

DeliveredTo(f) == [n \in DOMAIN f.deliveries |-> f.deliveries[n].id]
Occurrences(s, x) == Cardinality({n \in DOMAIN s : s[n] = x})
Scanned(f) == f.stage \in {"wait", "done"} /\ Len(f.verdict) = Len(f.snap)
CutShort(f) == ~f.tracked /\ f.result = "panicked"

\* An emission delivers once to each connection whose registration had returned
\* and no disconnect of which had begun, unless its label rejects the emission:
\* panics of labels and callbacks, other subscribers and disconnects do not make
\* a tracked emission skip it.
ReachesSubscribers ==
  \A e \in Emissions : Scanned(frame[e]) /\ ~CutShort(frame[e]) =>
     \A id \in frame[e].must : \E n \in DOMAIN frame[e].snap :
        /\ frame[e].snap[n] = id
        /\ Occurrences(DeliveredTo(frame[e]), id) =
             IF frame[e].verdict[n] = "reject" THEN 0 ELSE 1

\* An emission that starts after a disconnect returned does not deliver to the
\* connection.
SilentAfterDisconnect ==
  \A e \in Emissions : ToSet(DeliveredTo(frame[e])) \cap frame[e].dead = {}

Taken(f) == Filtered([n \in DOMAIN f.verdict |-> n], {n \in DOMAIN f.verdict : f.verdict[n] # "reject"})
Held(f) == IF f.previous = None THEN <<>> ELSE <<f.previous>>

\* At every point of the scan what has been dispatched, with the match held
\* back, is what was taken so far, in connection order; a panic that leaves an
\* untracked emission cuts this short, and reorders nothing.
InConnectionOrder ==
  \A e \in Emissions :
     LET f == frame[e]
         taken == [k \in DOMAIN Taken(f) |-> f.snap[Taken(f)[k]]]
     IN IF CutShort(f)
        THEN IsPrefix(DeliveredTo(f), taken)
        ELSE DeliveredTo(f) \o Held(f) = taken

\* A tracked emission returns when every delivery has settled, successfully iff
\* every one succeeded, and otherwise with the error of the first connection, in
\* the order they were listed, that failed.
TrackedResult ==
  \A e \in Emissions : LET f == frame[e] IN
     f.tracked /\ f.stage = "done" =>
       /\ Pending(f) = {}
       /\ f.result = "ok" <=> Failed(f) = {}
       /\ \A n \in Failed(f) :
            f.result = f.deliveries[n].out \/ \E m \in Failed(f) : m < n

\* Every tracked emission is eventually answered.
TrackedCompletes ==
  \A e \in Emissions : frame[e].tracked ~> frame[e].stage = "done"
===============================================================================
