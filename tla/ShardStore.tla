------------------------------ MODULE ShardStore ------------------------------
(***************************************************************************)
(* The value store of one shard, the strong-handle tokens that keep values *)
(* alive from any thread, and the collection signal that tells the shard's *)
(* driver to reclaim released values                                       *)
(* (shard_handle/store.rs, the collection part of engine/driver.rs).       *)
(*                                                                         *)
(* Granularity.  Everything the owner thread does is split where another   *)
(* thread can be seen to act in between: at each load or update of a token *)
(* count and of the candidate queue, and around the driver's park and      *)
(* unpark.  A remote thread drops a token in four steps, as ShardRcId::drop *)
(* and CollectSignal::notify do: fetch_sub, closed check, push, wake.      *)
(*                                                                         *)
(* The Rc clones that a local strong reference holds always come with a    *)
(* token, so "strong_count = 1" on a token-free value says that no weak    *)
(* call in flight (borrowed) uses it.                                      *)
(***************************************************************************)
EXTENDS Naturals, Sequences, FiniteSets

CONSTANTS
  Threads,    (* threads other than the shard's own                         *)
  RcIds,      (* the ShardRcId tokens that can exist at one time (bound)    *)
  MaxKeys,    (* values bound during the shard's life (bound)               *)
  MaxCalls,   (* commands sent to the shard (bound)                         *)
  MaxWork,    (* values and commands together (bound)                       *)
  Local,      (* a token in owner-thread code (a ShardRc)                   *)
  Queued,     (* a token retained by a strong call waiting in the queue     *)
  Flight,     (* a token retained by a strong call that has started         *)
  Detaching,  (* a token inside a queued detach command                     *)
  Detached,   (* a token in the store's detached list                       *)
  Nobody      (* no such token: dropped or not created                      *)

Keys  == 1..MaxKeys
NoKey == 0
Places == Threads \cup Keys \cup {Local, Queued, Flight, Detaching, Detached}

\* The sets are finite and the places a token can be in are all different.
ASSUME StoreAssumption ==
  /\ MaxKeys \in Nat
  /\ MaxCalls \in Nat
  /\ MaxWork \in Nat
  /\ IsFiniteSet(RcIds)
  /\ Threads \cap Keys = {}
  /\ Local \notin Threads \cup Keys \cup {Queued, Flight, Detaching, Detached, Nobody}
  /\ Queued \notin Threads \cup Keys \cup {Flight, Detaching, Detached, Nobody}
  /\ Flight \notin Threads \cup Keys \cup {Detaching, Detached, Nobody}
  /\ Detaching \notin Threads \cup Keys \cup {Detached, Nobody}
  /\ Detached \notin Threads \cup Keys \cup {Nobody}
  /\ Nobody \notin Threads \cup Keys

VARIABLES
  last_id,     (* ShardRcStore::last_id                                     *)
  values,      (* keys in ShardRcStore::values                              *)
  tokens,      (* StoreEntry::tokens, the atomic counter of each entry      *)
  key,         (* key[i]: the entry that token i retains, or NoKey          *)
  holder,      (* holder[i]: who has token i; a key means "a field of it"   *)
  borrowed,    (* Rc clones without a token: weak calls in flight, per key  *)
  weakq,       (* weak calls waiting in the queue, per key                  *)
  sent,        (* commands sent so far, to bound the model                  *)
  candidates,  (* CollectSignal::candidates                                 *)
  closed,      (* CollectSignal::closed                                     *)
  waker,       (* whether CollectSignal::waker holds the driver's waker     *)
  notified,    (* the driver has been woken and not been polled since       *)
  orphans,     (* ShardRcStore::orphans                                     *)
  batch,       (* keys take_garbage has still to examine                    *)
  retired,     (* allocations taken out of the store, not yet dropped       *)
  leaked,      (* allocations that are never dropped: see UnwindValue       *)
  detached,    (* ShardRcStore::detached                                    *)
  popped,      (* the key release_detached has popped, or NoKey             *)
  open,        (* the admission queue accepts commands                      *)
  crashed,     (* a value's destructor unwound into the driver or the store *)
  killed,      (* the driver's future was dropped before it ended           *)
  stage,       (* where drive() is: see Stages                              *)
  pc,          (* the owner thread's position inside the stage: see Points  *)
  step,        (* step[t]: where thread t is inside ShardRcId::drop         *)
  rel          (* rel[t]: the key thread t is releasing, or NoKey           *)

life  == <<last_id, values>>
ids   == <<tokens, key, holder>>
calls == <<borrowed, weakq, sent>>
signal == <<candidates, waker, notified>>
garbage == <<orphans, batch, retired, leaked>>
stack == <<detached, popped>>
flags == <<closed, open, crashed, killed>>
remote == <<step, rel>>
vars == <<life, ids, calls, signal, garbage, stack, flags, stage, pc, remote>>

(***************************************************************************)
(* "run" is the select loop, "drain" the grace period, "cancel" the drop   *)
(* of unfinished futures, "release" release_detached, "final" the last     *)
(* collect, "drop" ContextGuard::drop with ShardRcStore::drop, "down" after. *)
(***************************************************************************)
Stages == {"run", "drain", "cancel", "release", "final", "drop", "down"}
Points == {"turn", "armed", "idle", "parked", "done", "check", "retire", "drop"}

Live(k) == {i \in RcIds : key[i] = k}
At(p)   == {i \in RcIds : holder[i] = p}

Init ==
  /\ last_id = 0
  /\ values = {}
  /\ tokens = [k \in Keys |-> 0]
  /\ key = [i \in RcIds |-> NoKey]
  /\ holder = [i \in RcIds |-> Nobody]
  /\ borrowed = [k \in Keys |-> 0]
  /\ weakq = [k \in Keys |-> 0]
  /\ sent = 0
  /\ candidates = {} /\ orphans = {} /\ batch = {} /\ retired = {} /\ leaked = {}
  /\ closed = FALSE /\ waker = FALSE /\ notified = FALSE
  /\ detached = <<>> /\ popped = NoKey
  /\ open = TRUE /\ crashed = FALSE /\ killed = FALSE
  /\ stage = "run" /\ pc = "turn"
  /\ step = [t \in Threads |-> "idle"]
  /\ rel = [t \in Threads |-> NoKey]

-------------------------------------------------------------------------------
(* Tokens.                                                                   *)

\* ShardRcId::acquire: count a new token.
Acquire(i, k, p) ==
  /\ key[i] = NoKey
  /\ key' = [key EXCEPT ![i] = k]
  /\ holder' = [holder EXCEPT ![i] = p]
  /\ tokens' = [tokens EXCEPT ![k] = @ + 1]

\* A token changes hands; the count does not move.
Move(i, p) ==
  /\ holder' = [holder EXCEPT ![i] = p]
  /\ UNCHANGED <<key, tokens>>

\* The fetch_sub of ShardRcId::drop.
Release(i) ==
  /\ key' = [key EXCEPT ![i] = NoKey]
  /\ holder' = [holder EXCEPT ![i] = Nobody]
  /\ tokens' = [tokens EXCEPT ![key[i]] = @ - 1]

\* AtomicWaker::wake takes the registered waker, if any, and wakes the driver.
Wake ==
  /\ waker' = FALSE
  /\ notified' = (notified \/ waker)

\* ShardRcId::drop on the owner thread: the whole drop, notify included.
OwnerDrop(i) ==
  /\ Release(i)
  /\ IF tokens[key[i]] = 1 /\ ~closed
     THEN candidates' = candidates \cup {key[i]} /\ Wake
     ELSE UNCHANGED signal

-------------------------------------------------------------------------------
(* Other threads.                                                            *)

Idle(t) == step[t] = "idle"

\* (Mutant of RemoteClone: the clone is not counted.)
CloneUncounted(t, i, new) ==
  /\ Idle(t) /\ holder[i] = t
  /\ key[new] = NoKey
  /\ key' = [key EXCEPT ![new] = key[i]]
  /\ holder' = [holder EXCEPT ![new] = t]
  /\ UNCHANGED <<tokens, life, calls, signal, garbage, stack, flags, stage, pc, remote>>

\* ShardRcHandle::clone.
RemoteClone(t, i, new) ==
  /\ Idle(t) /\ holder[i] = t
  /\ Acquire(new, key[i], t)
  /\ UNCHANGED <<life, calls, signal, garbage, stack, flags, stage, pc, remote>>

\* (Mutant of RemoteDrop: off by one in the test of fetch_sub's result.)
DropOffByOne(t, i) ==
  /\ Idle(t) /\ holder[i] = t
  /\ Release(i)
  /\ IF tokens[key[i]] = 2
     THEN /\ step' = [step EXCEPT ![t] = "released"]
          /\ rel' = [rel EXCEPT ![t] = key[i]]
     ELSE UNCHANGED remote
  /\ UNCHANGED <<life, calls, signal, garbage, stack, flags, stage, pc>>

\* ShardRcId::drop: fetch_sub.  Only the drop that saw 1 goes on to notify.
RemoteDrop(t, i) ==
  /\ Idle(t) /\ holder[i] = t
  /\ Release(i)
  /\ IF tokens[key[i]] = 1
     THEN /\ step' = [step EXCEPT ![t] = "released"]
          /\ rel' = [rel EXCEPT ![t] = key[i]]
     ELSE UNCHANGED remote
  /\ UNCHANGED <<life, calls, signal, garbage, stack, flags, stage, pc>>

\* notify: return early once the store is gone.
NotifyCheck(t) ==
  /\ step[t] = "released"
  /\ IF closed
     THEN /\ step' = [step EXCEPT ![t] = "idle"]
          /\ rel' = [rel EXCEPT ![t] = NoKey]
     ELSE /\ step' = [step EXCEPT ![t] = "open"]
          /\ UNCHANGED rel
  /\ UNCHANGED <<life, ids, calls, signal, garbage, stack, flags, stage, pc>>

\* notify: push the key under the lock.
NotifyPush(t) ==
  /\ step[t] = "open"
  /\ candidates' = candidates \cup {rel[t]}
  /\ step' = [step EXCEPT ![t] = "pushed"]
  /\ UNCHANGED <<life, ids, calls, waker, notified, garbage, stack, flags, stage, pc, rel>>

\* notify: wake the driver.
NotifyWake(t) ==
  /\ step[t] = "pushed"
  /\ Wake
  /\ step' = [step EXCEPT ![t] = "idle"]
  /\ rel' = [rel EXCEPT ![t] = NoKey]
  /\ UNCHANGED <<life, ids, calls, candidates, garbage, stack, flags, stage, pc>>

\* A command enters the open queue and wakes the driver through the channel.
Admit ==
  /\ open
  /\ sent < MaxCalls /\ last_id + sent < MaxWork
  /\ sent' = sent + 1
  /\ notified' = TRUE

\* A strong call: its Target moves a token into the queue.  (A call rejected
\* by a closed queue drops the token on the caller's thread: RemoteDrop.)
SendStrong(t, i) ==
  /\ Idle(t) /\ holder[i] = t
  /\ Admit
  /\ Move(i, Queued)
  /\ UNCHANGED <<life, borrowed, weakq, candidates, waker, garbage, stack, flags, stage, pc, remote>>

\* ShardRcHandle::detach off the shard's thread queues the handle's own token.
SendDetach(t, i) ==
  /\ Idle(t) /\ holder[i] = t
  /\ Admit
  /\ Move(i, Detaching)
  /\ UNCHANGED <<life, borrowed, weakq, candidates, waker, garbage, stack, flags, stage, pc, remote>>

\* A weak call carries the key alone.
SendWeak(t, k) ==
  /\ Idle(t) /\ k <= last_id
  /\ Admit
  /\ weakq' = [weakq EXCEPT ![k] = @ + 1]
  /\ UNCHANGED <<life, ids, borrowed, candidates, waker, garbage, stack, flags, stage, pc, remote>>

\* ShardEventHandle::request_shutdown, by anyone.
RequestShutdown ==
  /\ open
  /\ open' = FALSE
  /\ notified' = TRUE
  /\ UNCHANGED <<life, ids, calls, candidates, waker, garbage, stack, closed, crashed, killed, stage, pc, remote>>

-------------------------------------------------------------------------------
(* Application code on the owner thread: it runs while the driver polls a    *)
(* callback or task, in the select loop or in the drain.  A poll of a parked *)
(* driver starts a new round of the select.                                  *)

OwnerRuns ==
  \/ stage = "run" /\ pc \in {"turn", "idle", "parked"}
  \/ stage = "drain" /\ pc = "turn"

Resume ==
  /\ OwnerRuns
  /\ pc' = IF pc = "parked" THEN "turn" ELSE pc

\* ShardRcStore::insert, through bind.
Bind(new) ==
  /\ Resume
  /\ last_id < MaxKeys /\ last_id + sent < MaxWork
  /\ last_id' = last_id + 1
  /\ values' = values \cup {last_id + 1}
  /\ Acquire(new, last_id + 1, Local)
  /\ UNCHANGED <<calls, signal, garbage, stack, flags, stage, remote>>

\* get_retained, find_value, or an upgrade of a weak local reference.
TryLocal(k, new) ==
  /\ Resume
  /\ k \in values
  /\ Acquire(new, k, Local)
  /\ UNCHANGED <<life, calls, signal, garbage, stack, flags, stage, remote>>

\* A handle is given to another thread or kept in a field of a stored value.
HandOut(i, p) ==
  /\ Resume
  /\ holder[i] = Local
  /\ p \in Threads \cup values
  /\ Move(i, p)
  /\ UNCHANGED <<life, calls, signal, garbage, stack, flags, stage, remote>>

\* The last use of a ShardRc: its token goes first, then its Rc clone.  It may
\* go with a dropped future.
DropLocal(i) ==
  /\ \/ Resume
     \/ stage = "cancel" /\ pc = "turn" /\ UNCHANGED pc
  /\ holder[i] = Local
  /\ OwnerDrop(i)
  /\ UNCHANGED <<life, calls, garbage, stack, flags, stage, remote>>

\* A local reference to k exists, and keeps its allocation.
Kept(k) == \E i \in At(Local) : key[i] = k

\* The store is gone, and what it held.
Ended == stage = "down" /\ pc = "turn" /\ detached = <<>>

\* A ShardRc outlives the shard: it keeps its value, which may be referred to
\* anew (ShardWeak::upgrade), ...
UpgradeAfter(k, new) ==
  /\ Ended
  /\ Kept(k)
  /\ Acquire(new, k, Local)
  /\ UNCHANGED <<life, calls, signal, garbage, stack, flags, stage, pc, remote>>

\* ... until the last one of the value goes, and destroys it.
DropAfter(i) ==
  /\ Ended
  /\ holder[i] = Local
  /\ OwnerDrop(i)
  /\ IF \E j \in At(Local) \ {i} : key[j] = key[i]
     THEN UNCHANGED <<retired, pc>>
     ELSE /\ retired' = {key[i]} \ leaked
          /\ pc' = "drop"
  /\ UNCHANGED <<life, calls, orphans, batch, leaked, stack, flags, stage, remote>>

\* ShardRc::detach clones the token into the list, then drops the reference.
DetachLocal(i) ==
  /\ Resume
  /\ holder[i] = Local
  /\ Move(i, Detached)
  /\ detached' = Append(detached, i)
  /\ UNCHANGED <<life, calls, signal, garbage, popped, flags, stage, remote>>

-------------------------------------------------------------------------------
(* Commands.  A synchronous Run is a call that finishes in the turn that     *)
(* starts it.                                                                *)

Selecting == stage = "run" /\ pc \in {"turn", "idle"}

\* The call looks its value up (store.get): with a value it is in flight,
\* without one it completes at once and drops its token.
StartStrong(i) ==
  /\ Selecting
  /\ holder[i] = Queued
  /\ IF key[i] \in values
     THEN Move(i, Flight) /\ UNCHANGED signal /\ pc' = "turn"
     ELSE OwnerDrop(i) /\ pc' = "done"
  /\ UNCHANGED <<life, calls, garbage, stack, flags, stage, remote>>

StartWeak(k) ==
  /\ Selecting
  /\ weakq[k] > 0
  /\ weakq' = [weakq EXCEPT ![k] = @ - 1]
  /\ IF k \in values
     THEN borrowed' = [borrowed EXCEPT ![k] = @ + 1] /\ pc' = "turn"
     ELSE UNCHANGED borrowed /\ pc' = "done"
  /\ UNCHANGED <<life, ids, sent, signal, garbage, stack, flags, stage, remote>>

RunDetach(i) ==
  /\ Selecting
  /\ holder[i] = Detaching
  /\ Move(i, Detached)
  /\ detached' = Append(detached, i)
  /\ pc' = "done"
  /\ UNCHANGED <<life, calls, signal, garbage, popped, flags, stage, remote>>

\* A call in flight ends.  The select loop then rechecks orphans; the drain
\* does not.
Completed == pc' = IF stage = "run" THEN "done" ELSE "turn"

FinishStrong(i) ==
  /\ OwnerRuns
  /\ holder[i] = Flight
  /\ OwnerDrop(i)
  /\ Completed
  /\ UNCHANGED <<life, calls, garbage, stack, flags, stage, remote>>

FinishWeak(k) ==
  /\ OwnerRuns
  /\ borrowed[k] > 0
  /\ borrowed' = [borrowed EXCEPT ![k] = @ - 1]
  /\ Completed
  /\ UNCHANGED <<life, ids, weakq, sent, signal, garbage, stack, flags, stage, remote>>

-------------------------------------------------------------------------------
(* The driver.                                                               *)

\* (Mutant of TakeGarbage: the orphans are taken but not examined again.)
TakeCandidatesOnly ==
  /\ batch' = candidates
  /\ orphans' = {}
  /\ candidates' = {}
  /\ pc' = "check"
  /\ UNCHANGED <<retired, leaked, waker, notified>>

\* take_garbage begins: orphans and drained candidates become one batch.
TakeGarbage ==
  /\ batch' = orphans \cup candidates
  /\ orphans' = {}
  /\ candidates' = {}
  /\ pc' = "check"
  /\ UNCHANGED <<retired, leaked, waker, notified>>

\* (Mutant of CollectOrphans: completions do not recheck orphans.)
SkipOrphans ==
  /\ pc = "done"
  /\ pc' = "turn"
  /\ UNCHANGED <<life, ids, calls, signal, garbage, stack, flags, stage, remote>>

\* collect_orphans, after every completed command or future.
CollectOrphans ==
  /\ pc = "done"
  /\ IF orphans = {}
     THEN pc' = "turn" /\ UNCHANGED <<signal, garbage>>
     ELSE TakeGarbage
  /\ UNCHANGED <<life, ids, calls, stack, flags, stage, remote>>

\* (Mutant of RegisterWaker: the queue is polled without registering.)
RegisterNothing ==
  /\ stage = "run" /\ pc = "turn"
  /\ pc' = "armed"
  /\ UNCHANGED <<life, ids, calls, signal, garbage, stack, flags, stage, remote>>

\* poll_candidates: register the driver first, ...
RegisterWaker ==
  /\ stage = "run" /\ pc = "turn"
  /\ waker' = TRUE
  /\ pc' = "armed"
  /\ UNCHANGED <<life, ids, calls, candidates, notified, garbage, stack, flags, stage, remote>>

\* ... then look at the queue.
PollCandidates ==
  /\ pc = "armed"
  /\ IF candidates = {}
     THEN pc' = "idle" /\ UNCHANGED <<signal, garbage>>
     ELSE TakeGarbage
  /\ UNCHANGED <<life, ids, calls, stack, flags, stage, remote>>

NothingQueued ==
  /\ At(Queued) \cup At(Detaching) = {}
  /\ \A k \in Keys : weakq[k] = 0

\* Every branch of the select is pending.
Park ==
  /\ pc = "idle"
  /\ notified \/ (NothingQueued /\ open)
  /\ pc' = "parked"
  /\ UNCHANGED <<life, ids, calls, signal, garbage, stack, flags, stage, remote>>

Unpark ==
  /\ pc = "parked" /\ notified
  /\ notified' = FALSE
  /\ pc' = "turn"
  /\ UNCHANGED <<life, ids, calls, candidates, waker, garbage, stack, flags, stage, remote>>

\* (Mutant of CheckKey: a borrowed key is dropped instead of orphaned.)
CheckWithoutOrphans(k) ==
  /\ pc = "check" /\ k \in batch
  /\ \A j \in batch : k <= j
  /\ batch' = batch \ {k}
  /\ IF k \in values /\ tokens[k] = 0 /\ borrowed[k] = 0
     THEN values' = values \ {k} /\ retired' = retired \cup {k}
     ELSE UNCHANGED <<values, retired>>
  /\ UNCHANGED <<last_id, ids, calls, signal, orphans, leaked, stack, flags, stage, pc, remote>>

\* (Mutant of CheckKey: a key re-acquired since it was queued is collected.)
CheckWithoutTokens(k) ==
  /\ pc = "check" /\ k \in batch
  /\ \A j \in batch : k <= j
  /\ batch' = batch \ {k}
  /\ IF k \in values /\ borrowed[k] = 0
     THEN values' = values \ {k} /\ retired' = retired \cup {k}
     ELSE UNCHANGED <<values, retired>>
  /\ UNCHANGED <<last_id, ids, calls, signal, orphans, leaked, stack, flags, stage, pc, remote>>

\* take_garbage examines the keys in ascending order.
CheckKey(k) ==
  /\ pc = "check" /\ k \in batch
  /\ \A j \in batch : k <= j
  /\ batch' = batch \ {k}
  /\ \/ /\ k \notin values \/ tokens[k] # 0
        /\ UNCHANGED <<values, orphans, retired>>
     \/ /\ k \in values /\ tokens[k] = 0 /\ borrowed[k] = 0
        /\ values' = values \ {k}
        /\ retired' = retired \cup {k}
        /\ UNCHANGED orphans
     \/ /\ k \in values /\ tokens[k] = 0 /\ borrowed[k] # 0
        /\ orphans' = orphans \cup {k}
        /\ UNCHANGED <<values, retired>>
  /\ UNCHANGED <<last_id, ids, calls, signal, leaked, stack, flags, stage, pc, remote>>

EndCheck ==
  /\ pc = "check" /\ batch = {}
  /\ pc' = "drop"
  /\ UNCHANGED <<life, ids, calls, signal, garbage, stack, flags, stage, remote>>

\* Allocations drop in the order they were retired.  The store's own drop
\* follows its hash map, in any order.
NextToDrop(k) ==
  /\ pc = "drop" /\ k \in retired
  /\ stage = "down" \/ \A j \in retired : k <= j

\* It was the last reference: the value's destructor runs.
Destroying(k) == NextToDrop(k) /\ ~Kept(k)

\* A destructor drops a handle kept in a field, ...
DropField(k, i) ==
  /\ Destroying(k)
  /\ holder[i] = k
  /\ OwnerDrop(i)
  /\ UNCHANGED <<life, calls, garbage, stack, flags, stage, pc, remote>>

\* ... or detaches it, while the thread still has the shard's store.
DetachField(k, i) ==
  /\ Destroying(k)
  /\ holder[i] = k
  /\ stage \notin {"drop", "down"}
  /\ Move(i, Detached)
  /\ detached' = Append(detached, i)
  /\ UNCHANGED <<life, calls, signal, garbage, popped, flags, stage, pc, remote>>

\* The allocation is gone, or kept by a local reference once the store has
\* let go of it.
DropValue(k) ==
  /\ NextToDrop(k)
  /\ At(k) = {} \/ Kept(k)
  /\ retired' = retired \ {k}
  /\ UNCHANGED <<life, ids, calls, signal, orphans, batch, leaked, stack, flags, stage, pc, remote>>

\* The value's destructor unwinds: a pass is not inside catch_unwind.  (A second
\* one, while the thread unwinds, aborts the process.)
Unwinding(k) ==
  /\ Destroying(k)
  /\ At(k) = {}
  /\ ~crashed
  /\ crashed' = TRUE

\* What the panic leaves to be dropped: in a pass the rest of it, which is a
\* Vec; in the loop of ShardRcStore::drop the fields of the store, the map of
\* values first; in the drop of the map nothing (std's HashMap gives up and
\* leaks its other entries).
UnwindValue(k) ==
  /\ Unwinding(k)
  /\ \/ /\ stage \notin {"drop", "down"}
        /\ retired' = retired \ {k}
        /\ UNCHANGED <<values, leaked, stage>>
     \/ /\ stage = "drop"
        /\ stage' = "down"
        /\ retired' = (retired \ {k}) \cup values
        /\ values' = {}
        /\ UNCHANGED leaked
     \/ /\ stage = "down"
        /\ leaked' = leaked \cup (retired \ {k})
        /\ retired' = {}
        /\ UNCHANGED <<values, stage>>
  /\ UNCHANGED <<last_id, ids, calls, signal, orphans, batch, stack, closed, open, killed, pc, remote>>

\* collect or retire is over.
EndDrop ==
  /\ pc = "drop" /\ retired = {}
  /\ pc' = "turn"
  /\ \/ stage \in {"drop", "down"} /\ UNCHANGED stage
     \/ stage \notin {"drop", "down"} /\ crashed /\ stage' = "cancel"
     \/ stage = "final" /\ ~crashed /\ stage' = "drop"
     \/ stage \notin {"final", "drop", "down"} /\ ~crashed /\ UNCHANGED stage
  /\ UNCHANGED <<life, ids, calls, signal, garbage, stack, flags, remote>>

-------------------------------------------------------------------------------
(* Shutdown.                                                                 *)

\* The closed queue is empty: leave the loop, then collect_orphans.
Stop ==
  /\ Selecting
  /\ ~open /\ NothingQueued
  /\ stage' = "drain"
  /\ pc' = "done"
  /\ UNCHANGED <<life, ids, calls, signal, garbage, stack, flags, remote>>

\* The drain ends: nothing is pending any more, or the grace period is over.
EndDrain ==
  /\ stage = "drain" /\ pc = "turn"
  /\ stage' = "cancel"
  /\ UNCHANGED <<life, ids, calls, signal, garbage, stack, flags, pc, remote>>

\* Slint drops a driver that waits, when its event loop ends.
Quit ==
  /\ \/ stage = "run" /\ pc = "parked"
     \/ stage = "drain" /\ pc = "turn"
  /\ killed' = TRUE
  /\ stage' = "cancel"
  /\ pc' = "turn"
  /\ UNCHANGED <<life, ids, calls, signal, garbage, stack, closed, open, crashed, remote>>

\* Unfinished futures are dropped.  After a crash or Quit so is the receiver,
\* with the commands still in it.
CancelStrong(i) ==
  /\ stage = "cancel" /\ pc = "turn"
  /\ holder[i] \in (IF open THEN {Flight} ELSE {Flight, Queued, Detaching})
  /\ OwnerDrop(i)
  /\ UNCHANGED <<life, calls, garbage, stack, flags, stage, pc, remote>>

CancelWeak(k) ==
  /\ stage = "cancel" /\ pc = "turn"
  /\ \/ /\ borrowed[k] > 0
        /\ borrowed' = [borrowed EXCEPT ![k] = @ - 1]
        /\ UNCHANGED weakq
     \/ /\ ~open /\ weakq[k] > 0
        /\ weakq' = [weakq EXCEPT ![k] = @ - 1]
        /\ UNCHANGED borrowed
  /\ UNCHANGED <<life, ids, sent, signal, garbage, stack, flags, stage, pc, remote>>

NothingInFlight ==
  /\ At(Flight) = {}
  /\ \A k \in Keys : borrowed[k] = 0

\* (Mutant of EndCancel: the store is dropped behind the driver's call, not by a
\* guard.)
EndWithoutGuard ==
  /\ stage = "cancel" /\ pc = "turn"
  /\ NothingInFlight
  /\ IF open
     THEN open' = FALSE /\ UNCHANGED stage
     ELSE /\ NothingQueued
          /\ stage' = IF crashed \/ killed THEN "down" ELSE "release"
          /\ UNCHANGED open
  /\ UNCHANGED <<life, ids, calls, signal, garbage, stack, closed, crashed, killed, pc, remote>>

\* Dropping the receiver closes the queue (it is closed already after Stop).
EndCancel ==
  /\ stage = "cancel" /\ pc = "turn"
  /\ NothingInFlight
  /\ IF open
     THEN open' = FALSE /\ UNCHANGED stage
     ELSE /\ NothingQueued
          /\ stage' = IF crashed \/ killed THEN "drop" ELSE "release"
          /\ UNCHANGED open
  /\ UNCHANGED <<life, ids, calls, signal, garbage, stack, closed, crashed, killed, pc, remote>>

Newest == detached[Len(detached)]
Older  == SubSeq(detached, 1, Len(detached) - 1)

\* release_detached: pop the newest token and drop it, ...
PopDetached ==
  /\ stage = "release" /\ pc = "turn"
  /\ detached # <<>>
  /\ popped' = key[Newest]
  /\ detached' = Older
  /\ OwnerDrop(Newest)
  /\ pc' = "retire"
  /\ UNCHANGED <<life, calls, garbage, flags, stage, remote>>

\* (Mutant of Retire: the value is left to the last collection pass.)
RetireLater ==
  /\ pc = "retire"
  /\ popped' = NoKey
  /\ pc' = "turn"
  /\ UNCHANGED <<life, ids, calls, signal, garbage, detached, flags, stage, remote>>

\* ... then retire its value if nothing else refers to it.
Retire ==
  /\ pc = "retire"
  /\ IF popped \in values /\ tokens[popped] = 0 /\ borrowed[popped] = 0
     THEN values' = values \ {popped} /\ retired' = {popped}
     ELSE UNCHANGED <<values, retired>>
  /\ popped' = NoKey
  /\ pc' = "drop"
  /\ UNCHANGED <<last_id, ids, calls, signal, orphans, batch, leaked, detached, flags, stage, remote>>

\* Nothing is detached any more: the last collection pass.
EndRelease ==
  /\ stage = "release" /\ pc = "turn"
  /\ detached = <<>>
  /\ stage' = "final"
  /\ TakeGarbage
  /\ UNCHANGED <<life, ids, calls, stack, flags, remote>>

\* ShardRcStore::drop: close the signal, ...
CloseSignal ==
  /\ stage = "drop" /\ pc = "turn"
  /\ ~closed
  /\ closed' = TRUE
  /\ UNCHANGED <<life, ids, calls, signal, garbage, stack, open, crashed, killed, stage, pc, remote>>

\* ... drop what is still detached, newest first and whoever refers to it, ...
DropDetached ==
  /\ stage = "drop" /\ pc = "turn"
  /\ closed /\ detached # <<>>
  /\ detached' = Older
  /\ OwnerDrop(Newest)
  /\ retired' = {key[Newest]} \cap values
  /\ values' = values \ {key[Newest]}
  /\ pc' = "drop"
  /\ UNCHANGED <<last_id, calls, orphans, batch, leaked, popped, flags, stage, remote>>

\* (Mutant of DropStore: values with a live handle outlast the store.)
DropUnusedOnly ==
  /\ stage = "drop" /\ pc = "turn"
  /\ closed /\ detached = <<>>
  /\ retired' = {k \in values : tokens[k] = 0}
  /\ values' = {k \in values : tokens[k] > 0}
  /\ stage' = "down"
  /\ pc' = "drop"
  /\ UNCHANGED <<last_id, ids, calls, signal, orphans, batch, leaked, stack, flags, remote>>

\* ... and the rest of the map with the store.
DropStore ==
  /\ stage = "drop" /\ pc = "turn"
  /\ closed /\ detached = <<>>
  /\ retired' = values
  /\ values' = {}
  /\ stage' = "down"
  /\ pc' = "drop"
  /\ UNCHANGED <<last_id, ids, calls, signal, orphans, batch, leaked, stack, flags, remote>>

\* The fields of a store whose loop was cut short: its list drops from the
\* front, after the map.
DropRemaining ==
  /\ stage = "down" /\ pc = "turn"
  /\ detached # <<>>
  /\ detached' = Tail(detached)
  /\ OwnerDrop(Head(detached))
  /\ UNCHANGED <<life, calls, garbage, popped, flags, stage, pc, remote>>

-------------------------------------------------------------------------------
Remote(t) ==
  \/ \E i \in RcIds :
        \/ \E new \in RcIds : RemoteClone(t, i, new)
        \/ RemoteDrop(t, i) \/ SendStrong(t, i) \/ SendDetach(t, i)
  \/ \E k \in Keys : SendWeak(t, k)
  \/ NotifyCheck(t) \/ NotifyPush(t) \/ NotifyWake(t)

OwnerCode ==
  \E i \in RcIds :
     \/ Bind(i) \/ DropLocal(i) \/ DropAfter(i) \/ DetachLocal(i)
     \/ \E k \in Keys : TryLocal(k, i) \/ UpgradeAfter(k, i)
     \/ \E p \in Threads \cup Keys : HandOut(i, p)

Commands ==
  \/ \E i \in RcIds : StartStrong(i) \/ RunDetach(i) \/ FinishStrong(i)
  \/ \E k \in Keys : StartWeak(k) \/ FinishWeak(k)

Collect ==
  \/ CollectOrphans \/ RegisterWaker \/ PollCandidates \/ Park \/ Unpark
  \/ EndCheck \/ EndDrop
  \/ \E k \in Keys : CheckKey(k) \/ DropValue(k) \/ UnwindValue(k)
  \/ \E k \in Keys, i \in RcIds : DropField(k, i) \/ DetachField(k, i)

Shutdown ==
  \/ Stop \/ EndDrain \/ EndCancel \/ PopDetached \/ Retire \/ EndRelease
  \/ CloseSignal \/ DropDetached \/ DropStore \/ DropRemaining
  \/ \E i \in RcIds : CancelStrong(i)
  \/ \E k \in Keys : CancelWeak(k)

Next ==
  \/ \E t \in Threads : Remote(t)
  \/ RequestShutdown \/ Quit
  \/ OwnerCode \/ Commands \/ Collect \/ Shutdown

Spec == Init /\ [][Next]_vars

(***************************************************************************)
(* Fairness.  A thread inside a drop finishes it.  The driver takes its    *)
(* own steps: the select polls its branches in a shuffled order, so the    *)
(* collection branch is reached whatever else is ready.  For the same      *)
(* reason the queue and the futures get their turn, if only now and then   *)
(* (SF); application callbacks are assumed to end.  Nothing obliges anyone *)
(* to drop a handle, make a call, or shut the shard down.                  *)
(***************************************************************************)
DriverStep ==
  \/ CollectOrphans \/ RegisterWaker \/ PollCandidates \/ Park \/ Unpark
  \/ EndCheck \/ EndDrop
  \/ \E k \in Keys : CheckKey(k) \/ DropValue(k)
  \/ \E k \in Keys, i \in RcIds : DropField(k, i)
  \/ Shutdown

\* The queue's branch of the select.
Receive ==
  \/ Stop
  \/ \E i \in RcIds : StartStrong(i) \/ RunDetach(i)
  \/ \E k \in Keys : StartWeak(k)

FinishCall ==
  \/ \E i \in RcIds : FinishStrong(i)
  \/ \E k \in Keys : FinishWeak(k)

Fairness ==
  /\ WF_vars(DriverStep) /\ SF_vars(Receive) /\ SF_vars(FinishCall)
  /\ \A t \in Threads : WF_vars(NotifyCheck(t) \/ NotifyPush(t) \/ NotifyWake(t))

FairSpec == Spec /\ Fairness

-------------------------------------------------------------------------------
(* Properties.                                                               *)

\* Every variable keeps its type.
TypeOK ==
  /\ last_id \in 0..MaxKeys
  /\ values \subseteq 1..last_id
  /\ tokens \in [Keys -> Nat]
  /\ key \in [RcIds -> Keys \cup {NoKey}]
  /\ holder \in [RcIds -> Places \cup {Nobody}]
  /\ borrowed \in [Keys -> Nat] /\ weakq \in [Keys -> Nat] /\ sent \in Nat
  /\ candidates \subseteq Keys /\ orphans \subseteq Keys
  /\ batch \subseteq Keys /\ retired \subseteq Keys /\ leaked \subseteq Keys
  /\ detached \in Seq(RcIds) /\ popped \in Keys \cup {NoKey}
  /\ closed \in BOOLEAN /\ open \in BOOLEAN /\ crashed \in BOOLEAN /\ killed \in BOOLEAN
  /\ waker \in BOOLEAN /\ notified \in BOOLEAN
  /\ stage \in Stages /\ pc \in Points
  /\ step \in [Threads -> {"idle", "released", "open", "pushed"}]
  /\ rel \in [Threads -> Keys \cup {NoKey}]

\* The counter of an entry is the number of tokens that exist for it, whoever
\* holds them (store.rs: "Live ShardRcId tokens").
TokensCounted == \A k \in Keys : tokens[k] = Cardinality(Live(k))

\* While the store is open a value in use is stored: one with a token anywhere,
\* a queued strong call included, or with a weak call in flight.
InUseIsStored ==
  /\ ~closed => \A i \in RcIds : key[i] # NoKey => key[i] \in values
  /\ \A k \in Keys : borrowed[k] > 0 => k \in values

\* Thread t has released the last token of k and not queued the key yet.
Releasing(t, k) == step[t] \in {"released", "open"} /\ rel[t] = k

\* k will be looked at again without anything else happening to it.
Remembered(k) ==
  \/ k \in candidates \cup batch
  \/ \E t \in Threads : Releasing(t, k)

\* A stored value without a token is never forgotten: its key is queued, in
\* the pass under way, an orphan, or about to be queued by the thread that
\* dropped the last token, however drops, re-acquisitions and passes interleave.
NoneForgotten ==
  ~closed => \A k \in values :
     tokens[k] = 0 => Remembered(k) \/ k \in orphans

\* Between two completions an orphan is still in use or will be looked at:
\* rechecking orphans only when something completes is enough.
OrphansInUse ==
  stage = "run" /\ pc # "done" =>
     \A k \in orphans \cap values :
        tokens[k] > 0 \/ borrowed[k] > 0 \/ Remembered(k)

\* A driver that sleeps with a key in its queue has been woken, or the thread
\* that pushed the key is about to wake it.
NoLostWakeup ==
  pc = "parked" /\ candidates # {} =>
     notified \/ \E t \in Threads : step[t] = "pushed"

\* A shard asleep with no thread inside a drop stores nothing that is unused.
AsleepMeansClean ==
  pc = "parked" /\ ~notified /\ (\A t \in Threads : Idle(t)) =>
     \A k \in values : tokens[k] > 0 \/ borrowed[k] > 0

\* The store implements the promise of ValueLifetime: a value is used while a
\* token or a weak call in flight exists for it, and the store ends when
\* ShardRcStore::drop closes its signal.
InUse == {k \in Keys : tokens[k] > 0 \/ borrowed[k] > 0}

Lifetime == INSTANCE ValueLifetime
  WITH born <- last_id, stored <- values, used <- InUse, ending <- closed

KeepsLifetime == Lifetime!Spec

\* Detached values go newest first, each destroyed before the next is released
\* unless something else refers to it, whatever destructors detach meanwhile
\* (driver.rs: "a value detached later goes before values it may depend on").
\* This ends with a destructor that unwinds in the store's own drop ("down").
DetachedNewestFirst ==
  [][/\ Len(detached') < Len(detached) /\ stage # "down" =>
          detached' = Older /\ popped = NoKey /\ retired = {}
     /\ popped # NoKey /\ popped' = NoKey => retired' = {popped} \cap (values \ InUse)]_vars

\* When the store has come to its end, wherever destructors unwound on the way
\* (in a pass, in release_detached, in the store's own loop or in its map), no
\* value is left in it and no destructor is still to run, except for a value
\* that a caller's ShardRc keeps or that a destructor unwinding out of the map
\* leaked.  Every token that still exists is another thread's, a ShardRc's, or
\* in a field of such a value: calls and the detached list have dropped theirs.
NothingLeft ==
  /\ values = {} /\ retired = {}
  /\ \A k \in Keys : At(k) # {} => Kept(k) \/ k \in leaked
  /\ \A i \in RcIds : holder[i] \in Threads \cup Keys \cup {Local, Nobody}

EndIsComplete == Ended => NothingLeft

\* Once admission is closed the store comes to that end, with whatever handles
\* still exist, even if the driver dies or is dropped.
ShutdownEmptiesStore == ~open ~> Ended /\ NothingLeft
===============================================================================
