----------------------------- MODULE ShardRegistry -----------------------------
(***************************************************************************)
(* Background shards, their joining and the process-wide registry          *)
(* (background.rs, registry.rs).  Threads outside the shards, and shard    *)
(* threads inside a callback, join single shards; threads outside the      *)
(* shards also join all of them.  Every lock, wait and registry access is  *)
(* a step of its own.  A shard's event loop is ShardDriver: here it is a   *)
(* thread that ends some time after its queue is closed, or panics.        *)
(***************************************************************************)
EXTENDS Naturals, Sequences, FiniteSets, Sublists

CONSTANTS
  Shards,   (* background shards (bound)                                    *)
  Outside,  (* threads that are not shard threads                           *)
  MayJoin,  (* <<s, r>>: callbacks of shard s may join shard r              *)
  Free      (* nobody holds the lock                                        *)

ASSUME RegistryAssumption ==
  /\ Shards \cap Outside = {}
  /\ Free \notin Shards \cup Outside
  /\ MayJoin \subseteq Shards \X Shards

\* The threads that join shards: outside ones, and shards whose callbacks do.
Joiners == {p[1] : p \in MayJoin} \cup Outside

VARIABLES
  registry,  (* SHARD_REGISTRY: the registered shards in order              *)
  thread,    (* "none", "starting", "running", "exited", "panicked"         *)
  open,      (* the shard's admission queue accepts commands                *)
  result,    (* JoinState::result: "none", "ok" or "err"                    *)
  lock,      (* who holds the mutex around JoinState                        *)
  call,      (* call[j]: "idle", "join", or "all"                           *)
  at,        (* at[j]: the joiner's next step                               *)
  todo,      (* todo[j]: the shards still to join, the current one first    *)
  failed,    (* failed[j]: the entries join_all keeps for retry             *)
  told,      (* told[j]: the outcome of j's last call                       *)
  asked      (* history: the shards that ran, registered, when j called     *)

vars == <<registry, thread, open, result, lock, call, at, todo, failed, told, asked>>

Init ==
  /\ registry = <<>>
  /\ thread = [s \in Shards |-> "none"]
  /\ open = [s \in Shards |-> TRUE]
  /\ result = [s \in Shards |-> "none"]
  /\ lock = [s \in Shards |-> Free]
  /\ call = [j \in Joiners |-> "idle"]
  /\ at = [j \in Joiners |-> "start"]
  /\ todo = [j \in Joiners |-> <<>>]
  /\ failed = [j \in Joiners |-> <<>>]
  /\ told = [j \in Joiners |-> "none"]
  /\ asked = [j \in Joiners |-> {}]

joining == <<call, at, todo, failed, told, asked>>

-------------------------------------------------------------------------------
(* Shards.                                                                   *)

\* Background::new starts the thread and waits for its context, ...
StartThread(s) ==
  /\ thread[s] = "none"
  /\ thread' = [thread EXCEPT ![s] = "starting"]
  /\ UNCHANGED <<registry, open, result, lock, joining>>

\* ... then registers the join callback and returns the shard.
Register(s) ==
  /\ thread[s] = "starting"
  /\ thread' = [thread EXCEPT ![s] = "running"]
  /\ registry' = Append(registry, s)
  /\ UNCHANGED <<open, result, lock, joining>>

\* request_shutdown, or the drop of the shard.
RequestShutdown(s) ==
  /\ thread[s] # "none" /\ open[s]
  /\ open' = [open EXCEPT ![s] = FALSE]
  /\ UNCHANGED <<registry, thread, result, lock, joining>>

\* The event loop returns after shutdown; a callback in progress comes first.
Exit(s) ==
  /\ thread[s] = "running" /\ ~open[s]
  /\ s \in Joiners => call[s] = "idle"
  /\ thread' = [thread EXCEPT ![s] = "exited"]
  /\ UNCHANGED <<registry, open, result, lock, joining>>

\* A destructor unwinds through the driver; the Close guard closes the queue.
Panic(s) ==
  /\ thread[s] = "running"
  /\ s \in Joiners => call[s] = "idle"
  /\ thread' = [thread EXCEPT ![s] = "panicked"]
  /\ open' = [open EXCEPT ![s] = FALSE]
  /\ UNCHANGED <<registry, result, lock, joining>>

-------------------------------------------------------------------------------
(* Joining.                                                                  *)

CanCall(j) == call[j] = "idle" /\ (j \in Shards => thread[j] = "running")

Registered == {s \in Shards : thread[s] \notin {"none", "starting"}}

\* (Mutant of CallJoin: a shard's own thread is not turned away.)
CallJoinSelf(j, s) ==
  /\ CanCall(j)
  /\ thread[s] \notin {"none", "starting"}
  /\ j \in Shards => <<j, s>> \in MayJoin
  /\ asked' = [asked EXCEPT ![j] = {s}]
  /\ call' = [call EXCEPT ![j] = "join"]
  /\ at' = [at EXCEPT ![j] = "request"]
  /\ todo' = [todo EXCEPT ![j] = <<s>>]
  /\ told' = [told EXCEPT ![j] = "none"]
  /\ UNCHANGED <<registry, thread, open, result, lock, failed>>

\* Shared::join of one shard.  A shard's own thread is turned away.
CallJoin(j, s) ==
  /\ CanCall(j)
  /\ thread[s] \notin {"none", "starting"}
  /\ j \in Shards => <<j, s>> \in MayJoin
  /\ asked' = [asked EXCEPT ![j] = {s}]
  /\ IF j = s
     THEN told' = [told EXCEPT ![j] = "refused"] /\ UNCHANGED <<call, at, todo, failed>>
     ELSE /\ call' = [call EXCEPT ![j] = "join"]
          /\ at' = [at EXCEPT ![j] = "request"]
          /\ todo' = [todo EXCEPT ![j] = <<s>>]
          /\ told' = [told EXCEPT ![j] = "none"]
          /\ UNCHANGED failed
  /\ UNCHANGED <<registry, thread, open, result, lock>>

\* join_all_shards takes the whole registry; shard threads are turned away.
CallJoinAll(j) ==
  /\ CanCall(j)
  /\ IF j \in Shards
     THEN told' = [told EXCEPT ![j] = "refused"] /\ UNCHANGED <<registry, call, at, todo, asked>>
     ELSE /\ call' = [call EXCEPT ![j] = "all"]
          /\ todo' = [todo EXCEPT ![j] = registry]
          /\ at' = [at EXCEPT ![j] = IF registry = <<>> THEN "retain" ELSE "request"]
          /\ registry' = <<>>
          /\ told' = [told EXCEPT ![j] = "none"]
          /\ asked' = [asked EXCEPT ![j] = Registered]
  /\ UNCHANGED <<thread, open, result, lock, failed>>

Current(j) == Head(todo[j])

\* Shared::join closes the shard's queue, ...
JoinRequest(j) ==
  /\ at[j] = "request"
  /\ open' = [open EXCEPT ![Current(j)] = FALSE]
  /\ at' = [at EXCEPT ![j] = "lock"]
  /\ UNCHANGED <<registry, thread, result, lock, call, todo, failed, told, asked>>

\* ... takes the mutex, which one joiner holds while it waits for the thread, ...
JoinLock(j) ==
  /\ at[j] = "lock" /\ lock[Current(j)] = Free
  /\ lock' = [lock EXCEPT ![Current(j)] = j]
  /\ at' = [at EXCEPT ![j] = "wait"]
  /\ UNCHANGED <<registry, thread, open, result, call, todo, failed, told, asked>>

\* (Mutant of JoinWait: the thread's end is not waited for.)
JoinNoWait(j) ==
  LET s == Current(j) IN
  /\ at[j] = "wait"
  /\ result' = [result EXCEPT ![s] = IF thread[s] = "panicked" THEN "err" ELSE "ok"]
  /\ lock' = [lock EXCEPT ![s] = Free]
  /\ at' = [at EXCEPT ![j] = "unregister"]
  /\ UNCHANGED <<registry, thread, open, call, todo, failed, told, asked>>

\* ... joins the thread unless an outcome is cached, ...
JoinWait(j) ==
  LET s == Current(j) IN
  /\ at[j] = "wait"
  /\ \/ result[s] # "none" /\ UNCHANGED result
     \/ /\ result[s] = "none" /\ thread[s] \in {"exited", "panicked"}
        /\ result' = [result EXCEPT ![s] = IF thread[s] = "exited" THEN "ok" ELSE "err"]
  /\ lock' = [lock EXCEPT ![s] = Free]
  /\ at' = [at EXCEPT ![j] = "unregister"]
  /\ UNCHANGED <<registry, thread, open, call, todo, failed, told, asked>>

\* (Mutant of JoinDone: a shard that ended well stays registered.)
JoinStaysListed(j) ==
  LET s == Current(j) IN
  /\ at[j] = "unregister"
  /\ call[j] = "join"
  /\ todo' = [todo EXCEPT ![j] = <<>>]
  /\ call' = [call EXCEPT ![j] = "idle"]
  /\ at' = [at EXCEPT ![j] = "start"]
  /\ told' = [told EXCEPT ![j] = IF result[s] = "ok" THEN "join_ok" ELSE "join_err"]
  /\ UNCHANGED <<registry, thread, open, result, lock, failed, asked>>

\* ... and unregisters a shard that ended well.  join_all goes on with its
\* next entry and keeps the ones that failed.
JoinDone(j) ==
  LET s == Current(j)
      ok == result[s] = "ok"
      rest == Tail(todo[j])
  IN
  /\ at[j] = "unregister"
  /\ registry' = IF ok THEN Filtered(registry, Shards \ {s}) ELSE registry
  /\ todo' = [todo EXCEPT ![j] = rest]
  /\ IF call[j] = "all"
     THEN /\ failed' = [failed EXCEPT ![j] = IF ok THEN @ ELSE Append(@, s)]
          /\ at' = [at EXCEPT ![j] = IF rest = <<>> THEN "retain" ELSE "request"]
          /\ UNCHANGED <<call, told>>
     ELSE /\ call' = [call EXCEPT ![j] = "idle"]
          /\ at' = [at EXCEPT ![j] = "start"]
          /\ told' = [told EXCEPT ![j] = IF ok THEN "join_ok" ELSE "join_err"]
          /\ UNCHANGED failed
  /\ UNCHANGED <<thread, open, result, lock, asked>>

\* (Mutant of Retain: the registry is overwritten with the failed entries.)
RetainOverwrites(j) ==
  /\ at[j] = "retain"
  /\ registry' = failed[j]
  /\ told' = [told EXCEPT ![j] = IF failed[j] = <<>> THEN "all_ok" ELSE "all_err"]
  /\ failed' = [failed EXCEPT ![j] = <<>>]
  /\ call' = [call EXCEPT ![j] = "idle"]
  /\ at' = [at EXCEPT ![j] = "start"]
  /\ UNCHANGED <<thread, open, result, lock, todo, asked>>

\* join_all puts the failed entries back and returns.
Retain(j) ==
  /\ at[j] = "retain"
  /\ registry' = registry \o failed[j]
  /\ told' = [told EXCEPT ![j] = IF failed[j] = <<>> THEN "all_ok" ELSE "all_err"]
  /\ failed' = [failed EXCEPT ![j] = <<>>]
  /\ call' = [call EXCEPT ![j] = "idle"]
  /\ at' = [at EXCEPT ![j] = "start"]
  /\ UNCHANGED <<thread, open, result, lock, todo, asked>>

-------------------------------------------------------------------------------
JoinStep(j) == JoinRequest(j) \/ JoinLock(j) \/ JoinWait(j) \/ JoinDone(j) \/ Retain(j)

Next ==
  \/ \E s \in Shards : StartThread(s) \/ Register(s) \/ RequestShutdown(s) \/ Exit(s) \/ Panic(s)
  \/ \E j \in Joiners : CallJoinAll(j) \/ JoinStep(j) \/ \E s \in Shards : CallJoin(j, s)

Spec == Init /\ [][Next]_vars

(***************************************************************************)
(* Fairness.  A shard whose queue is closed has finitely many callbacks    *)
(* left and ends when it is through with them (ShardDriver's grace period  *)
(* bounds its drain); a joiner that can take a step takes it, and gets a   *)
(* contended mutex at some time.                                           *)
(***************************************************************************)
FairSpec ==
  /\ Spec
  /\ \A s \in Shards : SF_vars(Exit(s))
  /\ \A j \in Joiners : WF_vars(JoinStep(j)) /\ SF_vars(JoinLock(j))

-------------------------------------------------------------------------------
(* Properties.                                                               *)

TypeOK ==
  /\ registry \in Seq(Shards)
  /\ thread \in [Shards -> {"none", "starting", "running", "exited", "panicked"}]
  /\ open \in [Shards -> BOOLEAN]
  /\ result \in [Shards -> {"none", "ok", "err"}]
  /\ lock \in [Shards -> Joiners \cup {Free}]
  /\ call \in [Joiners -> {"idle", "join", "all"}]
  /\ at \in [Joiners -> {"start", "request", "lock", "wait", "unregister", "retain"}]
  /\ todo \in [Joiners -> Seq(Shards)] /\ failed \in [Joiners -> Seq(Shards)]
  /\ told \in [Joiners -> {"none", "refused", "join_ok", "join_err", "all_ok", "all_err"}]
  /\ asked \in [Joiners -> SUBSET Shards]

\* An entry is in the hands of a join_all that has taken it from the registry.
InHand(s) == \E j \in Joiners : call[j] = "all" /\ s \in Entries(todo[j]) \cup Entries(failed[j])

\* A shard whose join has not succeeded stays registered, or is in the hands of
\* exactly the join_all that will put it back: it can be retried (registry.rs:
\* "Failed joins remain registered for retry"), and it is never listed twice.
NoShardLost ==
  \A s \in Registered :
     /\ result[s] # "ok" => s \in Entries(registry) \/ InHand(s)
     /\ s \in Entries(registry) => ~InHand(s)
     /\ Cardinality({i \in 1..Len(registry) : registry[i] = s}) <= 1

\* A shard that was joined successfully is not registered any more, once the
\* joiner that learnt it has gone on, whichever of join and join_all that was.
JoinedLeavesRegistry ==
  \A s \in Shards :
     result[s] = "ok" /\ s \in Entries(registry) =>
        \E j \in Joiners : at[j] = "unregister" /\ Current(j) = s

\* A join of one shard returns Ok only when the shard's thread has ended,
\* whichever of several concurrent joiners waited for it.
JoinedMeansStopped ==
  \A j \in Joiners :
     told[j] = "join_ok" => \A s \in asked[j] : thread[s] = "exited"

\* join_all_shards returns Ok only when every background shard registered when
\* it was called has stopped ("Stop and join registered background shards").
AllJoinedMeansStopped ==
  \A j \in Outside :
     told[j] = "all_ok" => \A s \in asked[j] : thread[s] = "exited"

\* Every join returns, although joiners wait for each other's mutex and shard
\* threads join other shards, as long as no two shards join each other.
JoinsReturn == \A j \in Joiners : call[j] # "idle" ~> call[j] = "idle"
===============================================================================
