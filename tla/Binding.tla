-------------------------------- MODULE Binding --------------------------------
(***************************************************************************)
(* Binding values to shards from any thread (bind, bind_async and try_bind *)
(* of engine.rs and shard_handle.rs), the thread-local contexts they need  *)
(* (ContextGuard), and the life of a shard whose loop runs on the calling  *)
(* thread (main_loop.rs) or on one of its own (background.rs).             *)
(*                                                                         *)
(* A bind is one call with its factory.  On the shard's own thread the     *)
(* factory runs inside the call; from elsewhere it is queued, and the      *)
(* caller waits or gets a future.  Factories bind in turn, on any shard.   *)
(***************************************************************************)
EXTENDS Naturals, Sequences, FiniteSets

CONSTANTS
  Background, (* shards with a thread of their own, named like the shard    *)
  Mains,      (* shards that are driven by the thread that made them        *)
  Outside,    (* the other threads of the program                           *)
  Host,       (* Host[s]: the thread that made main shard s                 *)
  Binds,      (* the binds that can be made (bound)                         *)
  Misfits,    (* those of a type that belongs to another shard              *)
  MayWait,    (* <<t, u>>: code on thread t may wait for thread u           *)
  None

Shards  == Background \cup Mains
Threads == Background \cup Outside
Owner(s) == IF s \in Background THEN s ELSE Host[s]

ASSUME BindingAssumption ==
  /\ Background \cap (Mains \cup Outside) = {}
  /\ Host \in [Mains -> Outside] /\ Misfits \subseteq Binds
  /\ MayWait \subseteq Threads \X Threads /\ None \notin Shards \cup Binds

VARIABLES
  phase,   (* phase[s]: "idle", "run", "drain", "leaving", "ended";
              "dying" after a crash, "dropped" if it was never run          *)
  open,    (* open[s]: the admission queue accepts commands                 *)
  queue,   (* queue[s]: the binds in it                                     *)
  context, (* shards that have an entry in STORES of their thread           *)
  stored,  (* binds whose value is in the store of its shard; their callers
              keep a reference, so that no collection takes it              *)
  stack,   (* stack[t]: the factories thread t is inside, innermost first   *)
  waits,   (* waits[t]: the last bind t has waited for                      *)
  to,      (* to[b]: the shard b was made on, or None                       *)
  result,  (* result[b]: what its caller is told, "none" so far             *)
  ran,     (* history: binds whose factory has been called                  *)
  slint,   (* the main shards that a UI loop drives (SlintShard), the others
              being MainLoops                                               *)
  killed,  (* those whose driver the UI loop has dropped unfinished         *)
  told     (* told[s]: what shutdown_async of s has returned, or "none"     *)

ui   == <<slint, killed, told>>
vars == <<phase, open, queue, context, stored, stack, waits, to, result, ran, ui>>

Init ==
  /\ phase = [s \in Shards |-> IF s \in Background THEN "run" ELSE "idle"]
  /\ open = [s \in Shards |-> TRUE]
  /\ queue = [s \in Shards |-> <<>>]
  /\ slint \in SUBSET Mains /\ killed = {} /\ told = [s \in Shards |-> "none"]
  /\ context = Background \cup slint
  /\ stored = {}
  /\ stack = [t \in Threads |-> <<>>]
  /\ waits = [t \in Threads |-> None]
  /\ to = [b \in Binds |-> None]
  /\ result = [b \in Binds |-> "none"]
  /\ ran = {}

Blocked(t) == waits[t] # None /\ result[waits[t]] = "none"

\* Application code can run on t: callbacks, factories, destructors.
InCode(t) == ~Blocked(t) /\ (t \in Background => phase[t] # "ended")

\* No factory is on t's stack and t does not wait: its driver may go on.
AtLoop(t) == ~Blocked(t) /\ stack[t] = <<>>

\* The bind b is made on s, and its caller is told r.
Made(b, s)      == to[b] = None /\ to' = [to EXCEPT ![b] = s]
Answer(b, r)    == result' = [result EXCEPT ![b] = r]
\* The factory of b is called on thread t.
Enter(t, b)     == stack' = [stack EXCEPT ![t] = <<b>> \o @] /\ ran' = ran \cup {b}

-------------------------------------------------------------------------------
(* Binding.                                                                  *)

\* (Mutant of BindHere: a closed shard is not refused.)
BindUnchecked(t, b, s) ==
  /\ InCode(t) /\ Owner(s) = t /\ Made(b, s)
  /\ context' = context \cup {s}
  /\ IF b \in Misfits
     THEN Answer(b, "WrongShard") /\ UNCHANGED <<stack, ran>>
     ELSE Enter(t, b) /\ UNCHANGED result
  /\ UNCHANGED <<phase, open, queue, stored, waits, ui>>

\* bind on the shard's own thread.  It works before the loop runs, making the
\* context, and while the context is there; afterwards it panics.
BindHere(t, b, s) ==
  /\ InCode(t) /\ Owner(s) = t /\ Made(b, s)
  /\ IF ~open[s] /\ s \notin context
     THEN Answer(b, "Closed") /\ UNCHANGED <<context, stack, ran>>
     ELSE /\ context' = context \cup {s}
          /\ IF b \in Misfits
             THEN Answer(b, "WrongShard") /\ UNCHANGED <<stack, ran>>
             ELSE Enter(t, b) /\ UNCHANGED result
  /\ UNCHANGED <<phase, open, queue, stored, waits, ui>>

\* try_bind: no factory, and no context is made for it.
TryBind(t, b, s) ==
  /\ InCode(t) /\ b \notin Misfits /\ Made(b, s)
  /\ IF Owner(s) = t /\ s \in context
     THEN Answer(b, "Ok") /\ stored' = stored \cup {b} /\ ran' = ran \cup {b}
     ELSE Answer(b, "WrongShard") /\ UNCHANGED <<stored, ran>>
  /\ UNCHANGED <<phase, open, queue, context, stack, waits, ui>>

\* (Mutant of Queue: the bind is queued before the queue is found closed.)
QueueThenCheck(b, s) ==
  IF b \in Misfits THEN Answer(b, "WrongShard") /\ UNCHANGED queue
  ELSE /\ queue' = [queue EXCEPT ![s] = Append(@, b)]
       /\ IF open[s] THEN UNCHANGED result ELSE Answer(b, "Closed")

\* Admission of a queued bind.
Queue(b, s) ==
  IF b \in Misfits THEN Answer(b, "WrongShard") /\ UNCHANGED queue
  ELSE IF open[s] THEN queue' = [queue EXCEPT ![s] = Append(@, b)] /\ UNCHANGED result
  ELSE Answer(b, "Closed") /\ UNCHANGED queue

\* (Mutant of BindAndWait: the shard's own thread waits for itself.)
BindAndWaitAnywhere(t, b, s) ==
  /\ InCode(t) /\ (Owner(s) # t => <<t, Owner(s)>> \in MayWait) /\ Made(b, s)
  /\ Queue(b, s)
  /\ waits' = [waits EXCEPT ![t] = b]
  /\ UNCHANGED <<phase, open, context, stored, stack, ran, ui>>

\* bind from another thread blocks until there is an answer.
BindAndWait(t, b, s) ==
  /\ InCode(t) /\ Owner(s) # t /\ <<t, Owner(s)>> \in MayWait /\ Made(b, s)
  /\ Queue(b, s)
  /\ waits' = [waits EXCEPT ![t] = b]
  /\ UNCHANGED <<phase, open, context, stored, stack, ran, ui>>

\* bind_async: the caller goes on with a future.
BindAsync(t, b, s) ==
  /\ InCode(t) /\ Made(b, s)
  /\ Queue(b, s)
  /\ UNCHANGED <<phase, open, context, stored, stack, waits, ran, ui>>

\* The driver takes a bind and calls its factory.
TakeBind(s) ==
  /\ phase[s] = "run" /\ AtLoop(Owner(s)) /\ queue[s] # <<>>
  /\ queue' = [queue EXCEPT ![s] = Tail(@)]
  /\ Enter(Owner(s), Head(queue[s]))
  /\ UNCHANGED <<phase, open, context, stored, waits, to, result, ui>>

\* The innermost factory of t returns with its value bound, or panics, and what
\* it had bound is dropped.
EndFactory(t) ==
  /\ ~Blocked(t) /\ stack[t] # <<>>
  /\ LET b == Head(stack[t]) IN
     \/ Answer(b, "Ok") /\ stored' = stored \cup {b}
     \/ Answer(b, "Panicked") /\ UNCHANGED stored
  /\ stack' = [stack EXCEPT ![t] = Tail(@)]
  /\ UNCHANGED <<phase, open, queue, context, waits, to, ran, ui>>

-------------------------------------------------------------------------------
(* The life of a shard.                                                      *)

Driven(t) == \E s \in Mains : Host[s] = t /\ phase[s] \in {"run", "dying", "drain", "leaving"}

RequestShutdown(s) ==
  /\ open[s]
  /\ open' = [open EXCEPT ![s] = FALSE]
  /\ UNCHANGED <<phase, queue, context, stored, stack, waits, to, result, ran, ui>>

\* (Mutant of RunMain: the loop starts with a store of its own.)
RunMainAfresh(s) ==
  /\ s \in Mains /\ phase[s] = "idle" /\ AtLoop(Host[s])
  /\ s \in slint \/ ~Driven(Host[s])
  /\ phase' = [phase EXCEPT ![s] = "run"]
  /\ context' = context \cup {s}
  /\ stored' = {b \in stored : to[b] # s}
  /\ UNCHANGED <<open, queue, stack, waits, to, result, ran, ui>>

\* run_main or run_event_loop, once, on the thread that made the shard, or the
\* UI loop's first poll of the driver that SlintShard::new has spawned.  It takes
\* over a context that binds, or SlintShard::new, have made before.
RunMain(s) ==
  /\ s \in Mains /\ phase[s] = "idle" /\ AtLoop(Host[s])
  /\ s \in slint \/ ~Driven(Host[s])
  /\ phase' = [phase EXCEPT ![s] = "run"]
  /\ context' = context \cup {s}
  /\ UNCHANGED <<open, queue, stored, stack, waits, to, result, ran, ui>>

\* The receiver of s is dropped, and with it the binds in the queue.
DropReceiver(s) ==
  /\ open' = [open EXCEPT ![s] = FALSE]
  /\ queue' = [queue EXCEPT ![s] = <<>>]
  /\ result' = [b \in Binds |-> IF \E i \in 1..Len(queue[s]) : queue[s][i] = b
                                THEN "Canceled" ELSE result[b]]

\* The UI loop lets go of the driver of s, where it is a UI loop that drives s.
Killed(s) == killed' = killed \cup ({s} \cap slint)

\* A main shard is dropped without having run, or the UI loop ends before it
\* polls the driver.  A context stays.
DropMain(s) ==
  /\ s \in Mains /\ phase[s] = "idle" /\ AtLoop(Host[s])
  /\ phase' = [phase EXCEPT ![s] = "dropped"]
  /\ DropReceiver(s)
  /\ Killed(s)
  /\ UNCHANGED <<context, stored, stack, waits, to, ran, slint, told>>

\* The closed queue is empty: the loop is left for the drain.
LeaveLoop(s) ==
  /\ phase[s] = "run" /\ AtLoop(Owner(s)) /\ ~open[s] /\ queue[s] = <<>>
  /\ phase' = [phase EXCEPT ![s] = "drain"]
  /\ UNCHANGED <<open, queue, context, stored, stack, waits, to, result, ran, ui>>

\* A destructor unwinds out of the loop, which drops its futures, ...
Crash(s) ==
  /\ phase[s] = "run" /\ AtLoop(Owner(s))
  /\ phase' = [phase EXCEPT ![s] = "dying"]
  /\ Killed(s)
  /\ UNCHANGED <<open, queue, context, stored, stack, waits, to, result, ran, slint, told>>

\* The UI loop quits and drops the driver in the loop or in the drain, ...
Quit(s) ==
  /\ s \in slint \ killed /\ phase[s] \in {"run", "drain"} /\ AtLoop(Owner(s))
  /\ phase' = [phase EXCEPT ![s] = "dying"]
  /\ Killed(s)
  /\ UNCHANGED <<open, queue, context, stored, stack, waits, to, result, ran, slint, told>>

\* ... and then its receiver.
Unwind(s) ==
  /\ phase[s] = "dying" /\ AtLoop(Owner(s))
  /\ phase' = [phase EXCEPT ![s] = "drain"]
  /\ DropReceiver(s)
  /\ UNCHANGED <<context, stored, stack, waits, to, ran, ui>>

\* ContextGuard::drop takes the context out of the map and then drops it, and with
\* it the store's own reference of each value: the destructors of those that
\* nothing else keeps run when the context is no longer there.
DropContext(s) ==
  /\ phase[s] = "drain" /\ AtLoop(Owner(s))
  /\ phase' = [phase EXCEPT ![s] = "leaving"]
  /\ context' = context \ {s}
  /\ stored' = {b \in stored : to[b] # s}
  /\ UNCHANGED <<open, queue, stack, waits, to, result, ran, ui>>

End(s) ==
  /\ phase[s] = "leaving" /\ AtLoop(Owner(s))
  /\ phase' = [phase EXCEPT ![s] = "ended"]
  /\ UNCHANGED <<open, queue, context, stored, stack, waits, to, result, ran, ui>>

\* (Mutant of ShutdownAsync: the completion is sent before the context drops.)
ShutdownAsyncEarly(s) ==
  /\ s \in slint /\ told[s] = "none" /\ ~open[s]
  /\ phase[s] \in {"drain", "leaving", "ended", "dropped"}
  /\ told' = [told EXCEPT ![s] = IF s \in killed THEN "JoinError" ELSE "Ok"]
  /\ UNCHANGED <<phase, open, queue, context, stored, stack, waits, to, result, ran, slint, killed>>

\* shutdown_async of a SlintShard returns: the driver has sent its completion,
\* after its context, or the sender went with the driver.
ShutdownAsync(s) ==
  /\ s \in slint /\ told[s] = "none" /\ ~open[s]
  /\ phase[s] \in {"ended", "dropped"}
  /\ told' = [told EXCEPT ![s] = IF s \in killed THEN "JoinError" ELSE "Ok"]
  /\ UNCHANGED <<phase, open, queue, context, stored, stack, waits, to, result, ran, slint, killed>>

-------------------------------------------------------------------------------
Next ==
  \/ \E t \in Threads, b \in Binds, s \in Shards :
       BindHere(t, b, s) \/ TryBind(t, b, s) \/ BindAndWait(t, b, s) \/ BindAsync(t, b, s)
  \/ \E t \in Threads : EndFactory(t)
  \/ \E s \in Shards :
       \/ TakeBind(s) \/ RequestShutdown(s) \/ RunMain(s) \/ DropMain(s)
       \/ LeaveLoop(s) \/ Crash(s) \/ Quit(s) \/ Unwind(s) \/ DropContext(s) \/ End(s)
       \/ ShutdownAsync(s)

Spec == Init /\ [][Next]_vars

(***************************************************************************)
(* Fairness.  Factories return, drivers go on, and the program runs or     *)
(* drops a main shard it has made ("The designated event loop must be      *)
(* running to complete this operation", eventful.rs).                      *)
(***************************************************************************)
FairSpec ==
  /\ Spec
  /\ \A t \in Threads : WF_vars(EndFactory(t))
  /\ \A s \in Shards : /\ WF_vars(TakeBind(s)) /\ WF_vars(Unwind(s))
                       /\ WF_vars(RunMain(s) \/ DropMain(s))

-------------------------------------------------------------------------------
(* Properties.                                                               *)

TypeOK ==
  /\ phase \in [Shards -> {"idle", "run", "dying", "drain", "leaving", "ended", "dropped"}]
  /\ open \in [Shards -> BOOLEAN] /\ queue \in [Shards -> Seq(Binds)]
  /\ context \subseteq Shards /\ stored \subseteq Binds /\ ran \subseteq Binds
  /\ stack \in [Threads -> Seq(Binds)] /\ waits \in [Threads -> Binds \cup {None}]
  /\ to \in [Binds -> Shards \cup {None}]
  /\ slint \subseteq Mains /\ killed \subseteq slint
  /\ told \in [Shards -> {"none", "Ok", "JoinError"}]
  /\ result \in [Binds -> {"none", "Ok", "Panicked", "Closed", "Canceled", "WrongShard"}]

\* A shard that has ended leaves no context behind, and none is made again by
\* whoever still binds on its thread, the destructors of its own values
\* included: a value bound there would never be collected.
NothingAfterEnd ==
  \A s \in Shards : phase[s] \in {"leaving", "ended"} =>
    s \notin context /\ \A b \in stored : to[b] # s

\* A value whose bind succeeded is stored until its shard lets go of its
\* context, also when it was bound before the loop ran.
BoundStaysStored ==
  \A b \in Binds : result[b] = "Ok" /\ phase[to[b]] \notin {"leaving", "ended"} => b \in stored

\* A bind that reports a refusal or a cancellation has not called its factory,
\* one that reports a value or a panic has; a misfit never gets in.
HonestBind ==
  \A b \in Binds :
    /\ result[b] \in {"Closed", "Canceled", "WrongShard"} => b \notin ran
    /\ result[b] \in {"Ok", "Panicked"} => b \in ran
    /\ b \in Misfits => b \notin ran \cup stored

\* When shutdown_async of a SlintShard says Ok the shard has ended: every bind
\* made on it is answered, its store holds no value and takes none again, and the
\* drop of its context is over, with the destructors of the values that nothing
\* but the store kept, which quitting Slint would lose.  (A value that a caller's
\* ShardRc keeps outlives that: see ShardStore.)
ShutdownHonest ==
  \A s \in Shards : told[s] = "Ok" =>
    /\ phase[s] = "ended" /\ s \notin context
    /\ \A b \in Binds : to[b] = s => b \notin stored /\ result[b] # "none"

\* Every bind is answered, also those on main shards that never run and on
\* shards that die, and nobody waits for itself: threads that do not wait for
\* each other in a circle all go on.
BindsAreAnswered == \A b \in Binds : to[b] # None ~> result[b] # "none"
===============================================================================
