# eventful-rs: specifications, model checking and proofs

eventful-rs is a Rust library in which every *shard* owns a thread, an event
loop and the values bound to it.  Other threads reach a value through handles:
they queue calls on its shard, and the shard runs them one turn at a time.
Typed events connect values of different shards.  The parts that are hard to
get right are the ones that cross threads: reference counts released anywhere
and collected in one place, wakeups of a sleeping loop, answers that must come
even when a shard stops or dies, joins that wait for each other, and event
snapshots that race their own subscriptions.

This directory holds TLA+ modules of those parts, TLC configurations that check
them on small instances, and TLAPS proofs of every safety property that these
runs check and that the code keeps (section 5).  `PROJECT.json` lists the
components, runs, mutants, hazards and theorems, and maps every definition to the
lines it stands for.
Paths below are relative to `src/eventful-rs/src/`; those that begin with
`eventful-rs-macros` are relative to `src/`.

    tlc -workers 2 -config ShardStoreRace.cfg MCShardStore.tla
    tlapm ShardStoreProofs.tla

## 1. Inventory

| Component | State it keeps | Operations | Model |
|---|---|---|---|
| Value store and strong handles (`shard_handle.rs`, `shard_handle/store.rs`, the collection parts of `engine/driver.rs`) | per shard: stored values, an atomic token count per value, the collection signal (candidate queue, closed flag, waker), orphans, the detached list | bind, clone, drop, upgrade, detach; collection passes; the end of the store | `ShardStore`, `ValueLifetime`, `ShardStoreProofs` |
| Event loop, calls and answers (`engine.rs`, `engine/driver.rs`, `local_task.rs`) | admission queue, futures in progress, local tasks, the spawner, one-shot answers | submit, shut down, spawn, abort; the select loop, drain, grace period, unwinding | `ShardDriver`, `Mailbox`, `ShardDriverProofs` |
| Main loop (`main_loop.rs`) | the receiver until it runs, the main future of `run_main` | run to completion, cancel at shutdown, drop unrun | `ShardDriver` (`Main`), `Binding` |
| Background shards and registry (`background.rs`, `registry.rs`) | a join handle and cached outcome per shard under a mutex; the list of registered shards | start, register, join, join all, unregister | `ShardRegistry`, `Sublists`, `ShardRegistryProofs` |
| Events and connections (`event.rs`, `connection.rs`, `builders.rs`, `ShardValue` in `shard_handle.rs`) | per event: list of connections, identity counter; per group: removers and a flag; per value: the groups it owns | subscribe, disconnect one or a group, own and prune groups, emit, emit tracked | `Events`, `Sublists`, `EventsProofs` |
| Calls on values (`shard_handle/joined.rs`, the call methods of `shard_handle.rs`, `run_with` to `deferred_with` of `engine.rs`, the methods of `#[asynchronize]`) | a joined handle: strong handles of one shard; a command: its callback with the tokens it retains, and its observer's channel | join; submit through a weak, strong or joined handle; look up, run, release, answer; await an asynced method | `Calls`, `CallsProofs` |
| Construction and binding (`binding.rs`, `eventful.rs`, `event_loop.rs`, contexts and `bind*` in `engine.rs`) | per thread: the contexts (stores) of the shards it hosts | bind on the owner thread or through the queue, blocking or not; affinity checks; make, take over and remove a context | `Binding`, `BindingProofs` |
| Deferred tasks and reports (`task.rs`, `report.rs`, `error.rs`) | a panic reporter | run a task on an executor, report a panic | not modelled (section 7) |
| Runtime adapters (`std_rt.rs`, `tokio_rt.rs`, `tokio_local_rt.rs`, `local_rt.rs`, `slint_rt.rs`) | executors; Slint: a completion channel | forward to `Background`, `MainLoop`, `drive`; Slint: spawn the driver on the UI loop, wait for its completion | Slint in `Binding`; the executors are external |
| Macros (`eventful-rs-macros`) | none at run time | rewrite and generate code: shard scopes, conditional signals, asynced methods | `ShardScopes`, `Expansion`, `ExpansionProofs`; `Calls` (what asynced methods do) |

How they interact.  A handle's drop on any thread changes the store's count and
pushes a key into the collection signal, which wakes the loop; the loop polls
the signal as one branch of its `select!` and runs the pass.  A call is a
command in the loop's queue that carries a token of the store, so that its value
exists when it runs.  `Background` runs a loop on a thread and reports its end
to joiners; the registry only knows how to join it.  An event's connection holds
a weak handle of its receiver and submits a call to the receiver's loop; a value
owns guards of the groups it connected and drops them with itself.

What is hard, and what must hold:

* *Value store.* A remote drop is four separate steps, and between any two the
  owner can hand the value out again, release it and run a whole pass.  Counts
  must stay exact; nothing in use is collected; nothing unused is forgotten; a
  loop that goes to sleep has nothing to collect or will be woken; everything
  goes at shutdown, even if destructors panic, the store's own drop included, but
  for what a local reference keeps.
* *Event loop.* Shutdown, the grace period, aborts and panics race submissions.
  Accepted calls start in order, each call gets exactly one answer, the answer
  is true, and none is missing when the loop has ended or died.
* *Calls.* The values of a callback are not `Sync` and may be released by anyone
  while it is queued, runs or is suspended.  A callback must run on the shard
  that owns all its values, have all of them until it ends, and have let go of
  them when its caller is answered, and callbacks that await calls of their own
  shard must not block it.
* *Registry.* Joiners share one outcome and one mutex held across a wait, and
  shards join shards.  `Ok` must mean stopped, a failed shard must remain
  retryable, joins must return.
* *Binding.* Contexts are made on demand, also before the loop runs, and must not
  be made again after it.  A blocking bind must not wait for its own thread, and
  whoever waits must be told when the shard stops, dies or never runs.  A Slint
  shard's driver can in addition be dropped by the UI loop at any await: an `Ok`
  from `shutdown_async` must mean that it was not, that its binds are answered
  and that the drop of its store is over.
* *Events.* Emissions use a snapshot, one connection behind; groups are
  disconnected one connection at a time by several threads at once.  Subscribers
  are reached once and in order, disconnected ones are not, the answer of a
  tracked emission is that of the first failing connection.
* *Macros.* What they generate is checked by the compiler, except where a wrong
  output compiles: a type given the shard of another scope, or a signal that is
  missing from, or doubled in, a build which nobody compiled.

## 2. Modules

### ShardStore

One variable per field of `ShardRcStore`, `StoreEntry` and `CollectSignal`, plus
the place of every token: `holder[i]` says whether token `i` (a live
`ShardRcId`) is held by a thread, local code, a field of another value, a queued
call, a call in flight, a queued detach or the detached list.  `key[i]` is the
value it retains.  Comments name the field each variable stands for.

Granularity: the owner thread is split wherever another thread can be seen to
act in between, that is at each access of a count or of the candidate queue and
around park and unpark; a remote drop is `RemoteDrop` (fetch_sub), `NotifyCheck`
(closed?), `NotifyPush`, `NotifyWake`.  The driver's loop is `stage` and `pc`: a
pass is `RegisterWaker`/`PollCandidates` or `CollectOrphans`, then one
`CheckKey` per key, then one `DropValue` per value, whose fields release tokens
(`DropField`), detach handles (`DetachField`), or whose destructor panics
(`UnwindValue`).  Shutdown follows `drive` to its end: drain, drop of the
pending futures, `release_detached`, last pass, `ContextGuard::drop`.
`DetachedNewestFirst` speaks of every step that moves a detached token on at
shutdown, in the loop's end and in the unwinding alike.

The end has two shortcuts.  A destructor that unwinds in a pass, or Slint dropping
the driver at one of its awaits (`Quit`), cancels what is pending and queued and
goes on with `ContextGuard::drop`.  A destructor that unwinds in the store's own
drop cuts that short: in the loop over the detached list, the fields of the store
drop next, the map in any order and then the list from its front
(`DropRemaining`); in the map, its other entries leak.  The store drops its own
reference of a value: one that a local reference keeps (`Kept`) lives on, may be
upgraded to (`UpgradeAfter`), and is destroyed with the last of these (`DropAfter`).

`ValueLifetime` is what the documentation of `ShardRc`, `ShardRcHandle` and
`ShardWeak` promises: a value in use stays stored, one that stays unused is
destroyed, none comes back.  `ShardStore!KeepsLifetime` is the refinement, with
"used" read as "a token or a weak call in flight exists".

### ShardDriver

Calls and local tasks with their state, what each waits for and the answer its
observer sees.  One action is one turn of application code or one step of the
loop; callers act between turns.  What a job does is reduced to how it ends or
what it waits for: another call or task, or something `External` that may never
come.  `LeaveLoop` closes the spawner and drops the tasks before the drain;
`GraceOver` drops what is pending; `Crash` and `Unwind` are a destructor that
unwinds out of `collect`.  `run_main`'s future is the call `Main`, which is not
queued and asks for shutdown as its last step.

`Mailbox` is the promise to callers: FIFO starts, refusal at once after
shutdown, all accepted calls started before the shard stops, an answer for each,
and the one exception of a shard that dies.  `ShardDriver!KeepsPromise` is the
refinement (without `Main`, which never is in the queue).

### Calls

What the queue, the future and the callback of a call keep, from its submission
to its answer, for calls about one value or about a joined group.  `state[c]`
goes from "queued" through "running" to "finished" (the callback is gone, the
answer not sent) and "over"; `held` are the tokens of `Target::_retain`,
`borrowed` the values looked up by `with_value` and not let go.  `Join` compares
the shards as `join` does, with the first handle of the group; `Send` has the
three ways a submission can end; `Start` looks the values up, `Finish` ends the
callback and releases, `Answer` sends.

Granularity: a sync callback, or the poll in which an async one ends, occupies
the shard's thread (`Busy`); between two polls everything else may act.  Async
callbacks await one call at most, made in `Submit` by a suspended callback of any
shard.  The values of this module are either stored or not: what a count is and
how a pass finds a value are in `ShardStore`, and `Collect` stands for all of
that.  `End` is the end of a shard after its drain or by a destructor.  When a call is
over its fields are reset (`Forget`), so that only its outcome remains.

### ShardRegistry

Shards as threads that start, register, run, exit or panic; joiners (outside
threads, or callbacks of shards) as programs of single steps: request, lock,
wait, unregister.  `join_all` takes the whole registry first, works on its list
and puts failed entries back.  `MayJoin` says which shard's callbacks join
which.

### Binding

One background shard or more, main shards with the thread that made them, and
other threads.  A bind is one call with its factory; `stack[t]` holds the
factories thread `t` is inside, since a factory may bind again, there or on
another shard.  `BindHere` is `bind` on the owner's thread with its check of
`is_closed` and `has_context`, `TryBind` is `try_bind` and `bind_local`,
`BindAndWait` and `BindAsync` go through the queue.  `Misfits` are binds of a type
that belongs to another shard; `MayWait` says which thread's code blocks on which.

The life of a shard is `phase`.  A main shard is idle until `RunMain`, which
takes over the context that earlier binds made, or `DropMain`, which drops the
receiver; a background shard runs from the start (how it starts is in
`ShardRegistry`).  Then both leave the loop for the drain, or die of a
destructor (`Crash`, `Unwind`), and `DropContext` takes the context out, with
the store's references, before the destructors of values that nothing else keeps
run ("leaving"), which may bind again.  Executors do not nest on a thread.  What
else runs on the loop is in `ShardDriver`, what happens to values in `ShardStore`.

A main shard in `slint` is a `SlintShard`: it has a context from its creation,
`RunMain` is the UI loop's first poll of its driver, which may be interleaved with the
drivers of other shards, and `Quit` (or `DropMain`) is the UI loop dropping the
driver unfinished, which `killed` records.  `ShutdownAsync` is `shutdown_async`
learning of the driver's completion, which is sent after its context has gone, or
that the sender was dropped.  `ShutdownHonest` is about the shard's queue and
store: a value that a caller's `ShardRc` keeps outlives an `Ok`, as the comment on
`ShardWeak` says, and `ShardStore` follows it.

### Events

One event, its connection list and identity counter; groups with their flag; the
groups a source value owns.  An action is one use of the list's lock.
Registration reserves an identity and lists the connection in two steps, so list
order and identity order may differ.  `disconnect_all` raises the flag, then
removes one connection per step (`StartGroup`, `RemoveNext`, `EndGroup`); the
owner's `Own` prunes groups and drops their guards, `Destroy` drops all.

An emission is a frame with its snapshot, the label answers so far, the match it
holds back and its deliveries; it interleaves with everything, which includes
what its own inline callbacks do.  Labels may reject or panic, submissions may
panic, deliveries settle later in any order and with any result: the receiver's
side is nondeterministic here, and that a shard settles everything it accepts is
`ShardDriver`'s `EveryWorkSettles`.  The ghosts `ready`, `going`, `gone` record
when a registration or disconnect has returned or begun, so that the properties
speak of what a caller knows.

### Sublists

`partition`, `retain` and `filter_map` all pass over a list once and keep some of
its entries in their order: `Filtered(s, S)` keeps the members of `S`.
`ShardRegistry` uses it for `unregister_shard`, `Events` for the pruned groups
of a value and the connections a scan took, `Expansion` for attributes.  It is a
recursive function and not the library's `SelectSeq`, so that `SublistsProofs` can
say what it does.

### ShardScopes

Which shard owns an eventful type (`eventful-rs-macros/src/affinity.rs`).  A tree
of inline modules, some with `#[sharded]`, some with `use_shard!`, an eventful type
in each, some with a shard of their own.  `ExpandSharded` gives the types of its
module, and of the modules in it that have no scope of their own, the path to the
alias; `ExpandEventful` resolves what it finds.  rustc's part is external: the
order of expansion is any that goes from the outside in, and `Resolve` follows
`super`.

### Expansion

`ShardScopes`, and the other algorithm of the macros: which signals an interface
has in which build (`events.rs`, `attributes.rs` and, for the connections of a
whole interface, `bulk_cfg`).  The two have nothing to do with each other; an
initial state has an input for one of them.

A build is the set of flags it has on, and a `cfg` predicate the set of builds it
holds in: the macro combines predicates with `not`, `all` and `any` and never looks
into one.  Attributes are `cfg`, any other, and `cfg_attr` around lists of
attributes, `MaxNesting` deep (`Nested`); `Active`, `Condition` and `Predicate` are
recursive functions of them: rustc's verdict, what the macro copies, and the
predicate it makes of that.  The macro cannot evaluate any, so that `ScanMethod`
adds guards and conditional errors.  The properties compare what it produced
with what the source says, in every build.

## 3. Runs

Every property has at least one mutant: a plausible bug in a mapped definition
(in the modules, marked "Mutant of ...") with which the same run fails.  No run
checks deadlock: shards stop, and so does the model.

| Run | Instance | States | Shows |
|---|---|---|---|
| `store_race` | 2 threads, 2 tokens, 1 value, 2 commands | 369 000 | exact counts, orphans, no lost wakeup, sleep is clean |
| `store_cascade` | 1 thread, 2 tokens, 2 values, 1 command | 1 002 000 | nothing in use collected, nothing unused forgotten, detached values go newest first, with values that hold handles of each other and destructors that may unwind; at the store's end only what others keep is left |
| `store_live` | 1 thread, 2 tokens, 2 values or 1 value and 1 command | 360 000 | refinement of `ValueLifetime` with its liveness; a closed store comes to its end with nothing left in it, though a destructor unwinds or the driver is dropped with another value still stored |
| `driver` | 3 calls (one is `Main`), 2 tasks | 114 000 | honest answers, nothing left behind, refinement of `Mailbox`; every work settles if the grace timer fires, and tasks do not hold the drain even if it never does |
| `calls` | 2 shards (one ends), 3 values (2 on one shard), 2 calls | 238 000 | callbacks run on their owner with all their values, misses are reported truly, answers come after the release, every accepted call is answered |
| `registry` | 2 shards, 2 outside threads, s1 joins s2 and itself | 117 000 | no shard lost or doubled, joined means unregistered and stopped, joins return |
| `registry_join_all` | 2 shards, 2 outside threads | — | finding, section 6 |
| `binding` | a background shard, a main or Slint shard, 3 threads, 3 binds (one a misfit) | 438 000 | no context after the end, early values stay, answers are honest, `shutdown_async` says `Ok` only of a shard that has ended with its store empty, all binds are answered |
| `events_groups` | 3 threads, 2 groups of up to 2 connections, 3 identities | 208 000 | disconnected and destroyed means unlisted |
| `events_emit` | 2 threads, 1 group of up to 4 connections, 3 identities, 1 emission of either kind | 1 900 000 | subscribers reached once in order, disconnected ones not, tracked result |
| `events_live` | 1 thread, 2 identities, 1 emission | 9 800 | tracked emissions are answered |
| `expansion` | up to 3 inline modules; up to 3 methods, 6 attribute lists with `cfg_attr` up to 2 deep, 2 flags | 822 000 | every type gets the shard its source says, every build the signals it declares |

The type invariants (`TypeOK`) are not among the runs' properties: section 5 proves
those of all components, as parts of their inductive invariants.  TLC has checked
each of these inductive invariants on the instances above, too, before it was
proved.

Why these bounds.  The store's races are between one releasing thread, one other
and the owner, on one value: a third thread repeats the role of one of them, and
two tokens are needed for "the last one" and "acquired meanwhile".  Two values
are needed for one that holds the other and for the order of destruction; with
them one thread suffices, since the race is per value; two detached values and
what their destructors detach make an order.  `MaxCalls` lets a strong,
a weak and a detach command be mixed in pairs.  `MaxWork` bounds values and
commands together: in `store_live` it gives either the second value, so that a
destructor unwinds in any pass, in `release_detached` or in the store's own drop
while another value is stored or detached, or a command on the only one; the
safety runs have room for both together.  For the loop, two calls and two
tasks give a call that waits for each kind, and a third call makes order in the
queue visible.  In `calls`, two values of one shard make a group that can lose
one of them, a value of another shard one that must not be joined; two calls are
a callback and the call it awaits, on the same shard or from one to the other, or two that share a
shard's thread.  The registry's conflicts are pairwise.  In `binding`, two binds that fit are one inside the
other's factory, one that waits while the other runs, or one before and one
after the end; one shard of each kind and a thread with none give every way to
reach a shard.  Three identities give a
snapshot with a first, a middle and a last connection, a counter at its limit
(`Exhausted`), and a wrap for the mutant that allows it.  In the event runs two
connections of one group separate "flag set" from "all removed", and the third
thread of `events_groups` lets an application disconnect a group which the value
prunes and a third party disconnects too.  Three modules inside a file give a scope
within a scope with a module between them, or a sibling of one; three methods a first, a
middle and a last declaration of a name, and the attribute lists are one of each
kind: none, a condition, its opposite, an irrelevant `cfg_attr`, and nested ones,
one of which contradicts the first.  The proofs of section 5 have no bound.

Symmetry is used in runs of safety properties only: the store's threads and
tokens are interchangeable, and in `events_groups` the threads other than the
owner.

## 4. Fairness

* `ShardStore!Fairness`.  A thread inside a drop finishes it.  The driver takes
  its own steps weakly fairly; the queue and the futures in progress strongly
  fairly, because `select!` polls its branches in a shuffled order and the
  collection branch may be taken in between any number of times.  Application
  callbacks are assumed to return.  No fairness on dropping handles, sending
  calls or shutting down.
* `ShardDriver!LoopFairness`.  Each ready branch of the select gets its turn; a
  call whose awaited answer is there is resumed; an aborted task is dropped.
  That a task or `External` ever ends is not assumed, nor is the grace timer:
  `PatientSpec` leaves it out, and what does depend on it has it as a hypothesis
  (`EveryWorkSettles == GraceEnds => ...`).
* `Calls!Fairness`.  A driver takes its commands and resumes a callback that can
  go on, both strongly fairly, as the callbacks of a shard have its thread in
  turns; an answer that is due is sent.  A callback ends, unless what it awaits does not.
  That a shard is asked to stop, or ends, is not assumed.
* `ShardRegistry!FairSpec`.  Joiners proceed and get a contended mutex at some
  time; a shard whose queue is closed exits between callbacks (strong fairness,
  since a callback in progress disables it).  That shards which join each other
  do not return is excluded by `MayJoin`, as it must be by the application.
* `Binding!FairSpec`.  Factories return, a driver takes what is queued and
  finishes unwinding, and a main shard is run or dropped at some time, which
  `eventful.rs` asks for ("must be running to complete this operation").  That
  anyone asks for shutdown is not assumed.  Threads that wait for each other in a
  circle are excluded by `MayWait`; a thread that waits for itself is not, as the
  code sees to that.
* `Events!Fairness`.  Threads and emissions go on; receivers settle what they
  accepted, which is what `driver` shows of a shard whose shutdown is
  requested, and what the application must see to for one that runs on.

## 5. Proofs

Every theorem is about all values of the constants; the assumption it rests on is
named below, and TLC evaluates it in every run.  Every invariant among the runs'
properties is a theorem, except the one that the finding refutes.

`ShardStoreProofs` proves, for any finite sets of threads and tokens and any
number of values and commands, from `StoreAssumption` alone (the bounds are
naturals, the token set is finite, the places are distinct):

| Theorem | Statement |
|---|---|
| `Invariance` | `Spec => []Inv` |
| `TypeCorrect` | `Spec => []TypeOK` |
| `CountsAreExact` | `Spec => []TokensCounted` |
| `NoUseAfterCollection` | `Spec => []InUseIsStored` |
| `NoLeak` | `Spec => []NoneForgotten` |
| `OrphansAreInUse` | `Spec => []OrphansInUse` |
| `WakeupIsNotLost` | `Spec => []NoLostWakeup` |
| `SleepIsClean` | `Spec => []AsleepMeansClean` |
| `NewestFirst` | `Spec => DetachedNewestFirst` |
| `EndLeavesNothing` | `Spec => []EndIsComplete` |
| `StoreKeepsLifetime` | `Spec` implements the initial states and steps of `ValueLifetime` |

None of the properties is inductive alone.  `Inv` adds what they rest on:

* `IdsOK`: a count is the cardinality of the set of tokens of its value, and a
  token has a value exactly when somebody holds it.  With it "the count is zero"
  means "no token", which is what lets a pass take a value.
* `DetachedHeld`: the detached list holds distinct tokens, all of them in it, so
  that popping one moves a token that nobody else can move.
* `DroppingHasKey`: a thread inside a drop knows the key it is to push.
* `Phases`: which parts of the state are empty in which part of `drive`; after
  the drain nothing is borrowed.
* `Reachable`: when the driver is about to sleep its waker is registered or it
  has been notified, and a non-empty queue means notified or a thread between
  push and wake.  This is the order "register, then look" against "push, then
  wake"; each of the two alone is not enough.
* `NoneForgotten` and `OrphansInUse` support each other: a pass may leave a
  token-free value out of the queue only as an orphan, and an orphan may be left
  alone only while a weak call uses it.

The helpers' effects are lemmas (`AcquireOK`, `ReleaseOK`, `MoveOK` about
cardinalities; `OwnerDropped`, `PushDetached`, `FrontOf` about what an action
leaves), stated pointwise so that the step lemmas need no set reasoning.  There
is a lemma per group of actions (`Remote`, `OwnerCode`, `Commands`, `Collect`,
`Shutdown`), with one step per action and under it one per part of `Inv`.

For the refinement each action is shown to be a stutter or one step of
`ValueLifetime`: a value bound, put to use or out of use or destroyed, or the store
closed or emptied.  That a pass destroys only what is not in use, and that
`DropValue` cannot meet a value that came back, is `InUseIsStored` and the parts
of `Inv` about the keys in hand.

For the end of the store `NothingInHand` says that nothing is retired between
passes, and `Leftover` follows the tokens: one in a field is in a field of a value
that is stored, retired, leaked or kept (`FieldsOwned`); one marked detached is in
the list (`ListHoldsDetached`), so that an empty list has dropped them all; from
the end of the cancellation on no call holds one and none can be submitted
(`NoCallHolds`).  Both are inductive with `Inv`, and at the end they are
`NothingLeft`.

`ShardDriverProofs` proves, for any sets of calls and tasks, from
`DriverAssumption` alone (calls, tasks, `External` and `Nothing` are distinct):

| Theorem | Statement |
|---|---|
| `DriverInvariant` | `Spec => []Inv` |
| `DriverTypes` | `Spec => []TypeOK` |
| `AnswersAreHonest` | `Spec => []HonestReply` |
| `NothingIsLeft` | `Spec => []NothingLeftBehind` |
| `DrainHasNoTask` | `Spec => []NoTaskInDrain` |
| `DriverKeepsPromise` | `Spec` implements the initial states and steps of `Mailbox` |

Here `Inv` adds `OverIsSettled` (a future is gone exactly when its observer has
an answer), `QueuedIsFound` (what is queued is in the queue or the spawner, once,
and nothing else is: without it the end of the loop could miss a call), `NotNew`
(an accepted call is never refused later; what is pending has started),
`AfterLoop` and `AfterDrain` (what each stage of the shutdown has emptied).  All
ways to end one call are instances of `SettlingKeepsInv`, all ways to drop many
of `CancellingKeepsInv`, whose hypotheses say what a stage must have dropped
before the next one may begin.

The refinement needs three more facts: what was accepted is what was started and
then what is queued, in order, until a driver dies (`Ledger`); the queue takes
commands only while the loop runs and tasks can be spawned (`OpenRuns`), or a
call could be accepted that the drain misses; and the main future is never in the
queue (`MainApart`).  Ends of many calls at once are one `Answer` step of
`Mailbox`.

`CallsProofs` proves, for any shards, values, owners and calls, from
`CallsAssumption` alone (owners are shards, `Nowhere` is neither a shard nor a
call):

| Theorem | Statement |
|---|---|
| `CallsInvariance` | `Spec => []CInv` |
| `CallsTypes` | `Spec => []TypeOK` |
| `OnlyOnOwner` | `Spec => []RunsOnOwner` |
| `TargetsStayStored` | `Spec => []TargetsStored` |
| `MissIsHonest` | `Spec => []HonestMiss` |
| `ReleasedBeforeAnswer` | `Spec => []AnswerAfterRelease` |

`CInv` says of each call what its state implies (`CallOK`): a call that is
queued or running is on a shard that is not down and owns its values, and retains
all of them if it is strong, so that they are stored; a running one borrows
all of them; what is over has nothing.  It needs that the values of a handle
share a shard and are stored as long as that shard is up (`HandlesOK`: the
submission relies on it), and that a queue lists queued calls of its shard, each
once (`QueueOK`: the driver must not meet a call again that it has started).

`ShardRegistryProofs` proves, for any shards, outside joiners and `MayJoin`, from
`RegistryAssumption` alone (shards, outside joiners and `Free` are distinct):

| Theorem | Statement |
|---|---|
| `RegistryInvariant` | `Spec => []RInv` |
| `JoinIsHonest` | `Spec => []JoinedMeansStopped` |
| `PlacesInvariant` | `Spec => []PInv` |
| `RegistryTypesCorrect` | `Spec => []TypeOK` |
| `NoShardIsLost` | `Spec => []NoShardLost` |
| `JoinedShardsLeave` | `Spec => []JoinedLeavesRegistry` |

`RInv` ties the cached outcome to the thread, and a join in progress to the shard
it was asked for.  `PInv` says where the registered shards are: none is in the
list and in the hands of a `join_all`, or in the hands of two (`PlacesOK`), and one
that has not been joined is in one of these places (`Retriable`).  That putting
failed entries back adds nothing twice needs that a `join_all` keeps only
entries that it has taken out of its list, each once (`HandOK`).

`BindingProofs` proves, for any shards, threads and binds, from
`BindingAssumption` alone (threads and main shards are distinct from background
shards, a main shard has a host):

| Theorem | Statement |
|---|---|
| `BindingInvariant` | `Spec => []BInv` |
| `BindingTypes` | `Spec => []TypeOK` |
| `EndedLeavesNothing` | `Spec => []NothingAfterEnd` |
| `BoundIsKept` | `Spec => []BoundStaysStored` |
| `BindsAreHonest` | `Spec => []HonestBind` |
| `ShutdownIsHonest` | `Spec => []ShutdownHonest` |

`BInv` says where an unanswered bind is: in its shard's queue with its factory
uncalled, or on the stack of its shard's thread with its factory called, once
in one of them.  With it "the queue is empty and no factory runs" means that
every bind of the shard has its answer, which is what `shutdown_async` reports;
that the queue of a shard past its loop is empty and closed (`ShardOK`), and that
no factory of a shard is on a stack once its context has gone (`StackOK`), are the
other two parts, and each needs the other: a factory that returned later would
store a value nobody collects.

`EventsProofs` proves, for any threads, groups, identities and emissions, from
`EventsAssumption` alone (the owner is a thread, `NoGroup` is no group, the bounds
are naturals):

| Theorem | Statement |
|---|---|
| `EventsInvariant` | `Spec => []EInv` |
| `EventsTypesCorrect` | `Spec => []TypeOK` |
| `GoneStaysUnlisted` | `Spec => []GoneIsUnlisted` |
| `DestroyedValueIsSilent` | `Spec => []DestroyedIsSilent` |
| `DispatchesInOrder` | `Spec => []InConnectionOrder` |
| `ResultOfTracked` | `Spec => []TrackedResult` |
| `DisconnectSilences` | `Spec => []SilentAfterDisconnect` |
| `EverySubscriberIsReached` | `Spec => []ReachesSubscribers` |

`EInv` has two halves.  The first is about the list.  An identity that is listed
or reserved is below the counter and belongs to one connection (`IdentitiesOK`); a
group under construction belongs to one thread and has no token yet
(`GroupsOK`): without these, one thread's removal could take another's
connection.  A thread that disconnects a group still has in its hands what is
listed of it (`ThreadOK`), so that it may say "gone" at the end though others
remove connections of the same group; a group a value has ever owned is owned, on
its way out in the owner's hands, or not listed (`ValueOK`).  The second half is
about one emission (`FrameOK`): the deliveries, and the match held back, are the
connections that the labels took so far, in snapshot order, or a prefix if a
submission panicked (`OrderOK`); the result is an outcome of the first failure
(`ResultOK`).  The halves meet where the snapshot is taken: all of `must` is in
it, nothing of `dead`.

`ExpansionProofs` proves, for units with any number of modules nested in any way,
and for interfaces of any length with attributes nested to any depth, from
`ScopesAssumption` and `ExpansionAssumption` (the bounds are naturals, `AttrLists`
is a set of lists of attributes, and no signal has the rejected name):

| Theorem | Statement |
|---|---|
| `ScopesInvariant` | `ScopesSpec => []SInv` |
| `ScopesTypesCorrect` | `ScopesSpec => []ScopesTypeOK` |
| `InnermostScopeIsTaken` | `ScopesSpec => []InnermostScopeWins` |
| `ExpansionHandlesScopes` | `Spec => ScopesSpec` |
| `TypesGetTheirShard` | `Spec => []InnermostScopeWins` |
| `SignalsInvariant` | `Spec => []SignalsInv` |
| `SignalsAreRight` | `Spec => []FirstDeclarationWins` |
| `ClashesAreReported` | `Spec => []ClashReported` |
| `BulkIsRight` | `Spec => []BulkIffSignals` |

Scopes: a scope writes a path into exactly the modules it is the innermost one of
(`PathsReachTheirOwn`), and following the path's `super`s from such a module ends
at the scope (`PathsLead`).  With these `SInv` says that a type without a
selection has the path of its innermost scope from that scope's expansion on, and
nothing before (`PickOK`).  When the type is expanded, all scopes around it have
been.

Signals: `ConditionFits` is the heart, an induction over the nesting of
attributes.  What `condition` copies of an attribute holds in the same builds as
the attribute; if it copies nothing the attribute decides nothing; and
`predicate` of the copy holds in these builds again.  `ConditionsKeep` is that for
lists, and `SignalsInv` says that the scan has recorded the guards and errors of
all methods it has seen, and failed only at a method that no build can have.

These are inductions over lists, trees and attributes, which the library's
induction theorems cannot be used for here, as they take an operator.
`SublistsProofs` derives an induction over sets of naturals (the lemma
`SetInduction`) from the library's theorem that `<` on `Nat` is well-founded, and
with it what `Filtered` does (`FilteredEntries` and its neighbours); the recursive
functions of the modules get their equations the same way (`TreeRecursion` for trees,
`AttributeRecursion` for attributes).

Only model-checked: all liveness, and the fairness of the two refinements
(liveness under fairness is out of the prover's reach).

## 6. Finding

`registry.rs:10` documents `join_all_shards` as "Stop and join registered
background shards".  It takes the registry's list (`registry.rs:35`) before it
waits, so a second, concurrent call finds no entries and returns `Ok` while
shards that were registered still run.  `registry_join_all` shows it: one thread
is waiting for a shard, the other is told `all ok`.  A single caller is
unaffected, and `NoShardLost` shows that no entry is lost by it.

## 7. Abstractions and what is not modelled

* Payloads, value types and label contents: a label's answer is any of accept,
  reject, panic at each visit.  Dropping the future of a tracked emission or
  call is not modelled; the code does not cancel the work then.
* `ShardStore`: destructors release and detach handles, but do not bind values,
  upgrade handles or call; borrows of a value during a bind.  What a value keeps in
  its fields are handles (tokens), never a `ShardRc` of another value.  A
  destructor may unwind once, in a pass, in `release_detached`, in the loop of
  `ShardRcStore::drop` or in the drop of its map (`UnwindValue`); a second one
  while the thread unwinds aborts the process, and those of `ShardRc`s that outlive
  the shard unwind into the caller's code, not into it.  That std's `HashMap` leaks
  its remaining entries when one unwinds is external behaviour (`leaked`).
  Locals of a cancelled future that unwind are left out.  `ShardDriver` has no
  values and `ShardStore` no answers: the two share the stages of `drive`.
* Memory ordering: atomics are sequentially consistent in the model.  The
  release/acquire pairs in `ShardRcId` are single-variable counters, and the
  signal's queue is under a lock.
* `Binding`: panics of a `run_main` on another thread, a second time or inside a
  runtime leave the state alone and are not modelled, nor is `bind`'s refusal to
  block inside Tokio; named shards that start on first use; what a factory binds
  besides its own value.
* `Calls`: a callback that awaits several calls, one after the other or at once;
  an observer that drops its future, which changes nothing on the shard.
  `CancelAll` lets a cancelled call release its tokens and tell its observer
  `Canceled` in one step; the code drops the captures first and the sender after
  them (`engine.rs:215-235`), the order `AnswerAfterRelease` wants.
  That a failed call makes the callback that awaits it panic is the guard of
  `Finish`, and no property repeats it.
* `Events`: `RemoveNext` drops the connection it removes, and what its callback
  captured, without a panic.  A captured destructor that unwinds in the middle of
  `disconnect_all` (`connection.rs:100-102`, `event.rs:86-96`) would leave the
  rest of the group listed with its flag raised.  A `ConnectionGroup` that is
  cloned and extended through both clones is not modelled either.
* `task.rs`: `run_task` is one thread that reads one flag before it calls back,
  and its documentation leaves the race with a cancellation open; there is no
  interleaving whose outcome it promises anything about.  `report.rs` calls a
  reporter with no lock held, `error.rs` formats.
* Macros: modules with a `#[sharded]` or `use_shard!` that a `cfg_attr` hides;
  token output, whose mistakes the compiler reports; parsing; the entry points;
  Slint's callback bridge (`slint_events.rs`), whose order of events is Slint's.
* Executors, thread spawning failures, poisoned locks and 2^64 counters, except the identity counter of an
  event, which `Events` keeps at a small width.
* A `panic!` in the middle of `ShardRc::connect` leaves an ownerless group
  (`Exhausted` shows the one the library itself raises).

## 8. Plan

Done: `ShardStore` and `ShardDriver` with their refinements, `Calls`, `Binding`,
`ShardRegistry`, `Events`, `ShardScopes` and `Expansion`, all with their proofs.

Next, in this order:

1. Action properties that say of single steps what the invariants say of states:
   that an answer once given does not change, that a destroyed value does not come
   back, that a connection's delivery is not taken back.
2. `ShardStore`: binding and upgrading inside destructors, and what `closed` does
   to them; values that keep a `ShardRc` of another value.
3. `Calls`: callbacks that await several calls.
