--------------------------------- MODULE Calls ---------------------------------
(***************************************************************************)
(* Calls on values through weak, strong and joined handles                 *)
(* (shard_handle.rs, shard_handle/joined.rs, run_with, post_with and       *)
(* deferred_with of engine.rs, the methods #[asynchronize] generates):     *)
(* what a submitted call keeps alive and until when, where it runs, what   *)
(* its caller is told, and calls that await calls of any shard.            *)
(*                                                                         *)
(* Granularity.  A sync callback, and the poll in which an async one ends, *)
(* occupy their shard's thread; other threads act in between.  Token       *)
(* counts and the collector's own races are in ShardStore: here a value is *)
(* in use while something has a token or a borrow of it, and Collect takes *)
(* an unused one in one step.  Handles are clonable, so the handles that   *)
(* exist are a set, and a joined group is the set of its values; a handle  *)
(* may stand for a ShardRc.  Owner code can make one for any stored value, *)
(* and anyone can have a weak handle.                                      *)
(***************************************************************************)
EXTENDS Naturals, Sequences

CONSTANTS
  Shards, Values,
  Owner,       (* Owner[v]: the shard whose store has v                     *)
  MayEnd,      (* shards that stop or crash before everything is over (bound) *)
  CallIds,     (* calls that can be made (bound)                            *)
  Nowhere      (* not sent to any shard, not awaiting any call              *)

ASSUME CallsAssumption ==
  /\ Owner \in [Values -> Shards]
  /\ MayEnd \subseteq Shards
  /\ Nowhere \notin Shards /\ Nowhere \notin CallIds

VARIABLES
  handles,   (* strong handles, each the set of its values                  *)
  values,    (* the values in the stores of the shards                      *)
  open,      (* open[s]: admission of shard s                               *)
  stage,     (* stage[s]: "run", "drain" or "down"                          *)
  queue,     (* queue[s]: calls accepted by s and not taken yet             *)
  state,     (* state[c]: see States                                        *)
  at,        (* at[c]: the shard c was sent to                              *)
  target,    (* target[c]: the values of the callback                       *)
  strong,    (* strong[c]: sent through a strong or joined handle           *)
  mode,      (* mode[c]: see Modes                                          *)
  held,      (* held[c]: values c has a token of (Target::_retain)          *)
  borrowed,  (* borrowed[c]: values c has looked up and not let go          *)
  awaits,    (* awaits[c]: the call the async callback of c awaits          *)
  outcome    (* outcome[c]: how c ended; its observer knows when c is over  *)

shards == <<open, stage, queue>>
call   == <<at, target, strong, mode>>
uses   == <<held, borrowed>>
vars   == <<handles, values, shards, state, call, uses, awaits, outcome>>

\* "finished": the callback is gone, the answer not sent yet.
States   == {"new", "queued", "running", "finished", "over"}
\* A sync callback (run_with), or an async one (post_with, deferred_with; the
\* first is the second without an observer).
Modes    == {"run", "async"}
Outcomes == {"Ok", "Panicked", "Missing", "Canceled", "Closed", "WrongShard"}
Groups   == (SUBSET Values) \ {{}}

Init ==
  /\ handles = {} /\ values = Values
  /\ open = [s \in Shards |-> TRUE]
  /\ stage = [s \in Shards |-> "run"]
  /\ queue = [s \in Shards |-> <<>>]
  /\ state = [c \in CallIds |-> "new"]
  /\ at = [c \in CallIds |-> Nowhere]
  /\ target = [c \in CallIds |-> {}]
  /\ strong = [c \in CallIds |-> FALSE]
  /\ mode = [c \in CallIds |-> "run"]
  /\ held = [c \in CallIds |-> {}]
  /\ borrowed = [c \in CallIds |-> {}]
  /\ awaits = [c \in CallIds |-> Nowhere]
  /\ outcome = [c \in CallIds |-> "none"]

\* A sync callback, or the end of a poll, has the thread of shard s.
Busy(s) ==
  \E c \in CallIds :
     /\ at[c] = s
     /\ \/ state[c] = "running" /\ mode[c] = "run"
        \/ state[c] = "finished"

Used(v) ==
  \/ \E g \in handles : v \in g
  \/ \E c \in CallIds : v \in held[c] \cup borrowed[c]

-------------------------------------------------------------------------------
(* Handles.                                                                  *)

\* bind, find_value or upgrade in owner code, then to_handle.
MakeHandle(v) ==
  /\ v \in values /\ stage[Owner[v]] \in {"run", "drain"}
  /\ handles' = handles \cup {{v}}
  /\ UNCHANGED <<values, shards, state, call, uses, awaits, outcome>>

\* The handle whose shard a group is joined to and called on.
First(g) == CHOOSE v \in g : TRUE

\* (Mutant of Join: the shards are not compared.)
JoinAny(g, v) ==
  /\ g \in handles /\ {v} \in handles
  /\ handles' = handles \cup {g \cup {v}}
  /\ UNCHANGED <<values, shards, state, call, uses, awaits, outcome>>

\* ShardRcHandle::join and JoinedHandles::join: the first handle of the group
\* decides; None is returned, and nothing cloned, when the shards differ.
Join(g, v) ==
  /\ g \in handles /\ {v} \in handles
  /\ Owner[First(g)] = Owner[v]
  /\ handles' = handles \cup {g \cup {v}}
  /\ UNCHANGED <<values, shards, state, call, uses, awaits, outcome>>

DropHandle(g) ==
  /\ g \in handles
  /\ handles' = handles \ {g}
  /\ UNCHANGED <<values, shards, state, call, uses, awaits, outcome>>

-------------------------------------------------------------------------------
(* Submission, by any thread.  The async form of a call submits at its first *)
(* poll, the try_ form at once: either way it is one send.                   *)

\* c is over without ever reaching the shard; what it captured is dropped.
Refuse(c, r) ==
  /\ state' = [state EXCEPT ![c] = "over"]
  /\ outcome' = [outcome EXCEPT ![c] = r]
  /\ UNCHANGED <<queue, call, held>>

\* c enters the queue of s with a token for each value of kept.
Accept(c, g, kept, m, s) ==
  /\ open[s]
  /\ queue' = [queue EXCEPT ![s] = Append(@, c)]
  /\ state' = [state EXCEPT ![c] = "queued"]
  /\ at' = [at EXCEPT ![c] = s]
  /\ target' = [target EXCEPT ![c] = g]
  /\ strong' = [strong EXCEPT ![c] = kept # {}]
  /\ mode' = [mode EXCEPT ![c] = m]
  /\ held' = [held EXCEPT ![c] = kept]
  /\ UNCHANGED outcome

\* (Mutant of Send: a joined call retains its first value only.)
SendFirst(c, g, isStrong, m, s) ==
  \/ Owner[First(g)] # s /\ Refuse(c, "WrongShard")
  \/ Owner[First(g)] = s /\ Accept(c, g, IF isStrong THEN {First(g)} ELSE {}, m, s)
  \/ Owner[First(g)] = s /\ ~open[s] /\ Refuse(c, "Closed")

\* A strong call retains every value it is about, a weak one nothing.  It is
\* refused when its handle belongs to another shard, or when s is closed.
Send(c, g, isStrong, m, s) ==
  \/ Owner[First(g)] # s /\ Refuse(c, "WrongShard")
  \/ Owner[First(g)] = s /\ Accept(c, g, IF isStrong THEN g ELSE {}, m, s)
  \/ Owner[First(g)] = s /\ ~open[s] /\ Refuse(c, "Closed")

\* An async callback that has run up to an await.
Suspended(p) ==
  /\ state[p] = "running" /\ mode[p] # "run"
  /\ stage[at[p]] \in {"run", "drain"}
  /\ awaits[p] = Nowhere /\ ~Busy(at[p])

\* An async callback can make a call and await it (one at most: bound).
Submit(c, g, isStrong, m, s) ==
  /\ state[c] = "new"
  /\ Send(c, g, isStrong, m, s)
  /\ \/ UNCHANGED awaits
     \/ /\ m = "async"
        /\ \E p \in CallIds : Suspended(p) /\ awaits' = [awaits EXCEPT ![p] = c]
  /\ UNCHANGED <<handles, values, open, stage, borrowed>>

\* A joined group calls its own shard; a single handle can also be given to
\* any shard's try_*_with_handle.
SubmitStrong(c, g, m, s) ==
  /\ g \in handles
  /\ g # {First(g)} => s = Owner[First(g)]
  /\ Submit(c, g, TRUE, m, s)

SubmitWeak(c, v, m, s) == Submit(c, {v}, FALSE, m, s)

RequestShutdown(s) ==
  /\ s \in MayEnd /\ open[s]
  /\ open' = [open EXCEPT ![s] = FALSE]
  /\ UNCHANGED <<handles, values, stage, queue, state, call, uses, awaits, outcome>>

-------------------------------------------------------------------------------
(* The owner's thread.                                                       *)

\* (Mutant of Begin: the values are looked up and not kept.)
BeginUnborrowed(c) ==
  /\ state' = [state EXCEPT ![c] = "running"]
  /\ UNCHANGED <<held, borrowed, outcome>>

\* Every value of the callback is stored: it runs with a borrow of each.
Begin(c) ==
  /\ state' = [state EXCEPT ![c] = "running"]
  /\ borrowed' = [borrowed EXCEPT ![c] = target[c]]
  /\ UNCHANGED <<held, outcome>>

\* (Mutant of Complete: the answer goes out before the captured target.)
CompleteHolding(c, r) ==
  /\ state' = [state EXCEPT ![c] = "over"]
  /\ outcome' = [outcome EXCEPT ![c] = r]
  /\ borrowed' = [borrowed EXCEPT ![c] = {}]
  /\ UNCHANGED held

\* The callback is gone, by return or by unwinding, with its borrows and its
\* tokens.
Complete(c, r) ==
  /\ state' = [state EXCEPT ![c] = "finished"]
  /\ outcome' = [outcome EXCEPT ![c] = r]
  /\ borrowed' = [borrowed EXCEPT ![c] = {}]
  /\ held' = [held EXCEPT ![c] = {}]

\* (Mutant of Start: the driver waits for a callback until it ends.)
StartWhenAlone(s) ==
  /\ stage[s] = "run" /\ queue[s] # <<>>
  /\ \A c \in CallIds : at[c] = s => state[c] \notin {"running", "finished"}
  /\ queue' = [queue EXCEPT ![s] = Tail(@)]
  /\ LET c == Head(queue[s]) IN
     \/ target[c] \subseteq values /\ Begin(c)
     \/ ~(target[c] \subseteq values) /\ Complete(c, "Missing")
  /\ UNCHANGED <<handles, values, open, stage, call, awaits>>

\* The driver takes the next command; the callback looks its values up and is
\* skipped (run, post) or answers ValueMissing (deferred) when one is gone.
Start(s) ==
  /\ stage[s] = "run" /\ ~Busy(s) /\ queue[s] # <<>>
  /\ queue' = [queue EXCEPT ![s] = Tail(@)]
  /\ LET c == Head(queue[s]) IN
     \/ target[c] \subseteq values /\ Begin(c)
     \/ ~(target[c] \subseteq values) /\ Complete(c, "Missing")
  /\ UNCHANGED <<handles, values, open, stage, call, awaits>>

\* What c awaits, if anything, has been answered.
Answered(c) == awaits[c] # Nowhere => state[awaits[c]] = "over"

\* c awaits a call that failed.
AwaitFailed(c) == awaits[c] # Nowhere /\ outcome[awaits[c]] # "Ok"

\* The callback ends.  One that awaits an asynced method panics when that call
\* fails (expect("deferred shard invocation failed")).
Finish(c) ==
  /\ state[c] = "running" /\ stage[at[c]] \in {"run", "drain"}
  /\ mode[c] # "run" => ~Busy(at[c]) /\ Answered(c)
  /\ \/ ~AwaitFailed(c) /\ Complete(c, "Ok")
     \/ Complete(c, "Panicked")
  /\ UNCHANGED <<handles, values, shards, call, awaits>>

\* The closures of the calls in S are gone.
Forget(S) ==
  /\ state' = [c \in CallIds |-> IF c \in S THEN "over" ELSE state[c]]
  /\ at' = [c \in CallIds |-> IF c \in S THEN Nowhere ELSE at[c]]
  /\ target' = [c \in CallIds |-> IF c \in S THEN {} ELSE target[c]]
  /\ strong' = [c \in CallIds |-> IF c \in S THEN FALSE ELSE strong[c]]
  /\ mode' = [c \in CallIds |-> IF c \in S THEN "run" ELSE mode[c]]
  /\ awaits' = [c \in CallIds |-> IF c \in S THEN Nowhere ELSE awaits[c]]

\* tx.send(result), or the return of an untracked callback.
Answer(c) ==
  /\ state[c] = "finished"
  /\ Forget({c})
  /\ UNCHANGED <<handles, values, shards, uses, outcome>>

\* Collection in the select loop; nothing is collected in the drain.
Collect(v) ==
  /\ v \in values
  /\ stage[Owner[v]] = "run" /\ ~Busy(Owner[v])
  /\ ~Used(v)
  /\ values' = values \ {v}
  /\ UNCHANGED <<handles, shards, state, call, uses, awaits, outcome>>

\* The closed queue is empty: the loop is left.
Leave(s) ==
  /\ stage[s] = "run" /\ ~Busy(s)
  /\ ~open[s] /\ queue[s] = <<>>
  /\ stage' = [stage EXCEPT ![s] = "drain"]
  /\ UNCHANGED <<handles, values, open, queue, state, call, uses, awaits, outcome>>

Unanswered(s) == {c \in CallIds : at[c] = s /\ state[c] \in {"queued", "running"}}

\* Futures and commands dropped with their shard: whatever they captured goes
\* (in either order with the sender), their callers read Canceled.
CancelAll(S) ==
  /\ Forget(S)
  /\ outcome' = [c \in CallIds |-> IF c \in S THEN "Canceled" ELSE outcome[c]]
  /\ held' = [c \in CallIds |-> IF c \in S THEN {} ELSE held[c]]
  /\ borrowed' = [c \in CallIds |-> IF c \in S THEN {} ELSE borrowed[c]]

\* The drain is over (nothing pending, or the grace period) or, from the loop,
\* a destructor unwound through the driver.  Either way the store goes, with
\* every value in it.
End(s) ==
  /\ s \in MayEnd
  /\ stage[s] \in {"run", "drain"} /\ ~Busy(s)
  /\ CancelAll(Unanswered(s))
  /\ stage' = [stage EXCEPT ![s] = "down"]
  /\ open' = [open EXCEPT ![s] = FALSE]
  /\ queue' = [queue EXCEPT ![s] = <<>>]
  /\ values' = {v \in values : Owner[v] # s}
  /\ UNCHANGED handles

-------------------------------------------------------------------------------
Next ==
  \/ \E v \in Values : MakeHandle(v) \/ Collect(v)
  \/ \E g \in handles : DropHandle(g) \/ \E v \in Values : Join(g, v)
  \/ \E c \in CallIds, m \in Modes, s \in Shards :
        \/ \E g \in handles : SubmitStrong(c, g, m, s)
        \/ \E v \in Values : SubmitWeak(c, v, m, s)
  \/ \E s \in Shards : RequestShutdown(s) \/ Start(s) \/ Leave(s) \/ End(s)
  \/ \E c \in CallIds : Finish(c) \/ Answer(c)

Spec == Init /\ [][Next]_vars

(***************************************************************************)
(* Fairness.  The driver takes its commands and resumes the callbacks that *)
(* can go on; the ready branches of its select are taken in shuffled order *)
(* (SF: another callback may have the thread now and then).  A callback    *)
(* itself is assumed to end.                                               *)
(***************************************************************************)
Fairness ==
  /\ \A s \in Shards : SF_vars(Start(s))
  /\ \A c \in CallIds : SF_vars(Finish(c)) /\ WF_vars(Answer(c))

FairSpec == Spec /\ Fairness

-------------------------------------------------------------------------------
(* Properties.                                                               *)

TypeOK ==
  /\ handles \subseteq Groups /\ values \subseteq Values
  /\ open \in [Shards -> BOOLEAN]
  /\ stage \in [Shards -> {"run", "drain", "down"}]
  /\ queue \in [Shards -> Seq(CallIds)]
  /\ state \in [CallIds -> States]
  /\ at \in [CallIds -> Shards \cup {Nowhere}]
  /\ target \in [CallIds -> SUBSET Values]
  /\ strong \in [CallIds -> BOOLEAN]
  /\ mode \in [CallIds -> Modes]
  /\ held \in [CallIds -> SUBSET Values]
  /\ borrowed \in [CallIds -> SUBSET Values]
  /\ awaits \in [CallIds -> CallIds \cup {Nowhere}]
  /\ outcome \in [CallIds -> Outcomes \cup {"none"}]

\* No callback is ever queued or run anywhere but on the shard that owns every
\* one of its values, however groups were joined and whichever shard was asked
\* (the values are not Sync; JoinedHandles: "validated to belong to the same
\* shard").
RunsOnOwner ==
  \A c \in CallIds : state[c] \in {"queued", "running"} =>
     \A v \in target[c] : Owner[v] = at[c]

\* A callback that has started has all its values for as long as it runs, over
\* its awaits too, though every handle is dropped meanwhile.
TargetsStored ==
  \A c \in CallIds : state[c] = "running" => target[c] \subseteq values

\* A strong or joined call that was accepted is never skipped and never told
\* ValueMissing; a weak one only when its value is gone.
HonestMiss ==
  \A c \in CallIds : state[c] = "finished" /\ outcome[c] = "Missing" =>
     ~strong[c] /\ ~(target[c] \subseteq values)

\* A caller that has its answer knows that the call keeps nothing alive any
\* more: tokens and borrows go before the answer, after a panic too.
AnswerAfterRelease ==
  \A c \in CallIds : state[c] = "over" => held[c] = {} /\ borrowed[c] = {}

\* Every accepted call is answered, though callbacks await calls of their own
\* or of each other's shard: a suspended callback does not have the thread.
CallsComplete == \A c \in CallIds : state[c] = "queued" ~> state[c] = "over"
===============================================================================
