------------------------------ MODULE ShardDriver ------------------------------
(***************************************************************************)
(* One shard's event loop (engine/driver.rs) with its admission queue and  *)
(* the answers of tracked calls (engine.rs), its local tasks               *)
(* (local_task.rs), and the main future of run_main (main_loop.rs).        *)
(*                                                                         *)
(* Callers on any thread submit, ask for shutdown and abort tasks between  *)
(* the driver's turns.  A turn runs one synchronous stretch of application *)
(* code.  What a job or task waits for is an answer of another call or     *)
(* task of the shard, or something External that may never come.           *)
(* Values and their collection are in ShardStore.                          *)
(***************************************************************************)
EXTENDS Naturals, Sequences, FiniteSets

CONSTANTS
  Calls,     (* the calls that can be made (bound)                          *)
  Tasks,     (* the local tasks that can be spawned (bound)                 *)
  Main,      (* the call that is run_main's initial future, or Nothing      *)
  External,  (* waiting for something outside the shard                     *)
  Nothing    (* not waiting                                                 *)

ASSUME DriverAssumption ==
  /\ Calls \cap Tasks = {}
  /\ External \notin Calls \cup Tasks \cup {Nothing}
  /\ Nothing \notin Calls \cup Tasks
  /\ Main \in Calls \cup {Nothing}

Work == Calls \cup Tasks

VARIABLES
  open,      (* the admission queue accepts commands                        *)
  queue,     (* accepted calls the driver has not taken                     *)
  state,     (* state[w] of each call and task: see States                  *)
  awaits,    (* awaits[w]: what a pending call waits for                    *)
  reply,     (* reply[w]: what the observer of w is told, or "none"         *)
  aborted,   (* tasks whose abort flag is set                               *)
  spawned,   (* LocalSpawner::queue                                         *)
  spawnable, (* ~LocalSpawner::closed                                       *)
  stage,     (* "run", "drain", "down"; or "dying", "dead" after a crash    *)
  accepted,  (* history: calls in the order they were accepted              *)
  started    (* history: calls in the order they were started               *)

vars == <<open, queue, state, awaits, reply, aborted, spawned, spawnable, stage, accepted, started>>

\* A call is new, queued, pending, then over; a task is new, queued in the
\* spawner, pending in local_tasks, then over.
States  == {"new", "queued", "pending", "over"}
Replies == {"Ok", "Panicked", "Canceled", "Closed"}

Init ==
  /\ open = TRUE /\ queue = <<>>
  /\ state = [w \in Work |-> IF w = Main THEN "pending" ELSE "new"]
  /\ awaits = [w \in Work |-> IF w = Main THEN External ELSE Nothing]
  /\ reply = [w \in Work |-> "none"]
  /\ aborted = {} /\ spawned = {} /\ spawnable = TRUE
  /\ stage = "run"
  /\ accepted = <<>> /\ started = <<>>

Settled(w) == reply[w] # "none"

\* The future of w is gone and its observer has been told r.
Settle(w, r) ==
  /\ state' = [state EXCEPT ![w] = "over"]
  /\ awaits' = [awaits EXCEPT ![w] = Nothing]
  /\ reply' = [reply EXCEPT ![w] = r]

\* Futures dropped unfinished: each drops its sender, which reads as Canceled.
CancelAll(S) ==
  /\ state' = [w \in Work |-> IF w \in S THEN "over" ELSE state[w]]
  /\ awaits' = [w \in Work |-> IF w \in S THEN Nothing ELSE awaits[w]]
  /\ reply' = [w \in Work |-> IF w \in S THEN "Canceled" ELSE reply[w]]

Pending(S) == {w \in S : state[w] = "pending"}

-------------------------------------------------------------------------------
(* Callers.                                                                  *)

\* (Mutant of Submit: the call is queued before the queue is found closed.)
SubmitThenCheck(c) ==
  /\ state[c] = "new"
  /\ queue' = Append(queue, c)
  /\ accepted' = Append(accepted, c)
  /\ IF open
     THEN /\ state' = [state EXCEPT ![c] = "queued"]
          /\ UNCHANGED <<awaits, reply>>
     ELSE Settle(c, "Closed")
  /\ UNCHANGED <<open, aborted, spawned, spawnable, stage, started>>

\* ShardEventHandle::send: accepted, or refused and answered Closed.
Submit(c) ==
  /\ state[c] = "new"
  /\ IF open
     THEN /\ queue' = Append(queue, c)
          /\ accepted' = Append(accepted, c)
          /\ state' = [state EXCEPT ![c] = "queued"]
          /\ UNCHANGED <<awaits, reply>>
     ELSE Settle(c, "Closed") /\ UNCHANGED <<queue, accepted>>
  /\ UNCHANGED <<open, aborted, spawned, spawnable, stage, started>>

RequestShutdown ==
  /\ open
  /\ open' = FALSE
  /\ UNCHANGED <<queue, state, awaits, reply, aborted, spawned, spawnable, stage, accepted, started>>

\* TaskHandle::abort, or the drop of a LocalTask that was not detached.
Abort(k) ==
  /\ state[k] \in {"queued", "pending"} /\ k \notin aborted
  /\ aborted' = aborted \cup {k}
  /\ UNCHANGED <<open, queue, state, awaits, reply, spawned, spawnable, stage, accepted, started>>

\* local_task::spawn, from code on the shard's thread.
Spawn(k) ==
  /\ stage \in {"run", "drain"}
  /\ state[k] = "new"
  /\ IF open /\ spawnable
     THEN /\ spawned' = spawned \cup {k}
          /\ state' = [state EXCEPT ![k] = "queued"]
          /\ UNCHANGED <<awaits, reply>>
     ELSE Settle(k, "Closed") /\ UNCHANGED spawned
  /\ UNCHANGED <<open, queue, aborted, spawnable, stage, accepted, started>>

-------------------------------------------------------------------------------
(* The select loop.                                                          *)

\* (Mutant of StartCall: the newest command is taken.)
StartNewest ==
  /\ stage = "run" /\ queue # <<>>
  /\ queue' = SubSeq(queue, 1, Len(queue) - 1)
  /\ started' = Append(started, queue[Len(queue)])
  /\ \E r \in {"Ok", "Panicked"} : Settle(queue[Len(queue)], r)
  /\ UNCHANGED <<open, aborted, spawned, spawnable, stage, accepted>>

\* A command leaves the queue: a Run runs to its end, a Job is polled once and
\* ends or waits.  Panics are caught.
StartCall ==
  /\ stage = "run" /\ queue # <<>>
  /\ queue' = Tail(queue)
  /\ started' = Append(started, Head(queue))
  /\ LET c == Head(queue) IN
     \/ \E r \in {"Ok", "Panicked"} : Settle(c, r)
     \/ \E w \in (Work \ {c}) \cup {External} :
          /\ w \in Work => ~Settled(w) /\ state[w] # "new"
          /\ state' = [state EXCEPT ![c] = "pending"]
          /\ awaits' = [awaits EXCEPT ![c] = w]
          /\ UNCHANGED reply
  /\ UNCHANGED <<open, aborted, spawned, spawnable, stage, accepted>>

\* A pending call resumes when what it waits for is there, and ends.  The main
\* future asks for shutdown as its last step.
Resume(c) ==
  /\ stage \in {"run", "drain"}
  /\ state[c] = "pending"
  /\ awaits[c] # External => Settled(awaits[c])
  /\ \E r \in {"Ok", "Panicked"} : Settle(c, r)
  /\ open' = (open /\ c # Main)
  /\ UNCHANGED <<queue, aborted, spawned, spawnable, stage, accepted, started>>

\* Spawned tasks join local_tasks and are polled on a later turn.
AdoptSpawned ==
  /\ stage = "run" /\ spawned # {}
  /\ state' = [w \in Work |-> IF w \in spawned THEN "pending" ELSE state[w]]
  /\ spawned' = {}
  /\ UNCHANGED <<open, queue, awaits, reply, aborted, spawnable, stage, accepted, started>>

\* A local task ends: an aborted one when it is next polled.
EndTask(k) ==
  /\ stage = "run" /\ state[k] = "pending"
  /\ \E r \in (IF k \in aborted THEN {"Canceled"} ELSE {"Ok", "Panicked"}) : Settle(k, r)
  /\ UNCHANGED <<open, queue, aborted, spawned, spawnable, stage, accepted, started>>

\* A value's destructor unwinds out of collect: the driver's future unwinds.
\* (The collections outside the loop are in LeaveLoop, Drained and GraceOver.)
Crash ==
  /\ stage = "run"
  /\ stage' = "dying"
  /\ UNCHANGED <<open, queue, state, awaits, reply, aborted, spawned, spawnable, accepted, started>>

-------------------------------------------------------------------------------
(* Shutdown.                                                                 *)

\* (Mutant of LeaveLoop: local tasks are kept, though nothing polls them.)
LeaveTasks ==
  /\ stage = "run" /\ ~open /\ queue = <<>>
  /\ stage' \in {"drain", "dying"}
  /\ spawnable' = FALSE
  /\ UNCHANGED <<open, queue, state, awaits, reply, aborted, spawned, accepted, started>>

\* The closed queue is empty: close the spawner, drop queued and live tasks,
\* collect orphans.
LeaveLoop ==
  /\ stage = "run" /\ ~open /\ queue = <<>>
  /\ stage' \in {"drain", "dying"}
  /\ spawnable' = FALSE
  /\ spawned' = {}
  /\ CancelAll(spawned \cup Pending(Tasks))
  /\ UNCHANGED <<open, queue, aborted, accepted, started>>

\* Nothing is pending any more, ...
Drained ==
  /\ stage = "drain" /\ Pending(Calls) = {}
  /\ stage' \in {"down", "dying"}
  /\ UNCHANGED <<open, queue, state, awaits, reply, aborted, spawned, spawnable, accepted, started>>

\* (Mutant of GraceOver: pending futures are leaked, not dropped.)
GraceLeaks ==
  /\ stage = "drain" /\ Pending(Calls) # {}
  /\ stage' \in {"down", "dying"}
  /\ UNCHANGED <<open, queue, state, awaits, reply, aborted, spawned, spawnable, accepted, started>>

\* ... or the grace period is over and what is pending is dropped.
GraceOver ==
  /\ stage = "drain" /\ Pending(Calls) # {}
  /\ CancelAll(Pending(Calls))
  /\ stage' \in {"down", "dying"}
  /\ UNCHANGED <<open, queue, aborted, spawned, spawnable, accepted, started>>

\* (Mutant of Unwind: the commands still queued are forgotten.)
UnwindPending ==
  /\ stage = "dying"
  /\ open' = FALSE /\ UNCHANGED queue
  /\ spawned' = {} /\ spawnable' = FALSE
  /\ CancelAll({w \in Work : state[w] = "pending"})
  /\ stage' = "dead"
  /\ UNCHANGED <<aborted, accepted, started>>

\* The unwinding driver drops its futures and its receiver, with the commands
\* in it; the context guard then drops the spawner.
Unwind ==
  /\ stage = "dying"
  /\ open' = FALSE /\ queue' = <<>>
  /\ spawned' = {} /\ spawnable' = FALSE
  /\ CancelAll({w \in Work : state[w] \in {"queued", "pending"}})
  /\ stage' = "dead"
  /\ UNCHANGED <<aborted, accepted, started>>

-------------------------------------------------------------------------------
Next ==
  \/ \E c \in Calls : Submit(c) \/ Resume(c)
  \/ \E k \in Tasks : Spawn(k) \/ Abort(k) \/ EndTask(k)
  \/ StartCall \/ AdoptSpawned \/ RequestShutdown
  \/ Crash \/ LeaveLoop \/ Drained \/ GraceOver \/ Unwind

Spec == Init /\ [][Next]_vars

(***************************************************************************)
(* Fairness.  The select takes ready branches in a shuffled order, so each *)
(* gets its turn.  A call whose answer is there is resumed; a task with    *)
(* its abort flag set is woken and dropped; nothing says that a task ends  *)
(* by itself, or that External ever comes.                                 *)
(***************************************************************************)
LoopFairness ==
  /\ WF_vars(StartCall) /\ WF_vars(AdoptSpawned) /\ WF_vars(LeaveLoop)
  /\ WF_vars(Drained) /\ WF_vars(Unwind)
  /\ \A c \in Calls : WF_vars(awaits[c] # External /\ Resume(c))
  /\ \A k \in Tasks : WF_vars(k \in aborted /\ EndTask(k))

\* The loop with a grace period that may last for ever.
PatientSpec == Spec /\ LoopFairness

\* The grace timer of the drain fires.
GraceEnds == WF_vars(GraceOver)

-------------------------------------------------------------------------------
(* Properties.                                                               *)

InQueue(c) == \E i \in 1..Len(queue) : queue[i] = c

TypeOK ==
  /\ open \in BOOLEAN /\ spawnable \in BOOLEAN
  /\ queue \in Seq(Calls) /\ accepted \in Seq(Calls) /\ started \in Seq(Calls)
  /\ state \in [Work -> States]
  /\ awaits \in [Work -> Work \cup {External, Nothing}]
  /\ reply \in [Work -> Replies \cup {"none"}]
  /\ aborted \subseteq Tasks /\ spawned \subseteq Tasks
  /\ stage \in {"run", "drain", "down", "dying", "dead"}

\* The answer a caller sees is the truth about its call: Closed only for work
\* that was never accepted, Ok and Panicked only for a call that was started,
\* Canceled never before the loop was left, unless a task was aborted.
HonestReply ==
  /\ \A c \in Calls :
       /\ reply[c] = "Closed" => \A i \in 1..Len(accepted) : accepted[i] # c
       /\ reply[c] \in {"Ok", "Panicked"} /\ c # Main =>
            \E i \in 1..Len(started) : started[i] = c
       /\ reply[c] = "Canceled" => stage \in {"down", "dying", "dead"}
  /\ \A k \in Tasks : reply[k] = "Canceled" => k \in aborted \/ stage # "run"

\* When the shard is down or dead, every call and task ever submitted has its answer
\* and no queue holds anything that will never run.
NothingLeftBehind ==
  stage \in {"down", "dead"} =>
    /\ queue = <<>> /\ spawned = {}
    /\ \A w \in Work : state[w] # "new" => state[w] = "over" /\ Settled(w)

\* Local tasks are gone before the drain: nothing polls or holds one there.
NoTaskInDrain ==
  stage = "drain" => \A k \in Tasks : state[k] \in {"new", "over"}

\* When the grace timer fires, every call and, once shutdown is asked for, every
\* task gets an answer; even when the driver dies.
EveryWorkSettles == GraceEnds =>
  /\ \A c \in Calls : state[c] # "new" /\ ~open ~> Settled(c)
  /\ \A k \in Tasks : state[k] # "new" /\ (~open \/ k \in aborted) ~> Settled(k)

\* A call that waits for a local task is not held until the grace period is
\* over, however long that is: the tasks are aborted before the drain, so the call resumes by itself.
TasksDoNotHoldDrain ==
  \A c \in Calls :
     stage = "drain" /\ state[c] = "pending" /\ awaits[c] \in Tasks ~> Settled(c)

\* The loop implements the promise of Mailbox.
MailboxState ==
  CASE stage = "dead" -> "dead"
    [] stage # "dead" /\ ~spawnable        -> "stopped"
    [] stage # "dead" /\ spawnable /\ open  -> "open"
    [] stage # "dead" /\ spawnable /\ ~open -> "closed"

Promise == INSTANCE Mailbox
  WITH Calls <- Calls \ {Main}, accepted <- accepted, started <- Len(started),
       answered <- {c \in Calls \ {Main} : Settled(c)}, state <- MailboxState

KeepsPromise == Promise!Spec
===============================================================================
