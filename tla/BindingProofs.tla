----------------------------- MODULE BindingProofs -----------------------------
(***************************************************************************)
(* The safety of Binding for any number of shards, threads and binds: what *)
(* is told of a bind is true, what was bound stays, and a shard that has   *)
(* gone leaves nothing.                                                    *)
(*                                                                         *)
(* The invariant says where an unanswered bind is.  It is in the queue of  *)
(* its shard with its factory uncalled, or on the stack of its shard's     *)
(* thread with its factory called (BindOK); each of them lists a bind once *)
(* (QueueOK, StackOK); and a shard past its loop has neither a queue nor,  *)
(* once its context has gone, a factory (ShardOK, StackOK).                *)
(***************************************************************************)
EXTENDS Binding, SequenceTheorems, TLAPS

Gone(s) == phase[s] \in {"leaving", "ended"}
Past(s) == phase[s] \in {"drain", "leaving", "ended", "dropped"}

ShardOK(s) ==
  /\ Past(s) => ~open[s] /\ queue[s] = <<>>
  /\ Gone(s) => s \notin context /\ \A b \in stored : to[b] # s
  /\ phase[s] = "dropped" /\ s \in slint => s \in killed
  /\ told[s] = "Ok" => phase[s] = "ended"

QueueOK(s) ==
  /\ \A i \in 1..Len(queue[s]) :
       /\ to[queue[s][i]] = s /\ result[queue[s][i]] = "none"
       /\ queue[s][i] \notin ran \cup Misfits
  /\ \A i, j \in 1..Len(queue[s]) : queue[s][i] = queue[s][j] => i = j

StackOK(t) ==
  /\ \A i \in 1..Len(stack[t]) :
       /\ to[stack[t][i]] \in Shards /\ Owner(to[stack[t][i]]) = t
       /\ ~Gone(to[stack[t][i]])
       /\ result[stack[t][i]] = "none" /\ stack[t][i] \in ran
  /\ \A i, j \in 1..Len(stack[t]) : stack[t][i] = stack[t][j] => i = j

Queued(b) == \E i \in 1..Len(queue[to[b]]) : queue[to[b]][i] = b
Inside(b) == \E i \in 1..Len(stack[Owner(to[b])]) : stack[Owner(to[b])][i] = b

BindOK(b) ==
  /\ to[b] = None => result[b] = "none" /\ b \notin ran
  /\ b \in stored => result[b] = "Ok"
  /\ result[b] = "Ok" => b \in stored \/ Gone(to[b])
  /\ result[b] \in {"Closed", "Canceled", "WrongShard"} => b \notin ran
  /\ result[b] \in {"Ok", "Panicked"} => b \in ran
  /\ b \in Misfits => b \notin ran
  /\ to[b] # None /\ result[b] = "none" => Queued(b) \/ Inside(b)

BInv ==
  /\ TypeOK
  /\ \A s \in Shards : ShardOK(s)
  /\ \A s \in Shards : QueueOK(s)
  /\ \A t \in Threads : StackOK(t)
  /\ \A b \in Binds : BindOK(b)

-------------------------------------------------------------------------------
(* Facts about data.                                                         *)

\* A shard has a thread, and None is neither a shard nor a bind.
LEMMA OwnerIsThread ==
  /\ \A s \in Shards : Owner(s) \in Threads
  /\ None \notin Shards /\ None \notin Binds
BY BindingAssumption DEF Owner, Shards, Threads

\* A sequence that lists each element once still does with a new one at its
\* end, ...
LEMMA AppendOnce ==
  ASSUME NEW S, NEW q \in Seq(S), NEW e \in S,
         \A i \in 1..Len(q) : q[i] # e,
         \A i, j \in 1..Len(q) : q[i] = q[j] => i = j
  PROVE  /\ Append(q, e) \in Seq(S)
         /\ \A i \in 1..Len(Append(q, e)) : Append(q, e)[i] = e \/ \E n \in 1..Len(q) : Append(q, e)[i] = q[n]
         /\ \A n \in 1..Len(q) : \E i \in 1..Len(Append(q, e)) : Append(q, e)[i] = q[n]
         /\ \E i \in 1..Len(Append(q, e)) : Append(q, e)[i] = e
         /\ \A i, j \in 1..Len(Append(q, e)) : Append(q, e)[i] = Append(q, e)[j] => i = j
<1>1. /\ Append(q, e) \in Seq(S) /\ Len(q) \in Nat /\ Len(Append(q, e)) = Len(q) + 1
      /\ \A n \in 1..Len(q) : Append(q, e)[n] = q[n]
      /\ Append(q, e)[Len(q) + 1] = e
  OBVIOUS
<1> QED  BY <1>1

\* ... or before its first, ...
LEMMA PushOnce ==
  ASSUME NEW S, NEW q \in Seq(S), NEW e \in S,
         \A i \in 1..Len(q) : q[i] # e,
         \A i, j \in 1..Len(q) : q[i] = q[j] => i = j
  PROVE  /\ <<e>> \o q \in Seq(S)
         /\ \A i \in 1..Len(<<e>> \o q) : (<<e>> \o q)[i] = e \/ \E n \in 1..Len(q) : (<<e>> \o q)[i] = q[n]
         /\ \A n \in 1..Len(q) : \E i \in 1..Len(<<e>> \o q) : (<<e>> \o q)[i] = q[n]
         /\ \E i \in 1..Len(<<e>> \o q) : (<<e>> \o q)[i] = e
         /\ \A i, j \in 1..Len(<<e>> \o q) : (<<e>> \o q)[i] = (<<e>> \o q)[j] => i = j
<1> DEFINE p == <<e>> \o q
<1>1. /\ p \in Seq(S) /\ Len(q) \in Nat /\ Len(p) = Len(q) + 1
      /\ \A n \in 1..Len(p) : p[n] = IF n = 1 THEN e ELSE q[n - 1]
  <2>1. <<e>> \in Seq(S) /\ Len(<<e>>) = 1 /\ <<e>>[1] = e /\ Len(q) \in Nat
    OBVIOUS
  <2>2. /\ p \in Seq(S) /\ Len(p) = Len(<<e>>) + Len(q)
        /\ \A i \in 1..Len(<<e>>) + Len(q) : p[i] = IF i <= Len(<<e>>) THEN <<e>>[i] ELSE q[i - Len(<<e>>)]
    BY <2>1, ConcatProperties
  <2> QED  BY <2>1, <2>2
<1>2. \A n \in 1..Len(q) : n + 1 \in 1..Len(p) /\ p[n + 1] = q[n]
  BY <1>1
<1>3. \A i \in 1..Len(p) : (i = 1 /\ p[i] = e) \/ (i - 1 \in 1..Len(q) /\ p[i] = q[i - 1])
  BY <1>1
<1>4. 1 \in 1..Len(p) /\ p[1] = e
  BY <1>1
<1>5. \A i, j \in 1..Len(p) : p[i] = p[j] => i = j
  BY <1>1, <1>3
<1> HIDE DEF p
<1>6. /\ \A i \in 1..Len(p) : p[i] = e \/ \E n \in 1..Len(q) : p[i] = q[n]
      /\ \A n \in 1..Len(q) : \E i \in 1..Len(p) : p[i] = q[n]
      /\ \E i \in 1..Len(p) : p[i] = e
  BY <1>2, <1>3, <1>4
<1> QED  BY <1>1, <1>5, <1>6 DEF p

\* ... and without its first, which it then does not list.
LEMMA TailOnce ==
  ASSUME NEW S, NEW q \in Seq(S), q # <<>>,
         \A i, j \in 1..Len(q) : q[i] = q[j] => i = j
  PROVE  /\ Head(q) \in S /\ Tail(q) \in Seq(S) /\ 1 \in 1..Len(q) /\ q[1] = Head(q)
         /\ \A i \in 1..Len(Tail(q)) : Tail(q)[i] # Head(q) /\ \E n \in 1..Len(q) : Tail(q)[i] = q[n]
         /\ \A n \in 1..Len(q) : q[n] # Head(q) => \E i \in 1..Len(Tail(q)) : Tail(q)[i] = q[n]
         /\ \A i, j \in 1..Len(Tail(q)) : Tail(q)[i] = Tail(q)[j] => i = j
<1>1. Len(q) \in Nat /\ Len(q) > 0
  OBVIOUS
<1>2. Head(q) = q[1] /\ Len(Tail(q)) = Len(q) - 1 /\ Tail(q) \in Seq(S)
  OBVIOUS
<1>3. \A i \in 1..Len(Tail(q)) : Tail(q)[i] = q[i + 1] /\ i + 1 \in 1..Len(q)
  BY <1>1, <1>2
<1>4. \A n \in 1..Len(q) : n = 1 \/ (n - 1 \in 1..Len(Tail(q)) /\ Tail(q)[n - 1] = q[n])
  BY <1>1, <1>2, <1>3
<1>5. \A i \in 1..Len(Tail(q)) : Tail(q)[i] # Head(q) /\ \E n \in 1..Len(q) : Tail(q)[i] = q[n]
  BY <1>1, <1>2, <1>3
<1>6. \A n \in 1..Len(q) : q[n] # Head(q) => \E i \in 1..Len(Tail(q)) : Tail(q)[i] = q[n]
  BY <1>2, <1>4
<1>7. \A i, j \in 1..Len(Tail(q)) : Tail(q)[i] = Tail(q)[j] => i = j
  BY <1>1, <1>2, <1>3
<1> QED  BY <1>1, <1>2, <1>5, <1>6, <1>7

-------------------------------------------------------------------------------
(* Initially.                                                                *)

\* Nothing has been bound.
LEMMA InitBInv == Init => BInv
<1> SUFFICES ASSUME Init PROVE BInv
  OBVIOUS
<1>1. TypeOK
  BY OwnerIsThread DEF Init, TypeOK, Shards, Threads
<1>2. ASSUME NEW s \in Shards PROVE ShardOK(s)
  BY DEF Init, ShardOK, Past, Gone
<1>3. ASSUME NEW s \in Shards PROVE QueueOK(s)
  <2>1. Len(queue[s]) = 0
    BY DEF Init
  <2> QED  BY <2>1 DEF QueueOK
<1>4. ASSUME NEW t \in Threads PROVE StackOK(t)
  <2>1. Len(stack[t]) = 0
    BY DEF Init
  <2> QED  BY <2>1 DEF StackOK
<1>5. ASSUME NEW b \in Binds PROVE BindOK(b)
  BY DEF Init, BindOK
<1> QED  BY <1>1, <1>2, <1>3, <1>4, <1>5 DEF BInv

-------------------------------------------------------------------------------
(* The life of a shard.                                                      *)

\* Steps of a shard that leave the binds alone: what is gone stays so, and
\* nothing goes.
LEMMA LifeKeeps ==
  ASSUME BInv, UNCHANGED <<queue, stored, stack, waits, to, result, ran>>,
         TypeOK', \A s \in Shards : ShardOK(s)' /\ (Gone(s)' <=> Gone(s))
  PROVE  BInv'
<1>1. \A s \in Shards : QueueOK(s)'
  BY DEF BInv, QueueOK
<1>2. \A t \in Threads : StackOK(t)'
  BY DEF BInv, StackOK
<1>3. ASSUME NEW b \in Binds PROVE BindOK(b)'
  <2>1. to[b] \in Shards \/ to[b] = None
    BY DEF BInv, TypeOK
  <2>2. BindOK(b) /\ (to[b] \in Shards => (Gone(to[b])' <=> Gone(to[b])))
    BY DEF BInv
  <2> QED  BY <2>1, <2>2 DEF BindOK, Queued, Inside
<1> QED  BY <1>1, <1>2, <1>3 DEF BInv

\* The driver's and the program's steps from one phase to the next.
LEMMA PhasesKeep ==
  ASSUME BInv, NEW s \in Shards,
         RequestShutdown(s) \/ RunMain(s) \/ LeaveLoop(s) \/ Crash(s) \/ Quit(s)
         \/ End(s) \/ ShutdownAsync(s)
  PROVE  BInv'
<1>1. UNCHANGED <<queue, stored, stack, waits, to, result, ran>>
  BY DEF RequestShutdown, RunMain, LeaveLoop, Crash, Quit, End, ShutdownAsync, ui
<1>2. TypeOK'
  <2>1. CASE RequestShutdown(s) \/ RunMain(s) \/ LeaveLoop(s) \/ End(s)
    BY <2>1 DEF BInv, TypeOK, RequestShutdown, RunMain, LeaveLoop, End, ui
  <2>2. CASE Crash(s) \/ Quit(s) \/ ShutdownAsync(s)
    BY <2>2 DEF BInv, TypeOK, Killed, Crash, Quit, ShutdownAsync
  <2> QED  BY <2>1, <2>2
<1>3. \A r \in Shards : ShardOK(r)' /\ (Gone(r)' <=> Gone(r))
  <2> TAKE r \in Shards
  <2> USE DEF BInv, TypeOK, ShardOK, Gone, Past, ui
  <2>1. CASE RequestShutdown(s)
    BY <2>1 DEF RequestShutdown
  <2>2. CASE RunMain(s)
    BY <2>2 DEF RunMain
  <2>3. CASE LeaveLoop(s)
    BY <2>3 DEF LeaveLoop
  <2>4. CASE Crash(s)
    BY <2>4 DEF Crash, Killed
  <2>5. CASE Quit(s)
    BY <2>5 DEF Quit, Killed
  <2>6. CASE End(s)
    BY <2>6 DEF End
  <2>7. CASE ShutdownAsync(s)
    BY <2>7 DEF ShutdownAsync
  <2> QED  BY <2>1, <2>2, <2>3, <2>4, <2>5, <2>6, <2>7
<1> QED  BY <1>1, <1>2, <1>3, LifeKeeps

\* A receiver goes with the queue: the binds in it are told so, and only they.
LEMMA DropReceiverKeeps ==
  ASSUME BInv, NEW s \in Shards, DropReceiver(s),
         UNCHANGED <<context, stored, stack, to, ran>>,
         TypeOK', \A r \in Shards : ShardOK(r)' /\ (Gone(r)' <=> Gone(r))
  PROVE  BInv'
<1>1. ASSUME NEW r \in Shards PROVE QueueOK(r)'
  <2>1. CASE r = s
    <3>1. queue'[r] = <<>> /\ Len(queue'[r]) = 0
      BY <2>1 DEF DropReceiver, BInv, TypeOK
    <3> QED  BY <3>1 DEF QueueOK
  <2>2. CASE r # s
    <3>1. queue'[r] = queue[r] /\ queue[r] \in Seq(Binds) /\ QueueOK(r) /\ QueueOK(s)
      BY <2>2 DEF DropReceiver, BInv, TypeOK
    <3>2. ASSUME NEW i \in 1..Len(queue[r]) PROVE result'[queue[r][i]] = "none"
      <4>1. queue[r][i] \in Binds /\ to[queue[r][i]] = r /\ result[queue[r][i]] = "none"
        BY <3>1 DEF QueueOK
      <4>2. ~\E j \in 1..Len(queue[s]) : queue[s][j] = queue[r][i]
        BY <4>1, <3>1, <2>2 DEF QueueOK
      <4> QED  BY <4>1, <4>2 DEF DropReceiver
    <3> QED  BY <3>1, <3>2 DEF QueueOK
  <2> QED  BY <2>1, <2>2
<1>2. ASSUME NEW t \in Threads PROVE StackOK(t)'
  <2>1. StackOK(t) /\ stack[t] \in Seq(Binds) /\ QueueOK(s)
    BY DEF BInv, TypeOK
  <2>2. ASSUME NEW i \in 1..Len(stack[t]) PROVE result'[stack[t][i]] = "none"
    <3>1. stack[t][i] \in Binds /\ stack[t][i] \in ran /\ result[stack[t][i]] = "none"
      BY <2>1 DEF StackOK
    <3>2. ~\E j \in 1..Len(queue[s]) : queue[s][j] = stack[t][i]
      BY <3>1, <2>1 DEF QueueOK
    <3> QED  BY <3>1, <3>2 DEF DropReceiver
  <2> QED  BY <2>1, <2>2 DEF StackOK
<1>3. ASSUME NEW b \in Binds PROVE BindOK(b)'
  <2>1. BindOK(b) /\ QueueOK(s) /\ (to[b] \in Shards \/ to[b] = None)
    BY DEF BInv, TypeOK
  <2>2. CASE \E i \in 1..Len(queue[s]) : queue[s][i] = b
    <3>1. result'[b] = "Canceled" /\ to[b] = s /\ result[b] = "none" /\ b \notin ran
      BY <2>1, <2>2 DEF DropReceiver, QueueOK
    <3> QED  BY <3>1, <2>1, OwnerIsThread DEF BindOK
  <2>3. CASE ~\E i \in 1..Len(queue[s]) : queue[s][i] = b
    <3>1. result'[b] = result[b]
      BY <2>3 DEF DropReceiver
    <3>2. Queued(b) /\ to[b] \in Shards => Queued(b)'
      BY <2>3 DEF DropReceiver, Queued, BInv, TypeOK
    <3>3. to[b] \in Shards => (Gone(to[b])' <=> Gone(to[b])) /\ (Inside(b) <=> Inside(b)')
      BY DEF Inside
    <3> QED  BY <3>1, <3>2, <3>3, <2>1 DEF BindOK
  <2> QED  BY <2>2, <2>3
<1> QED  BY <1>1, <1>2, <1>3 DEF BInv

\* Without having run, and after a crash.
LEMMA ReceiverStepsKeep ==
  ASSUME BInv, NEW s \in Shards, DropMain(s) \/ Unwind(s)
  PROVE  BInv'
<1>1. DropReceiver(s) /\ UNCHANGED <<context, stored, stack, to, ran>>
  BY DEF DropMain, Unwind
<1>2. TypeOK'
  <2>1. /\ open' \in [Shards -> BOOLEAN] /\ queue' \in [Shards -> Seq(Binds)]
        /\ result' \in [Binds -> {"none", "Ok", "Panicked", "Closed", "Canceled", "WrongShard"}]
    BY <1>1 DEF BInv, TypeOK, DropReceiver
  <2>2. /\ phase' \in [Shards -> {"idle", "run", "dying", "drain", "leaving", "ended", "dropped"}]
        /\ UNCHANGED <<waits, slint, told>> /\ killed' \subseteq slint
    <3>1. CASE DropMain(s)
      BY <3>1 DEF BInv, TypeOK, DropMain, Killed
    <3>2. CASE Unwind(s)
      BY <3>2 DEF BInv, TypeOK, Unwind, ui
    <3> QED  BY <3>1, <3>2
  <2> QED  BY <1>1, <2>1, <2>2 DEF BInv, TypeOK
<1>3. \A r \in Shards : ShardOK(r)' /\ (Gone(r)' <=> Gone(r))
  <2> TAKE r \in Shards
  <2> USE DEF BInv, TypeOK, ShardOK, Gone, Past, ui, DropReceiver
  <2>1. CASE DropMain(s)
    BY <2>1 DEF DropMain, Killed
  <2>2. CASE Unwind(s)
    BY <2>2 DEF Unwind
  <2> QED  BY <2>1, <2>2
<1> QED  BY <1>1, <1>2, <1>3, DropReceiverKeeps

\* The context goes with the values, when no factory of the shard is running.
LEMMA DropContextKeeps ==
  ASSUME BInv, NEW s \in Shards, DropContext(s)
  PROVE  BInv'
<1>1. /\ UNCHANGED <<open, queue, stack, waits, to, result, ran, ui>> /\ phase[s] = "drain"
      /\ phase' = [phase EXCEPT ![s] = "leaving"] /\ context' = context \ {s}
      /\ stored' = {b \in stored : to[b] # s} /\ stack[Owner(s)] = <<>>
  BY DEF DropContext, AtLoop
<1>2. TypeOK'
  BY <1>1 DEF BInv, TypeOK, ui
<1>3. \A r \in Shards : Gone(r)' <=> Gone(r) \/ r = s
  BY <1>1 DEF BInv, TypeOK, Gone
<1>4. ASSUME NEW r \in Shards PROVE ShardOK(r)'
  BY <1>1, <1>3 DEF BInv, TypeOK, ShardOK, Past, Gone, ui
<1>5. ASSUME NEW r \in Shards PROVE QueueOK(r)'
  BY <1>1 DEF BInv, QueueOK
<1>6. ASSUME NEW t \in Threads PROVE StackOK(t)'
  <2>1. ASSUME NEW i \in 1..Len(stack[t]) PROVE to[stack[t][i]] # s
    <3>1. StackOK(t) /\ (t = Owner(s) => Len(stack[t]) = 0)
      BY <1>1 DEF BInv
    <3> QED  BY <3>1 DEF StackOK
  <2> QED  BY <1>1, <1>3, <2>1 DEF BInv, StackOK
<1>7. ASSUME NEW b \in Binds PROVE BindOK(b)'
  <2>1. BindOK(b) /\ (to[b] \in Shards \/ to[b] = None)
    BY DEF BInv, TypeOK
  <2>2. to[b] \in Shards => (Gone(to[b])' <=> Gone(to[b]) \/ to[b] = s)
    BY <1>3, <1>1
  <2>3. (Queued(b)' <=> Queued(b)) /\ (Inside(b)' <=> Inside(b)) /\ to'[b] = to[b]
    BY <1>1 DEF Queued, Inside
  <2>4. b \in stored' <=> b \in stored /\ to[b] # s
    BY <1>1
  <2> QED  BY <1>1, <2>1, <2>2, <2>3, <2>4, OwnerIsThread DEF BindOK
<1> QED  BY <1>2, <1>4, <1>5, <1>6, <1>7 DEF BInv

-------------------------------------------------------------------------------
(* Making a bind.                                                            *)

\* What another bind's place, answer and shard say of it does not change.
SameFor(d) ==
  /\ to'[d] = to[d] /\ result'[d] = result[d]
  /\ (d \in ran' <=> d \in ran) /\ (d \in stored' <=> d \in stored)

\* Nothing lists a bind that has not been made, nor stores it.
LEMMA NotMade ==
  ASSUME BInv, NEW b \in Binds, to[b] = None
  PROVE  /\ \A s \in Shards : \A i \in 1..Len(queue[s]) : queue[s][i] # b
         /\ \A t \in Threads : \A i \in 1..Len(stack[t]) : stack[t][i] # b
         /\ b \notin stored /\ b \notin ran /\ result[b] = "none"
<1>1. BindOK(b)
  BY DEF BInv
<1>2. ASSUME NEW s \in Shards, NEW i \in 1..Len(queue[s]) PROVE queue[s][i] # b
  BY OwnerIsThread DEF BInv, QueueOK
<1>3. ASSUME NEW t \in Threads, NEW i \in 1..Len(stack[t]) PROVE stack[t][i] # b
  BY OwnerIsThread DEF BInv, StackOK
<1> QED  BY <1>1, <1>2, <1>3 DEF BindOK

\* A bind is answered as it is made, or not listed by anything but its shard's
\* queue or its thread's stack: the facts that all ways to make one share.
LEMMA MadeKeeps ==
  ASSUME BInv, NEW b \in Binds, NEW s \in Shards, Made(b, s), TypeOK',
         UNCHANGED <<phase, open, ui>>,
         \A d \in Binds \ {b} : SameFor(d),
         \A r \in Shards : Gone(r) => r \notin context',
         b \in stored' => ~Gone(s),
         \A r \in Shards : queue'[r] = queue[r] \/ (r = s /\ open[s] /\ QueueOK(s)'
                            /\ \A n \in 1..Len(queue[s]) : \E i \in 1..Len(queue'[s]) : queue'[s][i] = queue[s][n]),
         \A t \in Threads : stack'[t] = stack[t] \/ (t = Owner(s) /\ StackOK(t)'
                            /\ \A n \in 1..Len(stack[t]) : \E i \in 1..Len(stack'[t]) : stack'[t][i] = stack[t][n]),
         BindOK(b)'
  PROVE  BInv'
<1>1. to[b] = None /\ to' = [to EXCEPT ![b] = s]
  BY DEF Made
<1>2. ASSUME NEW r \in Shards PROVE ShardOK(r)' /\ (Gone(r)' <=> Gone(r))
  <2>1. ASSUME Past(r) PROVE queue'[r] = <<>>
    BY <2>1 DEF BInv, ShardOK
  <2>2. ASSUME Gone(r), NEW d \in stored' PROVE to'[d] # r
    <3>1. d \in Binds
      BY DEF TypeOK
    <3>2. CASE d = b
      BY <2>2, <3>2, <1>1 DEF BInv, TypeOK
    <3>3. CASE d # b
      BY <2>2, <3>1, <3>3 DEF BInv, ShardOK, SameFor
    <3> QED  BY <3>2, <3>3
  <2> QED  BY <2>1, <2>2 DEF BInv, ShardOK, Past, Gone, ui
<1>3. ASSUME NEW r \in Shards PROVE QueueOK(r)'
  <2>1. CASE queue'[r] = queue[r]
    <3>1. QueueOK(r) /\ queue[r] \in Seq(Binds) /\ \A i \in 1..Len(queue[r]) : queue[r][i] \in Binds \ {b}
      BY <1>1, NotMade DEF BInv, TypeOK
    <3> QED  BY <2>1, <3>1 DEF QueueOK, SameFor
  <2> QED  BY <2>1
<1>4. ASSUME NEW t \in Threads PROVE StackOK(t)'
  <2>1. CASE stack'[t] = stack[t]
    <3>1. StackOK(t) /\ stack[t] \in Seq(Binds) /\ \A i \in 1..Len(stack[t]) : stack[t][i] \in Binds \ {b}
      BY <1>1, NotMade DEF BInv, TypeOK
    <3> QED  BY <2>1, <3>1, <1>2 DEF StackOK, SameFor
  <2> QED  BY <2>1
<1>5. ASSUME NEW d \in Binds PROVE BindOK(d)'
  <2>1. CASE d # b
    <3>1. BindOK(d) /\ (to[d] \in Shards \/ to[d] = None) /\ SameFor(d)
      BY <2>1 DEF BInv, TypeOK
    <3>2. to[d] \in Shards => Owner(to[d]) \in Threads
      BY OwnerIsThread
    <3>3. to[d] \in Shards /\ Queued(d) => Queued(d)'
      BY <3>1 DEF Queued, SameFor
    <3>4. to[d] \in Shards /\ Inside(d) => Inside(d)'
      BY <3>1, <3>2 DEF Inside, SameFor
    <3>5. to[d] \in Shards => (Gone(to[d])' <=> Gone(to[d]))
      BY <1>2, <3>1 DEF SameFor, Gone
    <3> QED  BY <3>1, <3>3, <3>4, <3>5, OwnerIsThread DEF BindOK, SameFor
  <2> QED  BY <2>1
<1> QED  BY <1>2, <1>3, <1>4, <1>5 DEF BInv

\* The owner's binds, with or without a factory.
LEMMA BindHereKeeps ==
  ASSUME BInv, NEW t \in Threads, NEW b \in Binds, NEW s \in Shards, BindHere(t, b, s)
  PROVE  BInv'
<1>1. /\ Owner(s) = t /\ Made(b, s) /\ to[b] = None /\ to' = [to EXCEPT ![b] = s]
      /\ UNCHANGED <<phase, open, queue, stored, waits, ui>>
  BY DEF BindHere, Made
<1>2. /\ \A r \in Shards : \A i \in 1..Len(queue[r]) : queue[r][i] # b
      /\ \A u \in Threads : \A i \in 1..Len(stack[u]) : stack[u][i] # b
      /\ b \notin stored /\ b \notin ran /\ result[b] = "none" /\ ShardOK(s) /\ BindOK(b)
  BY <1>1, NotMade DEF BInv
<1>3. CASE context' = context /\ stack' = stack /\ ran' = ran /\ Answer(b, "Closed")
  <2>1. TypeOK'
    BY <1>1, <1>3 DEF BInv, TypeOK, Answer, ui
  <2>2. \A d \in Binds \ {b} : SameFor(d)
    BY <1>1, <1>3 DEF SameFor, Answer, BInv, TypeOK
  <2>3. BindOK(b)'
    BY <1>1, <1>2, <1>3, OwnerIsThread DEF BindOK, Answer, BInv, TypeOK
  <2>4. \A r \in Shards : Gone(r) => r \notin context'
    BY <1>3 DEF BInv, ShardOK
  <2> QED  BY <1>1, <1>2, <1>3, <2>1, <2>2, <2>3, <2>4, MadeKeeps
<1>4. ASSUME open[s] \/ s \in context, context' = context \cup {s}
      PROVE  /\ ~Gone(s) /\ \A r \in Shards : Gone(r) => r \notin context'
  BY <1>4, <1>2 DEF BInv, ShardOK, Gone, Past
<1>5. CASE /\ (open[s] \/ s \in context)
           /\ context' = context \cup {s}
           /\ stack' = stack /\ ran' = ran /\ Answer(b, "WrongShard")
  <2>1. TypeOK'
    BY <1>1, <1>5 DEF BInv, TypeOK, Answer, ui
  <2>2. \A d \in Binds \ {b} : SameFor(d)
    BY <1>1, <1>5 DEF SameFor, Answer, BInv, TypeOK
  <2>3. BindOK(b)'
    BY <1>1, <1>2, <1>5, OwnerIsThread DEF BindOK, Answer, BInv, TypeOK
  <2> QED  BY <1>1, <1>2, <1>4, <1>5, <2>1, <2>2, <2>3, MadeKeeps
<1>6. CASE /\ (open[s] \/ s \in context)
           /\ context' = context \cup {s} /\ b \notin Misfits
           /\ Enter(t, b) /\ result' = result
  <2> DEFINE p == <<b>> \o stack[t]
  <2>1. stack' = [stack EXCEPT ![t] = p] /\ ran' = ran \cup {b} /\ stack[t] \in Seq(Binds) /\ StackOK(t)
    BY <1>6 DEF Enter, BInv, TypeOK
  <2>2. /\ p \in Seq(Binds)
        /\ \A i \in 1..Len(p) : p[i] = b \/ \E n \in 1..Len(stack[t]) : p[i] = stack[t][n]
        /\ \A n \in 1..Len(stack[t]) : \E i \in 1..Len(p) : p[i] = stack[t][n]
        /\ \E i \in 1..Len(p) : p[i] = b
        /\ \A i, j \in 1..Len(p) : p[i] = p[j] => i = j
    BY <1>2, <2>1, PushOnce DEF StackOK
  <2> HIDE DEF p
  <2>3. TypeOK'
    BY <1>1, <1>6, <2>1, <2>2 DEF BInv, TypeOK, ui
  <2>4. \A d \in Binds \ {b} : SameFor(d)
    BY <1>1, <1>6, <2>1 DEF SameFor, BInv, TypeOK
  <2>5. stack'[t] = p /\ to'[b] = s /\ result'[b] = "none" /\ b \in ran'
    BY <1>1, <1>2, <1>6, <2>1 DEF BInv, TypeOK
  <2>6. StackOK(t)'
    <3>1. ASSUME NEW i \in 1..Len(p)
          PROVE  /\ to'[p[i]] \in Shards /\ Owner(to'[p[i]]) = t
                 /\ phase'[to'[p[i]]] \notin {"leaving", "ended"}
                 /\ result'[p[i]] = "none" /\ p[i] \in ran'
      <4>1. CASE p[i] = b
        <5>1. ~Gone(s) /\ phase' = phase
          BY <1>1, <1>4, <1>6
        <5> QED  BY <4>1, <1>1, <2>5, <5>1 DEF Gone
      <4>2. CASE p[i] # b
        <5>1. PICK n \in 1..Len(stack[t]) : p[i] = stack[t][n]
          BY <4>2, <2>2
        <5>2. p[i] \in Binds \ {b} /\ SameFor(p[i])
          BY <4>2, <5>1, <2>1, <2>4
        <5> QED  BY <5>1, <5>2, <2>1, <1>1 DEF StackOK, SameFor, Gone
      <4> QED  BY <4>1, <4>2
    <3> QED  BY <3>1, <2>2, <2>5 DEF StackOK, Gone
  <2>7. BindOK(b)'
    <3>1. Inside(b)'
      BY <1>1, <2>2, <2>5 DEF Inside
    <3> QED  BY <3>1, <1>1, <1>2, <1>6, <2>5, OwnerIsThread DEF BindOK
  <2>8. \A u \in Threads : stack'[u] = stack[u] \/ (u = Owner(s) /\ StackOK(u)'
                            /\ \A n \in 1..Len(stack[u]) : \E i \in 1..Len(stack'[u]) : stack'[u][i] = stack[u][n])
    BY <1>1, <2>1, <2>2, <2>5, <2>6 DEF BInv, TypeOK
  <2> QED  BY <1>1, <1>2, <1>4, <1>6, <2>3, <2>4, <2>7, <2>8, MadeKeeps
<1> QED  BY <1>1, <1>3, <1>5, <1>6 DEF BindHere

\* try_bind binds on the shard's own thread, or is refused.
LEMMA TryBindKeeps ==
  ASSUME BInv, NEW t \in Threads, NEW b \in Binds, NEW s \in Shards, TryBind(t, b, s)
  PROVE  BInv'
<1>1. /\ Made(b, s) /\ to[b] = None /\ to' = [to EXCEPT ![b] = s] /\ b \notin Misfits
      /\ UNCHANGED <<phase, open, queue, context, stack, waits, ui>>
  BY DEF TryBind, Made
<1>2. b \notin stored /\ b \notin ran /\ result[b] = "none" /\ ShardOK(s) /\ BindOK(b)
  BY <1>1, NotMade DEF BInv
<1>3. \/ s \in context /\ result' = [result EXCEPT ![b] = "Ok"] /\ stored' = stored \cup {b} /\ ran' = ran \cup {b}
      \/ result' = [result EXCEPT ![b] = "WrongShard"] /\ stored' = stored /\ ran' = ran
  BY DEF TryBind, Answer
<1>4. TypeOK'
  BY <1>1, <1>3 DEF BInv, TypeOK, ui
<1>5. \A d \in Binds \ {b} : SameFor(d)
  BY <1>1, <1>3 DEF SameFor, BInv, TypeOK
<1>6. \A r \in Shards : Gone(r) => r \notin context'
  BY <1>1 DEF BInv, ShardOK
<1>7. BindOK(b)'
  BY <1>1, <1>2, <1>3, OwnerIsThread DEF BindOK, BInv, TypeOK
<1>8. b \in stored' => ~Gone(s)
  BY <1>2, <1>3 DEF ShardOK
<1> QED  BY <1>1, <1>4, <1>5, <1>6, <1>7, <1>8, MadeKeeps

\* From elsewhere, through the queue.
LEMMA QueueKeeps ==
  ASSUME BInv, NEW b \in Binds, NEW s \in Shards, Made(b, s), Queue(b, s),
         waits' \in [Threads -> Binds \cup {None}],
         UNCHANGED <<phase, open, context, stored, stack, ran, ui>>
  PROVE  BInv'
<1>1. to[b] = None /\ to' = [to EXCEPT ![b] = s]
  BY DEF Made
<1>2. /\ \A r \in Shards : \A i \in 1..Len(queue[r]) : queue[r][i] # b
      /\ b \notin stored /\ b \notin ran /\ result[b] = "none" /\ BindOK(b)
      /\ \A r \in Shards : Gone(r) => r \notin context'
  BY <1>1, NotMade DEF BInv, ShardOK
<1>3. CASE (Answer(b, "WrongShard") \/ Answer(b, "Closed")) /\ queue' = queue
  <2>1. TypeOK'
    BY <1>1, <1>3 DEF BInv, TypeOK, Answer, ui
  <2>2. \A d \in Binds \ {b} : SameFor(d)
    BY <1>1, <1>3 DEF SameFor, Answer, BInv, TypeOK
  <2>3. BindOK(b)'
    BY <1>1, <1>2, <1>3, OwnerIsThread DEF BindOK, Answer, BInv, TypeOK
  <2> QED  BY <1>1, <1>2, <1>3, <2>1, <2>2, <2>3, MadeKeeps
<1>4. CASE open[s] /\ b \notin Misfits /\ queue' = [queue EXCEPT ![s] = Append(@, b)] /\ result' = result
  <2> DEFINE p == Append(queue[s], b)
  <2>1. queue' = [queue EXCEPT ![s] = p] /\ queue[s] \in Seq(Binds) /\ QueueOK(s)
    BY <1>4 DEF BInv, TypeOK
  <2>2. /\ p \in Seq(Binds)
        /\ \A i \in 1..Len(p) : p[i] = b \/ \E n \in 1..Len(queue[s]) : p[i] = queue[s][n]
        /\ \A n \in 1..Len(queue[s]) : \E i \in 1..Len(p) : p[i] = queue[s][n]
        /\ \E i \in 1..Len(p) : p[i] = b
        /\ \A i, j \in 1..Len(p) : p[i] = p[j] => i = j
    BY <1>2, <2>1, AppendOnce DEF QueueOK
  <2> HIDE DEF p
  <2>3. TypeOK'
    BY <1>1, <1>4, <2>1, <2>2 DEF BInv, TypeOK, ui
  <2>4. \A d \in Binds \ {b} : SameFor(d)
    BY <1>1, <1>4 DEF SameFor, BInv, TypeOK
  <2>5. queue'[s] = p /\ to'[b] = s /\ result'[b] = "none"
    BY <1>1, <1>2, <1>4, <2>1 DEF BInv, TypeOK
  <2>6. QueueOK(s)'
    <3>1. ASSUME NEW i \in 1..Len(p)
          PROVE  to'[p[i]] = s /\ result'[p[i]] = "none" /\ p[i] \notin ran' \cup Misfits
      <4>1. CASE p[i] = b
        BY <4>1, <2>5, <1>2, <1>4
      <4>2. CASE p[i] # b
        <5>1. PICK n \in 1..Len(queue[s]) : p[i] = queue[s][n]
          BY <4>2, <2>2
        <5>2. p[i] \in Binds \ {b} /\ SameFor(p[i])
          BY <4>2, <5>1, <2>1, <2>4
        <5> QED  BY <5>1, <5>2, <2>1 DEF QueueOK, SameFor
      <4> QED  BY <4>1, <4>2
    <3> QED  BY <3>1, <2>2, <2>5 DEF QueueOK
  <2>7. BindOK(b)'
    <3>1. Queued(b)'
      BY <2>2, <2>5 DEF Queued
    <3> QED  BY <3>1, <1>2, <1>4, <2>5, OwnerIsThread DEF BindOK
  <2>8. \A r \in Shards : queue'[r] = queue[r] \/ (r = s /\ open[s] /\ QueueOK(s)'
                            /\ \A n \in 1..Len(queue[s]) : \E i \in 1..Len(queue'[s]) : queue'[s][i] = queue[s][n])
    BY <1>4, <2>1, <2>2, <2>5, <2>6 DEF BInv, TypeOK
  <2> QED  BY <1>1, <1>2, <1>4, <2>3, <2>4, <2>7, <2>8, MadeKeeps
<1> QED  BY <1>3, <1>4 DEF Queue

\* Either form of a remote bind is an admission to the queue, or a refusal.
LEMMA RemoteBindsKeep ==
  ASSUME BInv, NEW t \in Threads, NEW b \in Binds, NEW s \in Shards,
         BindAndWait(t, b, s) \/ BindAsync(t, b, s)
  PROVE  BInv'
<1>1. /\ Made(b, s) /\ Queue(b, s) /\ UNCHANGED <<phase, open, context, stored, stack, ran, ui>>
      /\ waits' \in [Threads -> Binds \cup {None}]
  BY DEF BindAndWait, BindAsync, BInv, TypeOK
<1> QED  BY <1>1, QueueKeeps

-------------------------------------------------------------------------------
(* Factories.                                                                *)

\* A bind moves from the front of the queue to the top of the stack, ...
LEMMA TakeBindKeeps ==
  ASSUME BInv, NEW s \in Shards, TakeBind(s)
  PROVE  BInv'
<1> DEFINE t == Owner(s)
           b == Head(queue[s])
           p == <<b>> \o stack[t]
           q == Tail(queue[s])
<1>1. /\ phase[s] = "run" /\ queue[s] # <<>> /\ t \in Threads
      /\ queue[s] \in Seq(Binds) /\ stack[t] \in Seq(Binds) /\ QueueOK(s) /\ StackOK(t)
  BY OwnerIsThread DEF TakeBind, BInv, TypeOK
<1>2. /\ b \in Binds /\ q \in Seq(Binds) /\ 1 \in 1..Len(queue[s]) /\ queue[s][1] = b
      /\ \A i \in 1..Len(q) : q[i] # b /\ \E n \in 1..Len(queue[s]) : q[i] = queue[s][n]
      /\ \A n \in 1..Len(queue[s]) : queue[s][n] # b => \E i \in 1..Len(q) : q[i] = queue[s][n]
      /\ \A i, j \in 1..Len(q) : q[i] = q[j] => i = j
  BY <1>1, TailOnce DEF QueueOK
<1>3. to[b] = s /\ result[b] = "none" /\ b \notin ran /\ b \notin Misfits /\ BindOK(b)
  BY <1>1, <1>2 DEF QueueOK, BInv
<1>4. \A u \in Threads : \A i \in 1..Len(stack[u]) : stack[u][i] # b
  BY <1>3 DEF BInv, StackOK
<1>5. /\ p \in Seq(Binds)
      /\ \A i \in 1..Len(p) : p[i] = b \/ \E n \in 1..Len(stack[t]) : p[i] = stack[t][n]
      /\ \A n \in 1..Len(stack[t]) : \E i \in 1..Len(p) : p[i] = stack[t][n]
      /\ \E i \in 1..Len(p) : p[i] = b
      /\ \A i, j \in 1..Len(p) : p[i] = p[j] => i = j
  <2>1. /\ \A i \in 1..Len(stack[t]) : stack[t][i] # b
        /\ \A i, j \in 1..Len(stack[t]) : stack[t][i] = stack[t][j] => i = j
    BY <1>1, <1>4 DEF StackOK
  <2>2. stack[t] \in Seq(Binds) /\ b \in Binds
    BY <1>1, <1>2
  <2> HIDE DEF b, t
  <2> QED  BY <2>1, <2>2, PushOnce
<1>6. /\ queue' = [queue EXCEPT ![s] = q] /\ stack' = [stack EXCEPT ![t] = p] /\ ran' = ran \cup {b}
      /\ UNCHANGED <<phase, open, context, stored, waits, to, result, ui>>
  BY DEF TakeBind, Enter
<1> HIDE DEF t, b, p, q
<1>7. TypeOK'
  BY <1>1, <1>2, <1>5, <1>6 DEF BInv, TypeOK, ui
<1>8. /\ queue'[s] = q /\ \A r \in Shards \ {s} : queue'[r] = queue[r]
      /\ stack'[t] = p /\ \A u \in Threads \ {t} : stack'[u] = stack[u]
      /\ \A d \in Binds \ {b} : d \in ran' <=> d \in ran
  BY <1>1, <1>6 DEF BInv, TypeOK
<1>9. ASSUME NEW r \in Shards PROVE ShardOK(r)'
  <2>1. ShardOK(r) /\ (Past(r) => r # s)
    BY <1>1 DEF BInv, Past
  <2> QED  BY <2>1, <1>6, <1>8 DEF ShardOK, Past, Gone, ui
<1>10. ASSUME NEW r \in Shards PROVE QueueOK(r)'
  <2>1. CASE r = s
    <3>1. ASSUME NEW i \in 1..Len(q) PROVE to[q[i]] = s /\ result[q[i]] = "none" /\ q[i] \notin ran' \cup Misfits
      <4>1. PICK n \in 1..Len(queue[s]) : q[i] = queue[s][n]
        BY <1>2
      <4>2. to[q[i]] = s /\ result[q[i]] = "none" /\ q[i] \notin ran \cup Misfits
        BY <4>1, <1>1 DEF QueueOK
      <4> QED  BY <4>2, <1>2, <1>6
    <3>2. queue'[r] = q /\ to' = to /\ result' = result
      BY <2>1, <1>6, <1>8
    <3> QED  BY <2>1, <3>1, <3>2, <1>2 DEF QueueOK
  <2>2. CASE r # s
    <3>1. QueueOK(r) /\ queue'[r] = queue[r] /\ \A i \in 1..Len(queue[r]) : queue[r][i] # b
      BY <2>2, <1>3, <1>8 DEF BInv, QueueOK
    <3> QED  BY <3>1, <1>6 DEF QueueOK
  <2> QED  BY <2>1, <2>2
<1>11. ASSUME NEW u \in Threads PROVE StackOK(u)'
  <2>1. CASE u = t
    <3>1. ASSUME NEW i \in 1..Len(p)
          PROVE  /\ to[p[i]] \in Shards /\ Owner(to[p[i]]) = t /\ phase[to[p[i]]] \notin {"leaving", "ended"}
                 /\ result[p[i]] = "none" /\ p[i] \in ran'
      <4>1. CASE p[i] = b
        BY <4>1, <1>1, <1>3, <1>6 DEF t
      <4>2. CASE p[i] # b
        <5>1. PICK n \in 1..Len(stack[t]) : p[i] = stack[t][n]
          BY <4>2, <1>5
        <5> QED  BY <5>1, <1>1, <1>6 DEF StackOK, Gone
      <4> QED  BY <4>1, <4>2
    <3> QED  BY <2>1, <3>1, <1>5, <1>6, <1>8 DEF StackOK, Gone
  <2>2. CASE u # t
    BY <2>2, <1>6, <1>8 DEF BInv, StackOK, Gone
  <2> QED  BY <2>1, <2>2
<1>12. ASSUME NEW d \in Binds PROVE BindOK(d)'
  <2>1. CASE d = b
    <3>1. Inside(d)'
      BY <2>1, <1>3, <1>5, <1>6, <1>8 DEF Inside, t
    <3> QED  BY <2>1, <3>1, <1>3, <1>6, OwnerIsThread DEF BindOK
  <2>2. CASE d # b
    <3>1. BindOK(d) /\ (to[d] \in Shards \/ to[d] = None) /\ (d \in ran' <=> d \in ran)
      BY <2>2, <1>8 DEF BInv, TypeOK
    <3>2. to[d] \in Shards /\ Queued(d) => Queued(d)'
      <4>1. CASE to[d] = s
        <5>1. Queued(d) => \E i \in 1..Len(q) : q[i] = d
          BY <2>2, <4>1, <1>2 DEF Queued
        <5> QED  BY <4>1, <5>1, <1>6, <1>8 DEF Queued
      <4>2. CASE to[d] # s
        BY <4>2, <1>6, <1>8 DEF Queued
      <4> QED  BY <4>1, <4>2
    <3>3. to[d] \in Shards /\ Inside(d) => Inside(d)'
      <4>1. CASE Owner(to[d]) = t
        <5>1. Inside(d) => \E i \in 1..Len(p) : p[i] = d
          <6>1. \A n \in 1..Len(stack[t]) : \E i \in 1..Len(p) : p[i] = stack[t][n]
            BY <1>5
          <6>2. Inside(d) => \E n \in 1..Len(stack[t]) : stack[t][n] = d
            BY <4>1 DEF Inside
          <6> QED  BY <6>1, <6>2
        <5>2. stack'[Owner(to'[d])] = p
          BY <4>1, <1>6, <1>8
        <5> QED  BY <5>1, <5>2 DEF Inside
      <4>2. CASE Owner(to[d]) # t
        BY <4>2, <1>6, <1>8, OwnerIsThread DEF Inside
      <4> QED  BY <4>1, <4>2
    <3> QED  BY <3>1, <3>2, <3>3, <1>6 DEF BindOK, Gone
  <2> QED  BY <2>1, <2>2
<1> QED  BY <1>7, <1>9, <1>10, <1>11, <1>12 DEF BInv

\* ... and leaves it with a value or a panic.
LEMMA EndFactoryKeeps ==
  ASSUME BInv, NEW t \in Threads, EndFactory(t)
  PROVE  BInv'
<1> DEFINE b == Head(stack[t])
           q == Tail(stack[t])
<1>1. stack[t] # <<>> /\ stack[t] \in Seq(Binds) /\ StackOK(t)
  BY DEF EndFactory, BInv, TypeOK
<1>2. /\ b \in Binds /\ q \in Seq(Binds) /\ 1 \in 1..Len(stack[t]) /\ stack[t][1] = b
      /\ \A i \in 1..Len(q) : q[i] # b /\ \E n \in 1..Len(stack[t]) : q[i] = stack[t][n]
      /\ \A n \in 1..Len(stack[t]) : stack[t][n] # b => \E i \in 1..Len(q) : q[i] = stack[t][n]
      /\ \A i, j \in 1..Len(q) : q[i] = q[j] => i = j
  BY <1>1, TailOnce DEF StackOK
<1>3. to[b] \in Shards /\ Owner(to[b]) = t /\ ~Gone(to[b]) /\ result[b] = "none" /\ b \in ran /\ BindOK(b)
  BY <1>1, <1>2 DEF StackOK, BInv
<1>4. \A s \in Shards : \A i \in 1..Len(queue[s]) : queue[s][i] # b
  BY <1>3 DEF BInv, QueueOK
<1>5. /\ stack' = [stack EXCEPT ![t] = q]
      /\ UNCHANGED <<phase, open, queue, context, waits, to, ran, ui>>
      /\ \/ result' = [result EXCEPT ![b] = "Ok"] /\ stored' = stored \cup {b}
         \/ result' = [result EXCEPT ![b] = "Panicked"] /\ stored' = stored
  BY DEF EndFactory, Answer
<1> HIDE DEF b, q
<1>6. TypeOK'
  BY <1>1, <1>2, <1>5 DEF BInv, TypeOK, ui
<1>7. /\ stack'[t] = q /\ \A u \in Threads \ {t} : stack'[u] = stack[u]
      /\ \A d \in Binds \ {b} : result'[d] = result[d] /\ (d \in stored' <=> d \in stored)
      /\ result'[b] \in {"Ok", "Panicked"} /\ (b \in stored' <=> result'[b] = "Ok")
  BY <1>1, <1>2, <1>3, <1>5 DEF BInv, TypeOK, BindOK
<1>8. ASSUME NEW s \in Shards PROVE ShardOK(s)'
  <2>1. ShardOK(s) /\ (Gone(s) => to[b] # s) /\ stored' \subseteq stored \cup {b}
    BY <1>3, <1>5 DEF BInv
  <2> QED  BY <2>1, <1>5 DEF ShardOK, Past, Gone, ui
<1>9. ASSUME NEW s \in Shards PROVE QueueOK(s)'
  <2>1. QueueOK(s) /\ queue[s] \in Seq(Binds) /\ \A i \in 1..Len(queue[s]) : queue[s][i] \in Binds \ {b}
    BY <1>4 DEF BInv, TypeOK
  <2> QED  BY <2>1, <1>5, <1>7 DEF QueueOK
<1>10. ASSUME NEW u \in Threads PROVE StackOK(u)'
  <2>1. CASE u = t
    <3>1. ASSUME NEW i \in 1..Len(q)
          PROVE  /\ to[q[i]] \in Shards /\ Owner(to[q[i]]) = t /\ phase[to[q[i]]] \notin {"leaving", "ended"}
                 /\ result'[q[i]] = "none" /\ q[i] \in ran
      <4>1. PICK n \in 1..Len(stack[t]) : q[i] = stack[t][n]
        BY <1>2
      <4>2. q[i] \in Binds \ {b}
        BY <1>2, <4>1, <1>1
      <4> QED  BY <4>1, <4>2, <1>1, <1>7 DEF StackOK, Gone
    <3>2. to' = to /\ phase' = phase /\ ran' = ran /\ stack'[u] = q
      BY <2>1, <1>5, <1>7
    <3> QED  BY <2>1, <3>1, <3>2, <1>2 DEF StackOK, Gone
  <2>2. CASE u # t
    <3>1. StackOK(u) /\ stack[u] \in Seq(Binds) /\ stack'[u] = stack[u]
      BY <2>2, <1>7 DEF BInv, TypeOK
    <3>2. \A i \in 1..Len(stack[u]) : stack[u][i] \in Binds \ {b}
      BY <3>1, <2>2, <1>3 DEF StackOK
    <3> QED  BY <3>1, <3>2, <1>5, <1>7 DEF StackOK, Gone
  <2> QED  BY <2>1, <2>2
<1>11. ASSUME NEW d \in Binds PROVE BindOK(d)'
  <2>1. CASE d = b
    BY <2>1, <1>3, <1>5, <1>7, OwnerIsThread DEF BindOK
  <2>2. CASE d # b
    <3>1. BindOK(d) /\ (to[d] \in Shards \/ to[d] = None)
      BY DEF BInv, TypeOK
    <3>2. Queued(d) <=> Queued(d)'
      BY <1>5 DEF Queued
    <3>3. to[d] \in Shards /\ Inside(d) => Inside(d)'
      <4>1. CASE Owner(to[d]) = t
        BY <2>2, <4>1, <1>2, <1>5, <1>7 DEF Inside
      <4>2. CASE Owner(to[d]) # t
        BY <4>2, <1>5, <1>7, OwnerIsThread DEF Inside
      <4> QED  BY <4>1, <4>2
    <3> QED  BY <2>2, <3>1, <3>2, <3>3, <1>5, <1>7 DEF BindOK, Gone
  <2> QED  BY <2>1, <2>2
<1> QED  BY <1>6, <1>8, <1>9, <1>10, <1>11 DEF BInv

-------------------------------------------------------------------------------
(* The theorems.                                                             *)

\* The invariant holds for any shards, threads and binds.
THEOREM BindingInvariant == Spec => []BInv
<1>1. Init => BInv
  BY InitBInv
<1>2. BInv /\ [Next]_vars => BInv'
  <2> SUFFICES ASSUME BInv, [Next]_vars PROVE BInv'
    OBVIOUS
  <2>1. CASE UNCHANGED vars
    BY <2>1 DEF vars, ui, BInv, TypeOK, ShardOK, QueueOK, StackOK, BindOK, Queued, Inside, Past, Gone
  <2>2. ASSUME NEW t \in Threads, NEW b \in Binds, NEW s \in Shards,
               BindHere(t, b, s) \/ TryBind(t, b, s) \/ BindAndWait(t, b, s) \/ BindAsync(t, b, s)
        PROVE  BInv'
    BY <2>2, BindHereKeeps, TryBindKeeps, RemoteBindsKeep
  <2>3. ASSUME NEW t \in Threads, EndFactory(t) PROVE BInv'
    BY <2>3, EndFactoryKeeps
  <2>4. ASSUME NEW s \in Shards, TakeBind(s) \/ DropContext(s) \/ DropMain(s) \/ Unwind(s) PROVE BInv'
    BY <2>4, TakeBindKeeps, DropContextKeeps, ReceiverStepsKeep
  <2>5. ASSUME NEW s \in Shards,
               RequestShutdown(s) \/ RunMain(s) \/ LeaveLoop(s) \/ Crash(s) \/ Quit(s)
               \/ End(s) \/ ShutdownAsync(s)
        PROVE  BInv'
    BY <2>5, PhasesKeep
  <2> QED  BY <2>1, <2>2, <2>3, <2>4, <2>5 DEF Next
<1> QED  BY <1>1, <1>2, PTL DEF Spec

\* The variables keep their types.
THEOREM BindingTypes == Spec => []TypeOK
<1>1. BInv => TypeOK
  BY DEF BInv
<1> QED  BY <1>1, BindingInvariant, PTL

\* No context, and no value in one, outlives its shard (ContextGuard::drop).
THEOREM EndedLeavesNothing == Spec => []NothingAfterEnd
<1>1. BInv => NothingAfterEnd
  BY DEF BInv, ShardOK, Gone, NothingAfterEnd
<1> QED  BY <1>1, BindingInvariant, PTL

\* What was bound is there while its shard is, however early it was bound.
THEOREM BoundIsKept == Spec => []BoundStaysStored
<1>1. BInv => BoundStaysStored
  BY DEF BInv, BindOK, Gone, BoundStaysStored
<1> QED  BY <1>1, BindingInvariant, PTL

\* What callers of bind, bind_async and try_bind are told is true.
THEOREM BindsAreHonest == Spec => []HonestBind
<1>1. BInv => HonestBind
  <2> SUFFICES ASSUME BInv, NEW b \in Binds
               PROVE  /\ result[b] \in {"Closed", "Canceled", "WrongShard"} => b \notin ran
                      /\ result[b] \in {"Ok", "Panicked"} => b \in ran
                      /\ b \in Misfits => b \notin ran \cup stored
    BY DEF HonestBind
  <2> QED  BY DEF BInv, BindOK
<1> QED  BY <1>1, BindingInvariant, PTL

\* After Ok from SlintShard::shutdown_async the shard's binds are answered and its
\* store is empty and dropped.
THEOREM ShutdownIsHonest == Spec => []ShutdownHonest
<1>1. BInv => ShutdownHonest
  <2> SUFFICES ASSUME BInv, NEW s \in Shards, told[s] = "Ok"
               PROVE  /\ phase[s] = "ended" /\ s \notin context
                      /\ \A b \in Binds : to[b] = s => b \notin stored /\ result[b] # "none"
    BY DEF ShutdownHonest
  <2>1. Gone(s) /\ Past(s) /\ phase[s] = "ended"
    BY DEF BInv, ShardOK, Gone, Past
  <2>2. s \notin context /\ (\A b \in stored : to[b] # s) /\ Len(queue[s]) = 0
    BY <2>1 DEF BInv, ShardOK
  <2>3. ASSUME NEW b \in Binds, to[b] = s, result[b] = "none" PROVE FALSE
    <3>1. Queued(b) \/ Inside(b)
      BY <2>3, OwnerIsThread DEF BInv, BindOK
    <3>2. ~Queued(b)
      BY <2>2, <2>3 DEF Queued
    <3>3. ~Inside(b)
      BY <2>1, <2>3, OwnerIsThread DEF Inside, BInv, StackOK
    <3> QED  BY <3>1, <3>2, <3>3
  <2> QED  BY <2>1, <2>2, <2>3
<1> QED  BY <1>1, BindingInvariant, PTL
===============================================================================
