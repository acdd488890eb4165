--------------------------- MODULE ShardDriverProofs ---------------------------
(***************************************************************************)
(* Proofs about ShardDriver, for every set of calls and tasks: answers are *)
(* true, a shard that is down or dead has left nothing behind, and the     *)
(* loop does what Mailbox promises, one step or none for each of its own.  *)
(*                                                                         *)
(* The last needs that the queue is what was accepted and is not started,  *)
(* in order (Ledger), and that only started calls run (OpenRuns).          *)
(***************************************************************************)
EXTENDS ShardDriver, TLAPS

Accepted(c) == \E i \in 1..Len(accepted) : accepted[i] = c
Started(c)  == \E i \in 1..Len(started) : started[i] = c

\* A future is gone exactly when its observer has an answer.
OverIsSettled == \A w \in Work : state[w] = "over" <=> Settled(w)

Distinct(s) == \A i, j \in 1..Len(s) : s[i] = s[j] => i = j

\* What waits to be started or adopted, and nothing else, is where the driver
\* will find it, once.
QueuedIsFound ==
  /\ \A c \in Calls : state[c] = "queued" <=> InQueue(c)
  /\ \A k \in Tasks : state[k] = "queued" <=> k \in spawned
  /\ Distinct(queue)

\* What has been accepted is not new, and what is pending was started.
NotNew ==
  /\ \A c \in Calls : Accepted(c) => state[c] # "new"
  /\ \A c \in Calls \ {Main} : state[c] = "pending" => Started(c)

\* What is left once the loop has been left, ...
AfterLoop ==
  stage \in {"drain", "down", "dead"} =>
    ~open /\ queue = <<>> /\ spawned = {} /\ ~spawnable

\* ... and once the driver has ended.
AfterDrain ==
  stage \in {"down", "dead"} => \A w \in Work : state[w] \in {"new", "over"}

Inv ==
  /\ TypeOK
  /\ OverIsSettled
  /\ QueuedIsFound
  /\ NotNew
  /\ AfterLoop
  /\ NoTaskInDrain
  /\ AfterDrain
  /\ HonestReply

-------------------------------------------------------------------------------
(* Sequences.                                                                *)

\* What a longer list has, ...
LEMMA AppendHas ==
  ASSUME NEW S, NEW s \in Seq(S), NEW x \in S
  PROVE  /\ Append(s, x) \in Seq(S)
         /\ \A y : (\E i \in 1..Len(Append(s, x)) : Append(s, x)[i] = y)
                     <=> (y = x \/ \E i \in 1..Len(s) : s[i] = y)
<1>1. /\ Append(s, x) \in Seq(S) /\ Len(Append(s, x)) = Len(s) + 1
      /\ Append(s, x)[Len(s) + 1] = x
      /\ \A i \in 1..Len(s) : Append(s, x)[i] = s[i]
  OBVIOUS
<1>2. Len(s) \in Nat
  OBVIOUS
<1>3. \A i \in 1..(Len(s) + 1) : i \in 1..Len(s) \/ i = Len(s) + 1
  BY <1>2
<1>4. Len(s) + 1 \in 1..(Len(s) + 1) /\ 1..Len(s) \subseteq 1..(Len(s) + 1)
  BY <1>2
<1> QED  BY <1>1, <1>3, <1>4

\* ... what a shorter one still has, ...
LEMMA TailHas ==
  ASSUME NEW S, NEW s \in Seq(S), s # <<>>
  PROVE  /\ Head(s) \in S /\ Tail(s) \in Seq(S)
         /\ \A y : (\E i \in 1..Len(s) : s[i] = y) /\ y # Head(s)
                     => \E i \in 1..Len(Tail(s)) : Tail(s)[i] = y
<1>1. /\ Head(s) \in S /\ Tail(s) \in Seq(S) /\ Head(s) = s[1]
      /\ Len(Tail(s)) = Len(s) - 1 /\ Len(s) \in Nat
      /\ \A i \in 1..(Len(s) - 1) : Tail(s)[i] = s[i + 1]
  OBVIOUS
<1>2. ASSUME NEW y, NEW i \in 1..Len(s), s[i] = y, y # Head(s)
      PROVE  \E j \in 1..Len(Tail(s)) : Tail(s)[j] = y
  <2>1. i - 1 \in 1..(Len(s) - 1) /\ (i - 1) + 1 = i
    BY <1>1, <1>2
  <2>2. Tail(s)[i - 1] = y
    BY <1>1, <1>2, <2>1
  <2> QED  BY <1>1, <2>1, <2>2
<1> QED  BY <1>1, <1>2

\* ... and that neither of them has anything twice.
LEMMA AppendDistinct ==
  ASSUME NEW S, NEW s \in Seq(S), NEW x \in S, Distinct(s), ~ \E i \in 1..Len(s) : s[i] = x
  PROVE  Distinct(Append(s, x))
<1>1. /\ Len(Append(s, x)) = Len(s) + 1 /\ Len(s) \in Nat
      /\ Append(s, x)[Len(s) + 1] = x
      /\ \A i \in 1..Len(s) : Append(s, x)[i] = s[i]
  OBVIOUS
<1>2. \A i \in 1..(Len(s) + 1) : i \in 1..Len(s) \/ i = Len(s) + 1
  BY <1>1
<1> QED  BY <1>1, <1>2 DEF Distinct

\* A list without repetitions has its head once.
LEMMA TailDistinct ==
  ASSUME NEW S, NEW s \in Seq(S), s # <<>>, Distinct(s)
  PROVE  /\ Distinct(Tail(s))
         /\ \A y : (\E i \in 1..Len(Tail(s)) : Tail(s)[i] = y)
                     => y # Head(s) /\ \E i \in 1..Len(s) : s[i] = y
         /\ \E i \in 1..Len(s) : s[i] = Head(s)
<1>1. /\ Head(s) = s[1] /\ Len(Tail(s)) = Len(s) - 1 /\ Len(s) \in Nat /\ Len(s) > 0
      /\ \A i \in 1..(Len(s) - 1) : Tail(s)[i] = s[i + 1]
  OBVIOUS
<1>2. 1 \in 1..Len(s) /\ \A i \in 1..(Len(s) - 1) : i + 1 \in 1..Len(s) /\ i + 1 # 1
  BY <1>1
<1>3. \A i, j \in 1..(Len(s) - 1) : i + 1 = j + 1 => i = j
  BY <1>1
<1>4. Distinct(Tail(s))
  <2> SUFFICES ASSUME NEW i \in 1..(Len(s) - 1), NEW j \in 1..(Len(s) - 1), s[i + 1] = s[j + 1]
               PROVE  i = j
    BY <1>1 DEF Distinct
  <2> QED  BY <1>2, <1>3 DEF Distinct
<1> QED  BY <1>1, <1>2, <1>4 DEF Distinct

-------------------------------------------------------------------------------
(* What settling and cancelling do, pointwise.                               *)

\* Settling ends one future and answers one observer.
LEMMA SettleEffect ==
  ASSUME TypeOK, NEW w \in Work, NEW r \in Replies, Settle(w, r)
  PROVE  /\ state' \in [Work -> States] /\ awaits' \in [Work -> Work \cup {External, Nothing}]
         /\ reply' \in [Work -> Replies \cup {"none"}]
         /\ \A v \in Work : state'[v] = IF v = w THEN "over" ELSE state[v]
         /\ \A v \in Work : reply'[v] = IF v = w THEN r ELSE reply[v]
BY DEF TypeOK, Settle, States

\* Cancelling ends those of a set, and answers each of them Canceled.
LEMMA CancelEffect ==
  ASSUME TypeOK, NEW S \in SUBSET Work, CancelAll(S)
  PROVE  /\ state' \in [Work -> States] /\ awaits' \in [Work -> Work \cup {External, Nothing}]
         /\ reply' \in [Work -> Replies \cup {"none"}]
         /\ \A v \in Work : state'[v] = IF v \in S THEN "over" ELSE state[v]
         /\ \A v \in Work : reply'[v] = IF v \in S THEN "Canceled" ELSE reply[v]
BY DEF TypeOK, CancelAll, States, Replies

\* No call is a task.
LEMMA WorkIsSplit ==
  /\ \A c \in Calls : c \in Work /\ c \notin Tasks
  /\ \A k \in Tasks : k \in Work /\ k \notin Calls
BY DriverAssumption DEF Work

\* What is read off a queue that does not change, ...
LEMMA SameQueue ==
  ASSUME UNCHANGED queue
  PROVE  (\A d : InQueue(d)' <=> InQueue(d)) /\ (Distinct(queue) => Distinct(queue)')
BY DEF InQueue, Distinct

\* ... or off the histories, does not change.
LEMMA SameHistory ==
  ASSUME UNCHANGED <<accepted, started>>
  PROVE  \A d : (Accepted(d)' <=> Accepted(d)) /\ (Started(d)' <=> Started(d))
BY DEF Accepted, Started

-------------------------------------------------------------------------------
(* Callers.                                                                  *)

\* A submitted call is queued while the queue is open, and refused from then on.
LEMMA SubmitKeepsInv ==
  ASSUME Inv, NEW c \in Calls, Submit(c)
  PROVE  Inv'
<1>1. c \in Work /\ c \notin Tasks /\ state[c] = "new" /\ reply[c] = "none"
  BY DriverAssumption DEF Inv, OverIsSettled, Settled, Submit, Work
<1>2. CASE open
  <2>1. /\ queue' = Append(queue, c) /\ accepted' = Append(accepted, c)
        /\ state' = [state EXCEPT ![c] = "queued"]
        /\ UNCHANGED <<awaits, reply, open, aborted, spawned, spawnable, stage, started>>
    BY <1>2 DEF Submit
  <2>2. \A w \in Work : state'[w] = IF w = c THEN "queued" ELSE state[w]
    BY <2>1 DEF Inv, TypeOK
  <2>3. /\ queue' \in Seq(Calls) /\ accepted' \in Seq(Calls)
        /\ \A d : InQueue(d)' <=> d = c \/ InQueue(d)
        /\ \A d : Accepted(d)' <=> d = c \/ Accepted(d)
    <3>1. queue \in Seq(Calls) /\ accepted \in Seq(Calls)
      BY DEF Inv, TypeOK
    <3>2. /\ queue' \in Seq(Calls)
          /\ \A d : (\E i \in 1..Len(queue') : queue'[i] = d) <=> d = c \/ \E i \in 1..Len(queue) : queue[i] = d
      BY <2>1, <3>1, AppendHas
    <3>3. /\ accepted' \in Seq(Calls)
          /\ \A d : (\E i \in 1..Len(accepted') : accepted'[i] = d) <=> d = c \/ \E i \in 1..Len(accepted) : accepted[i] = d
      BY <2>1, <3>1, AppendHas
    <3> QED  BY <3>2, <3>3 DEF InQueue, Accepted
  <2>4. TypeOK'
    BY <2>1, <2>3 DEF Inv, TypeOK, States
  <2>5. OverIsSettled'
    BY <1>1, <2>1, <2>2 DEF Inv, OverIsSettled, Settled
  <2>6. QueuedIsFound'
    <3>1. ~InQueue(c)
      BY <1>1 DEF Inv, QueuedIsFound
    <3>2. Distinct(queue)'
      BY <2>1, <3>1, AppendDistinct DEF Inv, TypeOK, QueuedIsFound, InQueue
    <3> QED  BY <2>1, <2>2, <2>3, <3>2, WorkIsSplit DEF Inv, QueuedIsFound
  <2>7. NotNew'
    BY <1>1, <2>1, <2>2, <2>3 DEF Inv, NotNew, Work, Started
  <2>8. stage \notin {"drain", "down", "dead"}
    BY <1>2 DEF Inv, AfterLoop
  <2>9. HonestReply'
    BY <1>1, <2>1, <2>3 DEF Inv, HonestReply, Accepted
  <2> QED  BY <2>1, <2>4, <2>5, <2>6, <2>7, <2>8, <2>9 DEF Inv, AfterLoop, NoTaskInDrain, AfterDrain
<1>3. CASE ~open
  <2>1. Settle(c, "Closed") /\ UNCHANGED <<queue, accepted, open, aborted, spawned, spawnable, stage, started>>
    BY <1>3 DEF Submit
  <2>2. /\ state' \in [Work -> States] /\ awaits' \in [Work -> Work \cup {External, Nothing}]
        /\ reply' \in [Work -> Replies \cup {"none"}]
        /\ \A v \in Work : state'[v] = IF v = c THEN "over" ELSE state[v]
        /\ \A v \in Work : reply'[v] = IF v = c THEN "Closed" ELSE reply[v]
    BY <1>1, <2>1, SettleEffect DEF Inv, Replies
  <2>3. ~Accepted(c)
    BY DEF Inv, NotNew, Submit
  <2>4. TypeOK'
    BY <2>1, <2>2 DEF Inv, TypeOK
  <2>5. OverIsSettled'
    BY <2>2 DEF Inv, OverIsSettled, Settled
  <2>6. QueuedIsFound'
    BY <1>1, <2>1, <2>2, SameQueue, WorkIsSplit DEF Inv, QueuedIsFound
  <2>7. NotNew'
    BY <2>1, <2>2 DEF Inv, NotNew, Work, Accepted, Started
  <2>8. NoTaskInDrain' /\ AfterDrain' /\ AfterLoop'
    BY <2>1, <2>2 DEF Inv, AfterLoop, NoTaskInDrain, AfterDrain, Work
  <2>9. HonestReply'
    BY <1>1, <2>1, <2>2, <2>3 DEF Inv, HonestReply, Work, Accepted
  <2> QED  BY <2>4, <2>5, <2>6, <2>7, <2>8, <2>9 DEF Inv
<1> QED  BY <1>2, <1>3

\* So is a spawned task, which nothing but a closed spawner refuses.
LEMMA SpawnKeepsInv ==
  ASSUME Inv, NEW k \in Tasks, Spawn(k)
  PROVE  Inv'
<1>1. k \in Work /\ k \notin Calls /\ state[k] = "new" /\ reply[k] = "none"
  BY DriverAssumption DEF Inv, OverIsSettled, Settled, Spawn, Work
<1>2. CASE open /\ spawnable
  <2>1. /\ spawned' = spawned \cup {k}
        /\ state' = [state EXCEPT ![k] = "queued"]
        /\ UNCHANGED <<awaits, reply, open, queue, aborted, spawnable, stage, accepted, started>>
    BY <1>2 DEF Spawn
  <2>2. \A w \in Work : state'[w] = IF w = k THEN "queued" ELSE state[w]
    BY <2>1 DEF Inv, TypeOK
  <2>3. TypeOK'
    BY <2>1 DEF Inv, TypeOK, States
  <2>4. OverIsSettled'
    BY <1>1, <2>1, <2>2 DEF Inv, OverIsSettled, Settled
  <2>5. QueuedIsFound' /\ NotNew'
    BY <2>1, <2>2, SameQueue, SameHistory, WorkIsSplit DEF Inv, QueuedIsFound, NotNew
  <2>6. stage \notin {"drain", "down", "dead"}
    BY <1>2 DEF Inv, AfterLoop
  <2>7. HonestReply'
    BY <2>1 DEF Inv, HonestReply
  <2> QED  BY <2>1, <2>3, <2>4, <2>5, <2>6, <2>7 DEF Inv, AfterLoop, NoTaskInDrain, AfterDrain
<1>3. CASE ~(open /\ spawnable)
  <2>1. Settle(k, "Closed") /\ UNCHANGED <<spawned, open, queue, aborted, spawnable, stage, accepted, started>>
    BY <1>3 DEF Spawn
  <2>2. /\ state' \in [Work -> States] /\ awaits' \in [Work -> Work \cup {External, Nothing}]
        /\ reply' \in [Work -> Replies \cup {"none"}]
        /\ \A v \in Work : state'[v] = IF v = k THEN "over" ELSE state[v]
        /\ \A v \in Work : reply'[v] = IF v = k THEN "Closed" ELSE reply[v]
    BY <1>1, <2>1, SettleEffect DEF Inv, Replies
  <2>3. TypeOK'
    BY <2>1, <2>2 DEF Inv, TypeOK
  <2>4. OverIsSettled'
    BY <2>2 DEF Inv, OverIsSettled, Settled
  <2>5. QueuedIsFound' /\ NotNew'
    BY <1>1, <2>1, <2>2, SameQueue, SameHistory, WorkIsSplit DEF Inv, QueuedIsFound, NotNew
  <2>6. NoTaskInDrain' /\ AfterDrain' /\ AfterLoop'
    BY <2>1, <2>2 DEF Inv, AfterLoop, NoTaskInDrain, AfterDrain, Work
  <2>7. HonestReply'
    BY <1>1, <2>1, <2>2 DEF Inv, HonestReply, Work
  <2> QED  BY <2>3, <2>4, <2>5, <2>6, <2>7 DEF Inv
<1> QED  BY <1>2, <1>3

\* Raising a flag, closing the queue and beginning to die disturb nothing.
LEMMA FlagsKeepInv ==
  ASSUME Inv, (\E k \in Tasks : Abort(k)) \/ RequestShutdown \/ Crash
  PROVE  Inv'
<1> DEFINE OnlyFlags ==
      /\ UNCHANGED <<queue, state, awaits, reply, spawned, spawnable, accepted, started>>
      /\ aborted \subseteq aborted' /\ aborted' \subseteq Tasks
      /\ open' \in BOOLEAN /\ (~open => ~open')
      /\ (stage' = stage \/ (stage = "run" /\ stage' = "dying"))
<1>1. OnlyFlags
  <2>1. ASSUME NEW k \in Tasks, Abort(k) PROVE OnlyFlags
    BY <2>1 DEF Inv, TypeOK, Abort
  <2>2. ASSUME RequestShutdown PROVE OnlyFlags
    BY <2>2 DEF Inv, TypeOK, RequestShutdown
  <2>3. ASSUME Crash PROVE OnlyFlags
    BY <2>3 DEF Inv, TypeOK, Crash
  <2> QED  BY <2>1, <2>2, <2>3
<1>2. TypeOK'
  BY <1>1 DEF Inv, TypeOK
<1>3. OverIsSettled' /\ QueuedIsFound' /\ NotNew'
  BY <1>1, SameQueue, SameHistory DEF Inv, OverIsSettled, Settled, QueuedIsFound, NotNew
<1>4. AfterLoop' /\ NoTaskInDrain' /\ AfterDrain'
  BY <1>1 DEF Inv, AfterLoop, NoTaskInDrain, AfterDrain
<1>5. HonestReply'
  BY <1>1 DEF Inv, HonestReply
<1> QED  BY <1>2, <1>3, <1>4, <1>5 DEF Inv

-------------------------------------------------------------------------------
(* The loop.                                                                 *)

\* The head of the queue, and no other call, is started: it ends or waits.
LEMMA StartCallKeepsInv ==
  ASSUME Inv, StartCall
  PROVE  Inv'
<1> DEFINE c == Head(queue)
<1>1. /\ stage = "run" /\ queue # <<>> /\ queue' = Tail(queue)
      /\ started' = Append(started, c)
      /\ UNCHANGED <<open, aborted, spawned, spawnable, stage, accepted>>
  BY DEF StartCall
<1>2. /\ c \in Calls /\ c \in Work /\ c \notin Tasks /\ queue' \in Seq(Calls)
      /\ state[c] = "queued" /\ reply[c] = "none"
      /\ \A d : InQueue(d)' <=> InQueue(d) /\ d # c
      /\ Distinct(queue)'
  <2>1. queue \in Seq(Calls) /\ Distinct(queue)
    BY DEF Inv, TypeOK, QueuedIsFound
  <2>2. /\ c \in Calls /\ queue' \in Seq(Calls)
        /\ \A d : InQueue(d) /\ d # c => InQueue(d)'
    BY <1>1, <2>1, TailHas DEF InQueue
  <2>3. /\ Distinct(Tail(queue)) /\ InQueue(c)
        /\ \A d : InQueue(d)' => InQueue(d) /\ d # c
    <3>1. /\ Distinct(Tail(queue))
          /\ \A y : (\E i \in 1..Len(Tail(queue)) : Tail(queue)[i] = y)
                     => y # Head(queue) /\ \E i \in 1..Len(queue) : queue[i] = y
          /\ \E i \in 1..Len(queue) : queue[i] = Head(queue)
      BY <1>1, <2>1, TailDistinct
    <3>2. \A d : InQueue(d)' => InQueue(d) /\ d # Head(queue)
      BY <1>1, <3>1 DEF InQueue
    <3> QED  BY <3>1, <3>2 DEF InQueue
  <2>4. Distinct(queue)'
    BY <1>1, <2>3 DEF Distinct
  <2>5. c \in Work /\ c \notin Tasks /\ state[c] = "queued"
    BY <2>2, <2>3, WorkIsSplit DEF Inv, QueuedIsFound
  <2>6. reply[c] = "none"
    BY <2>5 DEF Inv, OverIsSettled, Settled
  <2> QED  BY <2>2, <2>3, <2>4, <2>5, <2>6
<1>3. /\ started' \in Seq(Calls)
      /\ \A d : Started(d)' <=> d = c \/ Started(d)
  BY <1>1, <1>2, AppendHas DEF Inv, TypeOK, Started
<1>4. ASSUME NEW r \in {"Ok", "Panicked"}, Settle(c, r) PROVE Inv'
  <2>1. /\ state' \in [Work -> States] /\ awaits' \in [Work -> Work \cup {External, Nothing}]
        /\ reply' \in [Work -> Replies \cup {"none"}]
        /\ \A v \in Work : state'[v] = IF v = c THEN "over" ELSE state[v]
        /\ \A v \in Work : reply'[v] = IF v = c THEN r ELSE reply[v]
    BY <1>2, <1>4, SettleEffect DEF Inv, Replies
  <2>2. TypeOK'
    BY <1>1, <1>2, <1>3, <2>1 DEF Inv, TypeOK
  <2>3. OverIsSettled'
    BY <2>1 DEF Inv, OverIsSettled, Settled
  <2>4. QueuedIsFound' /\ NotNew'
    <3>1. QueuedIsFound'
      BY <1>1, <1>2, <2>1, WorkIsSplit DEF Inv, QueuedIsFound
    <3>2. NotNew'
      BY <1>1, <1>2, <1>3, <2>1, WorkIsSplit DEF Inv, NotNew, Accepted
    <3> QED  BY <3>1, <3>2
  <2>5. HonestReply'
    <3>1. /\ \A d \in Calls : d # c => reply'[d] = reply[d]
          /\ \A k \in Tasks : reply'[k] = reply[k]
          /\ reply'[c] = r /\ r \notin {"Closed", "Canceled"}
      BY <1>2, <1>4, <2>1, WorkIsSplit
    <3>3. ASSUME NEW d \in Calls, reply'[d] = "Closed" PROVE ~Accepted(d)'
      <4>1. d # c
        BY <3>1, <3>3
      <4> QED  BY <1>1, <3>1, <3>3, <4>1 DEF Inv, HonestReply, Accepted
    <3>4. ASSUME NEW d \in Calls, reply'[d] \in {"Ok", "Panicked"}, d # Main PROVE Started(d)'
      <4>1. CASE d = c
        BY <1>3, <4>1
      <4>2. CASE d # c
        BY <1>3, <3>1, <3>4, <4>2 DEF Inv, HonestReply, Started
      <4> QED  BY <4>1, <4>2
    <3>5. ASSUME NEW d \in Calls, reply'[d] = "Canceled" PROVE stage' \in {"down", "dying", "dead"}
      <4>1. d # c
        BY <3>1, <3>5
      <4>2. reply[d] = "Canceled"
        BY <3>1, <3>5, <4>1
      <4> QED  BY <1>1, <4>2 DEF Inv, HonestReply
    <3>6. \A k \in Tasks : reply'[k] = "Canceled" => k \in aborted' \/ stage' # "run"
      BY <1>1, <3>1 DEF Inv, HonestReply
    <3> QED  BY <3>3, <3>4, <3>5, <3>6 DEF HonestReply, Accepted, Started
  <2> QED  BY <1>1, <2>2, <2>3, <2>4, <2>5 DEF Inv, AfterLoop, NoTaskInDrain, AfterDrain
<1>5. ASSUME NEW w \in (Work \ {c}) \cup {External},
             state' = [state EXCEPT ![c] = "pending"],
             awaits' = [awaits EXCEPT ![c] = w], UNCHANGED reply
      PROVE Inv'
  <2>1. \A v \in Work : state'[v] = IF v = c THEN "pending" ELSE state[v]
    BY <1>5 DEF Inv, TypeOK
  <2>2. TypeOK'
    BY <1>1, <1>2, <1>3, <1>5 DEF Inv, TypeOK, States
  <2>3. OverIsSettled'
    BY <1>2, <1>5, <2>1 DEF Inv, OverIsSettled, Settled
  <2>4. QueuedIsFound' /\ NotNew'
    <3>1. QueuedIsFound'
      BY <1>1, <1>2, <2>1, WorkIsSplit DEF Inv, QueuedIsFound
    <3>2. NotNew'
      BY <1>1, <1>2, <1>3, <2>1, WorkIsSplit DEF Inv, NotNew, Accepted
    <3> QED  BY <3>1, <3>2
  <2>5. HonestReply'
    BY <1>1, <1>3, <1>5 DEF Inv, HonestReply, Started
  <2> QED  BY <1>1, <2>2, <2>3, <2>4, <2>5 DEF Inv, AfterLoop, NoTaskInDrain, AfterDrain
<1> QED  BY <1>4, <1>5 DEF StartCall

\* A pending call or task ends, with an answer that its end allows.
LEMMA SettlingKeepsInv ==
  ASSUME Inv, NEW w \in Work, NEW r \in Replies, Settle(w, r), state[w] = "pending",
         r # "Closed", w \in Calls => r # "Canceled", r = "Canceled" => w \in aborted,
         open' \in BOOLEAN, ~open => ~open',
         UNCHANGED <<queue, aborted, spawned, spawnable, stage, accepted, started>>
  PROVE  Inv'
<1>1. /\ state' \in [Work -> States] /\ awaits' \in [Work -> Work \cup {External, Nothing}]
      /\ reply' \in [Work -> Replies \cup {"none"}]
      /\ \A v \in Work : state'[v] = IF v = w THEN "over" ELSE state[v]
      /\ \A v \in Work : reply'[v] = IF v = w THEN r ELSE reply[v]
  BY SettleEffect DEF Inv
<1>2. TypeOK'
  BY <1>1 DEF Inv, TypeOK
<1>3. OverIsSettled'
  BY <1>1 DEF Inv, OverIsSettled, Settled, Replies
<1>4. QueuedIsFound' /\ NotNew'
  BY <1>1, SameQueue, SameHistory, WorkIsSplit DEF Inv, QueuedIsFound, NotNew
<1>5. AfterLoop'
  BY DEF Inv, AfterLoop
<1>6. NoTaskInDrain' /\ AfterDrain'
  BY <1>1, WorkIsSplit DEF Inv, NoTaskInDrain, AfterDrain
<1>7. HonestReply'
  <2>1. ASSUME NEW c \in Calls, reply'[c] = "Closed" PROVE ~Accepted(c)'
    BY <1>1, <2>1, WorkIsSplit DEF Inv, HonestReply, Accepted
  <2>2. ASSUME NEW c \in Calls, reply'[c] \in {"Ok", "Panicked"}, c # Main PROVE Started(c)'
    <3>1. CASE c = w
      BY <2>2, <3>1, SameHistory DEF Inv, NotNew
    <3>2. CASE c # w
      BY <1>1, <2>2, <3>2, WorkIsSplit, SameHistory DEF Inv, HonestReply, Started
    <3> QED  BY <3>1, <3>2
  <2>3. ASSUME NEW c \in Calls, reply'[c] = "Canceled" PROVE stage' \in {"down", "dying", "dead"}
    BY <1>1, <2>3, WorkIsSplit DEF Inv, HonestReply
  <2>4. ASSUME NEW k \in Tasks, reply'[k] = "Canceled" PROVE k \in aborted' \/ stage' # "run"
    BY <1>1, <2>4, WorkIsSplit DEF Inv, HonestReply
  <2> QED  BY <2>1, <2>2, <2>3, <2>4 DEF HonestReply, Accepted, Started
<1> QED  BY <1>2, <1>3, <1>4, <1>5, <1>6, <1>7 DEF Inv

\* A call that was waiting ends, ...
LEMMA ResumeKeepsInv ==
  ASSUME Inv, NEW c \in Calls, Resume(c)
  PROVE  Inv'
<1>1. PICK r \in {"Ok", "Panicked"} : Settle(c, r)
  BY DEF Resume
<1>2. /\ c \in Work /\ c \notin Tasks /\ r \in Replies /\ r \notin {"Closed", "Canceled"}
      /\ state[c] = "pending"
      /\ UNCHANGED <<queue, aborted, spawned, spawnable, stage, accepted, started>>
  BY <1>1, WorkIsSplit DEF Resume, Replies
<1>3. open' \in BOOLEAN /\ (~open => ~open')
  BY DEF Resume, Inv, TypeOK
<1> QED  BY <1>1, <1>2, <1>3, SettlingKeepsInv

\* ... and so does a task, with Canceled if it was aborted.
LEMMA EndTaskKeepsInv ==
  ASSUME Inv, NEW k \in Tasks, EndTask(k)
  PROVE  Inv'
<1>1. PICK r \in (IF k \in aborted THEN {"Canceled"} ELSE {"Ok", "Panicked"}) : Settle(k, r)
  BY DEF EndTask
<1>2. /\ k \in Work /\ k \notin Calls /\ r \in Replies /\ r # "Closed"
      /\ (r = "Canceled" => k \in aborted) /\ state[k] = "pending"
      /\ UNCHANGED <<open, queue, aborted, spawned, spawnable, stage, accepted, started>>
  BY <1>1, WorkIsSplit DEF EndTask, Replies
<1>3. open' \in BOOLEAN /\ (~open => ~open')
  BY <1>2 DEF Inv, TypeOK
<1> QED  BY <1>1, <1>2, <1>3, SettlingKeepsInv

\* Every task in the spawner is polled from now on.
LEMMA AdoptKeepsInv ==
  ASSUME Inv, AdoptSpawned
  PROVE  Inv'
<1>1. /\ state' = [w \in Work |-> IF w \in spawned THEN "pending" ELSE state[w]]
      /\ spawned' = {} /\ stage = "run"
      /\ UNCHANGED <<open, queue, awaits, reply, aborted, spawnable, stage, accepted, started>>
  BY DEF AdoptSpawned
<1>2. /\ \A c \in Calls : state'[c] = state[c]
      /\ \A k \in Tasks : state'[k] = IF k \in spawned THEN "pending" ELSE state[k]
      /\ \A w \in spawned : state[w] = "queued" /\ state'[w] = "pending" /\ w \in Tasks
      /\ \A w \in Work : w \notin spawned => state'[w] = state[w]
  BY <1>1, WorkIsSplit DEF Inv, TypeOK, QueuedIsFound
<1>3. TypeOK'
  BY <1>1 DEF Inv, TypeOK, States
<1>4. OverIsSettled'
  BY <1>1, <1>2 DEF Inv, OverIsSettled, Settled
<1>5. QueuedIsFound' /\ NotNew'
  BY <1>1, <1>2, SameQueue, SameHistory DEF Inv, QueuedIsFound, NotNew
<1>6. HonestReply'
  BY <1>1 DEF Inv, HonestReply
<1> QED  BY <1>1, <1>3, <1>4, <1>5, <1>6 DEF Inv, AfterLoop, NoTaskInDrain, AfterDrain

-------------------------------------------------------------------------------
(* Leaving the loop, ending the drain, and unwinding.                        *)

\* Everything that waits in a queue is dropped with S, and S holds whatever the
\* next stage may not find.
LEMMA CancellingKeepsInv ==
  ASSUME Inv, NEW S \in SUBSET Work, CancelAll(S),
         \A w \in S : state[w] \in {"queued", "pending"},
         \A w \in Work : state[w] = "queued" => w \in S,
         open' = FALSE, queue' = <<>>, spawned' = {}, spawnable' = FALSE,
         UNCHANGED <<aborted, accepted, started>>,
         stage' \in {"drain", "down", "dying", "dead"},
         stage \in {"down", "dying", "dead"} => stage' \in {"down", "dying", "dead"},
         \A c \in S \cap Calls : stage' \in {"down", "dying", "dead"},
         stage' = "drain" => \A k \in Tasks : state[k] = "pending" => k \in S,
         stage' \in {"down", "dead"} => \A w \in Work : state[w] = "pending" => w \in S
  PROVE  Inv'
<1>1. /\ state' \in [Work -> States] /\ awaits' \in [Work -> Work \cup {External, Nothing}]
      /\ reply' \in [Work -> Replies \cup {"none"}]
      /\ \A v \in Work : state'[v] = IF v \in S THEN "over" ELSE state[v]
      /\ \A v \in Work : reply'[v] = IF v \in S THEN "Canceled" ELSE reply[v]
  BY CancelEffect DEF Inv
<1>2. TypeOK'
  <2>1. queue' \in Seq(Calls)
    <3>1. <<>> \in Seq(Calls)
      OBVIOUS
    <3> QED  BY <3>1
  <2>4. open' \in BOOLEAN /\ spawnable' \in BOOLEAN
    BY Zenon
  <2>2. spawned' \subseteq Tasks /\ stage' \in {"run", "drain", "down", "dying", "dead"}
    OBVIOUS
  <2>3. accepted' \in Seq(Calls) /\ started' \in Seq(Calls) /\ aborted' \subseteq Tasks
    BY DEF Inv, TypeOK
  <2> QED  BY <1>1, <2>1, <2>2, <2>3, <2>4 DEF TypeOK
<1>3. OverIsSettled'
  BY <1>1 DEF Inv, OverIsSettled, Settled
<1>4. QueuedIsFound'
  <2>1. (\A c : ~InQueue(c)') /\ Distinct(queue)'
    <3>1. Len(queue') = 0
      OBVIOUS
    <3> QED  BY <3>1 DEF InQueue, Distinct
  <2>2. \A w \in Work : state'[w] # "queued"
    BY <1>1
  <2> QED  BY <2>1, <2>2, WorkIsSplit DEF QueuedIsFound
<1>5. NotNew'
  BY <1>1, SameHistory, WorkIsSplit DEF Inv, NotNew
<1>6. AfterLoop'
  BY DEF AfterLoop
<1>7. ASSUME NEW w \in Work, state'[w] # "over" PROVE w \notin S /\ state[w] \in {"new", "pending", "over"}
  BY <1>1, <1>7 DEF Inv, TypeOK, States
<1>8. NoTaskInDrain' /\ AfterDrain'
  BY <1>7, WorkIsSplit, <1>1 DEF NoTaskInDrain, AfterDrain
<1>9. HonestReply'
  <2>1. ASSUME NEW c \in Calls, reply'[c] # "Canceled" PROVE reply'[c] = reply[c]
    BY <1>1, <2>1, WorkIsSplit
  <2>2. ASSUME NEW c \in Calls, reply'[c] = "Closed" PROVE ~Accepted(c)'
    BY <2>1, <2>2, SameHistory DEF Inv, HonestReply, Accepted
  <2>3. ASSUME NEW c \in Calls, reply'[c] \in {"Ok", "Panicked"}, c # Main PROVE Started(c)'
    BY <2>1, <2>3, SameHistory DEF Inv, HonestReply, Started
  <2>4. ASSUME NEW c \in Calls, reply'[c] = "Canceled" PROVE stage' \in {"down", "dying", "dead"}
    BY <1>1, <2>4, WorkIsSplit DEF Inv, HonestReply
  <2> QED  BY <2>2, <2>3, <2>4 DEF HonestReply, Accepted, Started
<1> QED  BY <1>2, <1>3, <1>4, <1>5, <1>6, <1>8, <1>9 DEF Inv

\* When nothing is in the queue and nothing in the spawner, nothing is queued.
LEMMA EmptyQueues ==
  ASSUME Inv, queue = <<>>
  PROVE  /\ \A c \in Calls : state[c] # "queued"
         /\ \A w \in Work : state[w] = "queued" => w \in spawned
<1>1. Len(queue) = 0
  OBVIOUS
<1>2. \A c : ~InQueue(c)
  BY <1>1 DEF InQueue
<1> QED  BY <1>2 DEF Inv, QueuedIsFound, Work

\* Leaving the loop cancels every task, and no call.
LEMMA LeaveLoopKeepsInv ==
  ASSUME Inv, LeaveLoop
  PROVE  Inv'
<1> DEFINE S == spawned \cup Pending(Tasks)
<1>1. /\ stage = "run" /\ ~open /\ queue = <<>> /\ stage' \in {"drain", "dying"}
      /\ spawnable' = FALSE /\ spawned' = {} /\ CancelAll(S)
      /\ UNCHANGED <<open, queue, aborted, accepted, started>>
  BY DEF LeaveLoop
<1>2. open' = FALSE
  BY <1>1 DEF Inv, TypeOK
<1>3. S \in SUBSET Work /\ S \cap Calls = {}
  BY WorkIsSplit DEF Inv, TypeOK, Pending
<1>4. \A w \in S : state[w] \in {"queued", "pending"}
  BY DEF Inv, TypeOK, QueuedIsFound, Pending
<1>5. /\ \A w \in Work : state[w] = "queued" => w \in S
      /\ \A k \in Tasks : state[k] = "pending" => k \in S
  BY <1>1, EmptyQueues DEF Pending
<1> HIDE DEF S
<1> QED  BY <1>1, <1>2, <1>3, <1>4, <1>5, CancellingKeepsInv

\* A drain that ends by itself finds nothing pending.
LEMMA DrainedKeepsInv ==
  ASSUME Inv, Drained
  PROVE  Inv'
<1>1. /\ stage = "drain" /\ Pending(Calls) = {} /\ stage' \in {"down", "dying"}
      /\ UNCHANGED <<open, queue, state, awaits, reply, aborted, spawned, spawnable, accepted, started>>
  BY DEF Drained
<1>2. /\ TypeOK' /\ OverIsSettled' /\ QueuedIsFound' /\ NotNew'
  BY <1>1, SameQueue, SameHistory DEF Inv, TypeOK, OverIsSettled, Settled, QueuedIsFound, NotNew
<1>3. AfterLoop' /\ NoTaskInDrain'
  BY <1>1 DEF Inv, AfterLoop, NoTaskInDrain
<1>4. queue = <<>>
  BY <1>1 DEF Inv, AfterLoop
<1>5. ASSUME NEW w \in Work PROVE state[w] \in {"new", "over"}
  <2>1. CASE w \in Tasks
    BY <1>1, <2>1 DEF Inv, NoTaskInDrain
  <2>2. CASE w \in Calls
    BY <1>1, <1>4, <2>2, EmptyQueues DEF Inv, TypeOK, Pending, States
  <2> QED  BY <2>1, <2>2 DEF Work
<1>6. AfterDrain'
  BY <1>1, <1>5 DEF AfterDrain
<1>7. HonestReply'
  BY <1>1 DEF Inv, HonestReply
<1> QED  BY <1>2, <1>3, <1>6, <1>7 DEF Inv

\* A drain that is cut short cancels what it finds.
LEMMA GraceOverKeepsInv ==
  ASSUME Inv, GraceOver
  PROVE  Inv'
<1> DEFINE S == Pending(Calls)
<1>1. /\ stage = "drain" /\ CancelAll(S) /\ stage' \in {"down", "dying"}
      /\ UNCHANGED <<open, queue, aborted, spawned, spawnable, accepted, started>>
  BY DEF GraceOver
<1>2. open' = FALSE /\ queue = <<>> /\ queue' = <<>> /\ spawned = {} /\ spawned' = {} /\ spawnable' = FALSE
  BY <1>1 DEF Inv, AfterLoop, TypeOK
<1>3. /\ S \in SUBSET Work
      /\ \A w \in S : state[w] \in {"queued", "pending"}
  BY WorkIsSplit DEF Pending
<1>4. /\ \A w \in Work : state[w] = "queued" => w \in S
      /\ \A w \in Work : state[w] = "pending" => w \in S
  BY <1>1, <1>2, EmptyQueues DEF Inv, NoTaskInDrain, Pending, Work
<1> HIDE DEF S
<1> QED  BY <1>1, <1>2, <1>3, <1>4, CancellingKeepsInv

\* A driver that unwinds cancels whatever is queued or pending.
LEMMA UnwindKeepsInv ==
  ASSUME Inv, Unwind
  PROVE  Inv'
<1> DEFINE S == {w \in Work : state[w] \in {"queued", "pending"}}
<1>1. /\ open' = FALSE /\ queue' = <<>> /\ spawned' = {} /\ spawnable' = FALSE
      /\ CancelAll(S) /\ stage' = "dead"
      /\ UNCHANGED <<aborted, accepted, started>>
  BY DEF Unwind
<1>2. /\ S \in SUBSET Work
      /\ \A w \in S : state[w] \in {"queued", "pending"}
      /\ \A w \in Work : state[w] = "queued" => w \in S
      /\ \A w \in Work : state[w] = "pending" => w \in S
  OBVIOUS
<1> HIDE DEF S
<1> QED  BY <1>1, <1>2, CancellingKeepsInv

-------------------------------------------------------------------------------
(* The theorems.                                                             *)

\* At first only the main future runs.
LEMMA InitInv == Init => Inv
<1> SUFFICES ASSUME Init PROVE Inv
  OBVIOUS
<1>1. Main # Nothing => Main \in Calls
  BY DriverAssumption
<1>2. TypeOK
  BY DEF Init, TypeOK, States
<1>3. /\ \A c : ~InQueue(c) /\ ~Accepted(c) /\ ~Started(c)
      /\ Distinct(queue)
  <2>1. Len(queue) = 0 /\ Len(accepted) = 0 /\ Len(started) = 0
    BY DEF Init
  <2> QED  BY <2>1 DEF InQueue, Accepted, Started, Distinct
<1>4. /\ \A w \in Work : state[w] = IF w = Main THEN "pending" ELSE "new"
      /\ \A w \in Work : reply[w] = "none"
      /\ spawned = {} /\ stage = "run"
  BY DEF Init
<1>5. OverIsSettled /\ QueuedIsFound /\ NotNew
  BY <1>3, <1>4, WorkIsSplit DEF OverIsSettled, Settled, QueuedIsFound, NotNew
<1>6. AfterLoop /\ NoTaskInDrain /\ AfterDrain
  BY <1>4 DEF AfterLoop, NoTaskInDrain, AfterDrain
<1>7. HonestReply
  BY <1>4, WorkIsSplit DEF HonestReply
<1> QED  BY <1>2, <1>5, <1>6, <1>7 DEF Inv

\* Each step keeps the invariant.
LEMMA NextKeepsInv == Inv /\ [Next]_vars => Inv'
<1> SUFFICES ASSUME Inv, [Next]_vars PROVE Inv'
  OBVIOUS
<1>1. CASE \E c \in Calls : Submit(c) \/ Resume(c)
  BY <1>1, SubmitKeepsInv, ResumeKeepsInv
<1>2. CASE \E k \in Tasks : Spawn(k) \/ EndTask(k)
  BY <1>2, SpawnKeepsInv, EndTaskKeepsInv
<1>3. CASE (\E k \in Tasks : Abort(k)) \/ RequestShutdown \/ Crash
  BY <1>3, FlagsKeepInv
<1>4. CASE StartCall \/ AdoptSpawned
  BY <1>4, StartCallKeepsInv, AdoptKeepsInv
<1>5. CASE LeaveLoop \/ Drained \/ GraceOver \/ Unwind
  BY <1>5, LeaveLoopKeepsInv, DrainedKeepsInv, GraceOverKeepsInv, UnwindKeepsInv
<1>6. CASE UNCHANGED vars
  <2>1. TypeOK' /\ OverIsSettled' /\ QueuedIsFound' /\ NotNew'
    BY <1>6, SameQueue, SameHistory DEF Inv, vars, TypeOK, OverIsSettled, Settled, QueuedIsFound, NotNew
  <2>2. AfterLoop' /\ NoTaskInDrain' /\ AfterDrain' /\ HonestReply'
    BY <1>6 DEF Inv, vars, AfterLoop, NoTaskInDrain, AfterDrain, HonestReply
  <2> QED  BY <2>1, <2>2 DEF Inv
<1> QED  BY <1>1, <1>2, <1>3, <1>4, <1>5, <1>6 DEF Next

\* The inductive invariant holds in every behaviour of the driver.
THEOREM DriverInvariant == Spec => []Inv
BY InitInv, NextKeepsInv, PTL DEF Spec

\* Whatever calls and tasks a driver is given, its variables keep their types.
THEOREM DriverTypes == Spec => []TypeOK
<1>1. Inv => TypeOK
  BY DEF Inv
<1> QED  BY <1>1, DriverInvariant, PTL

\* The answer a caller sees is the truth about its call or task.
THEOREM AnswersAreHonest == Spec => []HonestReply
<1>1. Inv => HonestReply
  BY DEF Inv
<1> QED  BY <1>1, DriverInvariant, PTL

\* A shard that is down or dead has answered everything it was ever given.
THEOREM NothingIsLeft == Spec => []NothingLeftBehind
<1>1. Inv => NothingLeftBehind
  BY DEF Inv, AfterLoop, AfterDrain, OverIsSettled, NothingLeftBehind
<1> QED  BY <1>1, DriverInvariant, PTL

\* No local task lives through to the drain, where nothing would poll it.
THEOREM DrainHasNoTask == Spec => []NoTaskInDrain
<1>1. Inv => NoTaskInDrain
  BY DEF Inv
<1> QED  BY <1>1, DriverInvariant, PTL
-------------------------------------------------------------------------------
(* The refinement: the loop keeps the promise of Mailbox, fairness aside.    *)

\* What has been accepted is what was started, then what is queued, each in its
\* order, until a dying driver forgets its queue.
Ledger ==
  stage # "dead" =>
    /\ Len(accepted) = Len(started) + Len(queue)
    /\ \A i \in 1..Len(started) : accepted[i] = started[i]
    /\ \A i \in 1..Len(queue) : accepted[Len(started) + i] = queue[i]

\* The queue takes commands only while the loop runs and tasks can be spawned.
OpenRuns ==
  /\ open => spawnable /\ stage # "dead"
  /\ stage = "run" => spawnable

\* The main future never passes through the queue.
MainApart ==
  /\ Main \in Calls => state[Main] \in {"pending", "over"}
  /\ ~Accepted(Main)

Books == Ledger /\ OpenRuns /\ MainApart

PromiseStep == [Promise!Next]_(Promise!vars)

Answered == {c \in Calls \ {Main} : Settled(c)}

\* What a command that leaves the queue makes of the ledger.
LEMMA HeadIsNext ==
  ASSUME TypeOK, Ledger, stage # "dead", queue # <<>>
  PROVE  /\ Len(started) \in Nat /\ Len(started) < Len(accepted)
         /\ accepted[Len(started) + 1] = Head(queue)
         /\ Len(Append(started, Head(queue))) = Len(started) + 1
<1>1. /\ queue \in Seq(Calls) /\ started \in Seq(Calls) /\ Len(queue) \in Nat /\ Len(started) \in Nat
      /\ Len(queue) > 0 /\ Head(queue) = queue[1] /\ Head(queue) \in Calls
  BY DEF TypeOK
<1>2. 1 \in 1..Len(queue)
  BY <1>1
<1> QED  BY <1>1, <1>2 DEF Ledger

\* What is started or queued was accepted, where the ledger says.
LEMMA WorkWasAccepted ==
  ASSUME TypeOK, Ledger, stage # "dead"
  PROVE  /\ \A c : Started(c) => \E i \in 1..Len(started) : i \in 1..Len(accepted) /\ accepted[i] = c
         /\ \A c : Started(c) \/ InQueue(c) => Accepted(c)
<1>1. Len(queue) \in Nat /\ Len(started) \in Nat /\ Len(accepted) = Len(started) + Len(queue)
  BY DEF TypeOK, Ledger
<1>2. \A i \in 1..Len(started) : i \in 1..Len(accepted)
  BY <1>1
<1>3. \A i \in 1..Len(queue) : Len(started) + i \in 1..Len(accepted)
  BY <1>1
<1> QED  BY <1>2, <1>3 DEF Ledger, Started, InQueue, Accepted

\* Submitting adds to the end of the queue and of the ledger.
LEMMA SubmitKeepsBooks ==
  ASSUME Inv, Books, NEW c \in Calls, Submit(c)
  PROVE  Books'
<1>1. c # Main /\ c \in Work
  BY WorkIsSplit DEF Books, MainApart, Submit
<1>2. UNCHANGED <<open, spawnable, stage, started>> /\ queue \in Seq(Calls) /\ accepted \in Seq(Calls)
  BY DEF Submit, Inv, TypeOK
<1>3. OpenRuns'
  BY <1>2 DEF Books, OpenRuns
<1>4. CASE open
  <2>1. /\ queue' = Append(queue, c) /\ accepted' = Append(accepted, c)
        /\ state' = [state EXCEPT ![c] = "queued"]
    BY <1>4 DEF Submit
  <2>2. /\ Len(queue') = Len(queue) + 1 /\ Len(queue) \in Nat
        /\ queue'[Len(queue) + 1] = c
        /\ \A i \in 1..Len(queue) : queue'[i] = queue[i]
    BY <1>2, <2>1
  <2>3. /\ Len(accepted') = Len(accepted) + 1 /\ Len(accepted) \in Nat
        /\ accepted'[Len(accepted) + 1] = c
        /\ \A i \in 1..Len(accepted) : accepted'[i] = accepted[i]
    BY <1>2, <2>1
  <2>4. Ledger'
    <3> SUFFICES ASSUME stage # "dead" PROVE Ledger'
      BY <1>2 DEF Ledger
    <3>1. Len(started) \in Nat /\ Len(accepted) = Len(started) + Len(queue)
      BY DEF Inv, TypeOK, Books, Ledger
    <3>2. Len(accepted') = Len(started) + Len(queue')
      BY <2>2, <2>3, <3>1
    <3>3. ASSUME NEW i \in 1..Len(started) PROVE accepted'[i] = started[i]
      <4>1. i \in 1..Len(accepted)
        BY <2>2, <3>1
      <4> QED  BY <2>3, <4>1 DEF Books, Ledger
    <3>4. ASSUME NEW i \in 1..Len(queue') PROVE accepted'[Len(started) + i] = queue'[i]
      <4>1. CASE i = Len(queue) + 1
        BY <2>2, <2>3, <3>1, <4>1
      <4>2. CASE i \in 1..Len(queue)
        <5>1. Len(started) + i \in 1..Len(accepted)
          BY <2>2, <3>1, <4>2
        <5> QED  BY <2>2, <2>3, <4>2, <5>1 DEF Books, Ledger
      <4> QED  BY <2>2, <4>1, <4>2
    <3> QED  BY <1>2, <3>2, <3>3, <3>4 DEF Ledger
  <2>5. MainApart'
    <3>1. Main \in Calls => state'[Main] = state[Main]
      BY <1>1, <2>1 DEF Inv, TypeOK, Work
    <3>2. \A d : Accepted(d)' => d = c \/ Accepted(d)
      BY <1>2, <2>1, AppendHas DEF Accepted
    <3> QED  BY <1>1, <3>1, <3>2 DEF Books, MainApart
  <2> QED  BY <1>3, <2>4, <2>5 DEF Books
<1>5. CASE ~open
  <2>1. /\ Settle(c, "Closed") /\ UNCHANGED <<queue, accepted>>
    BY <1>5 DEF Submit
  <2>2. Main \in Calls => state'[Main] = state[Main]
    BY <1>1, <2>1, WorkIsSplit, SettleEffect DEF Inv, Replies
  <2>3. Ledger' /\ MainApart'
    BY <1>2, <2>1, <2>2 DEF Books, Ledger, MainApart, Accepted
  <2> QED  BY <1>3, <2>3 DEF Books
<1> QED  BY <1>4, <1>5

\* Starting moves the head of the queue over.
LEMMA StartKeepsBooks ==
  ASSUME Inv, Books, StartCall
  PROVE  Books'
<1> DEFINE c == Head(queue)
<1>1. /\ stage = "run" /\ queue # <<>> /\ queue' = Tail(queue)
      /\ started' = Append(started, c)
      /\ UNCHANGED <<open, spawnable, stage, accepted>>
  BY DEF StartCall
<1>2. /\ Len(started) \in Nat /\ accepted[Len(started) + 1] = c
      /\ Len(started') = Len(started) + 1
  BY <1>1, HeadIsNext DEF Inv, Books
<1>3. /\ queue \in Seq(Calls) /\ started \in Seq(Calls) /\ c \in Calls
      /\ Len(queue) \in Nat /\ Len(queue) > 0 /\ c = queue[1]
  BY <1>1 DEF Inv, TypeOK
<1>4. c # Main
  <2>1. InQueue(c)
    BY <1>3 DEF InQueue
  <2>2. state[c] = "queued"
    BY <1>3, <2>1 DEF Inv, QueuedIsFound
  <2> QED  BY <1>3, <2>2 DEF Books, MainApart
<1>5. \A d \in Work : d # c => state'[d] = state[d]
  BY DEF StartCall, Settle, Inv, TypeOK
<1>6. Ledger'
  <2>1. /\ Len(accepted) = Len(started) + Len(queue)
        /\ \A i \in 1..Len(started) : accepted[i] = started[i]
        /\ \A i \in 1..Len(queue) : accepted[Len(started) + i] = queue[i]
    BY <1>1 DEF Books, Ledger
  <2>2. /\ Len(queue') = Len(queue) - 1
        /\ \A i \in 1..(Len(queue) - 1) : queue'[i] = queue[i + 1]
    BY <1>1, <1>3
  <2>3. /\ started'[Len(started) + 1] = c
        /\ \A i \in 1..Len(started) : started'[i] = started[i]
    BY <1>1, <1>3
  <2>4. \A i \in 1..Len(started') : accepted[i] = started'[i]
    <3>1. \A i \in 1..(Len(started) + 1) : i \in 1..Len(started) \/ i = Len(started) + 1
      BY <1>2
    <3> QED  BY <1>2, <2>1, <2>3, <3>1
  <2>5. ASSUME NEW i \in 1..Len(queue') PROVE accepted[Len(started') + i] = queue'[i]
    <3>1. i + 1 \in 1..Len(queue) /\ Len(started') + i = Len(started) + (i + 1)
      BY <1>2, <1>3, <2>2
    <3>2. queue'[i] = queue[i + 1]
      BY <2>2
    <3> QED  BY <2>1, <3>1, <3>2
  <2>6. Len(accepted) = Len(started') + Len(queue')
    BY <1>2, <1>3, <2>1, <2>2
  <2> QED  BY <1>1, <2>4, <2>5, <2>6 DEF Ledger
<1>7. OpenRuns' /\ MainApart'
  BY <1>1, <1>4, <1>5 DEF Books, OpenRuns, MainApart, Accepted, Work
<1> QED  BY <1>6, <1>7 DEF Books

\* No other step touches the ledger, and Main only ends.
LEMMA OthersKeepBooks ==
  ASSUME Inv, Books, UNCHANGED <<accepted, started>>,
         queue' = queue \/ stage' = "dead",
         stage = "dead" => stage' = "dead",
         open' => open, open' => spawnable' /\ stage' # "dead", stage' = "run" => spawnable',
         Main \in Calls => state'[Main] \in {state[Main], "over"}
  PROVE  Books'
<1>1. Ledger'
  BY DEF Books, Ledger
<1>2. OpenRuns' /\ MainApart'
  BY DEF Books, OpenRuns, MainApart, Accepted
<1> QED  BY <1>1, <1>2 DEF Books

\* The abstract state, case by case.
LEMMA StateIs ==
  /\ stage = "dead" => MailboxState = "dead"
  /\ stage # "dead" /\ ~spawnable => MailboxState = "stopped"
  /\ stage # "dead" /\ spawnable /\ open => MailboxState = "open"
  /\ stage # "dead" /\ spawnable /\ ~open => MailboxState = "closed"
BY DEF MailboxState

\* A step that accepts, starts, answers and closes nothing is a stutter.
LEMMA PromiseStutters ==
  ASSUME UNCHANGED <<accepted, started>>, Answered' = Answered, MailboxState' = MailboxState
  PROVE  PromiseStep
BY DEF PromiseStep, Promise!vars, Answered

\* Answering a call that was started, and nothing else.
LEMMA PromiseAnswers ==
  ASSUME Inv, Ledger, stage # "dead", UNCHANGED <<accepted, started>>, MailboxState' = MailboxState,
         NEW S \in SUBSET (Calls \ {Main}), \A c \in S : Started(c), Answered' = Answered \cup S
  PROVE  PromiseStep
<1>1. S \subseteq {accepted[i] : i \in 1..Len(started)}
  BY WorkWasAccepted DEF Inv
<1> QED  BY <1>1 DEF PromiseStep, Promise!Next, Promise!Answer, Answered

\* The calls answered by a settled future, ...
LEMMA SettleAnswers ==
  ASSUME Inv, NEW w \in Work, NEW r \in Replies, Settle(w, r)
  PROVE  Answered' = IF w \in Calls \ {Main} THEN Answered \cup {w} ELSE Answered
<1>1. \A v \in Work : reply'[v] = IF v = w THEN r ELSE reply[v]
  BY SettleEffect DEF Inv
<1>2. r # "none"
  BY DEF Replies
<1>3. \A c \in Calls : Settled(c)' <=> c = w \/ Settled(c)
  BY <1>1, <1>2, WorkIsSplit DEF Settled
<1> QED  BY <1>3 DEF Answered

\* ... and by those dropped unfinished.
LEMMA CancelAnswers ==
  ASSUME Inv, NEW S \in SUBSET Work, CancelAll(S)
  PROVE  Answered' = Answered \cup (S \cap (Calls \ {Main}))
<1>1. \A v \in Work : reply'[v] = IF v \in S THEN "Canceled" ELSE reply[v]
  BY CancelEffect DEF Inv
<1>2. \A c \in Calls : Settled(c)' <=> c \in S \/ Settled(c)
  BY <1>1, WorkIsSplit DEF Settled
<1> QED  BY <1>2 DEF Answered

\* A call is accepted, or refused and answered at once.
LEMMA SubmitPromised ==
  ASSUME Inv, Books, NEW c \in Calls, Submit(c)
  PROVE  PromiseStep
<1>1. /\ state[c] = "new" /\ c \in Work /\ c \in Calls \ {Main} /\ ~Accepted(c) /\ c \notin Answered
      /\ UNCHANGED <<open, spawnable, stage, started>>
  BY WorkIsSplit DEF Submit, Books, MainApart, Inv, NotNew, OverIsSettled, Answered
<1>2. MailboxState' = MailboxState
  BY <1>1 DEF MailboxState
<1>3. CASE open
  <2>1. MailboxState = "open"
    BY <1>3, StateIs DEF Books, OpenRuns
  <2>2. accepted' = Append(accepted, c) /\ UNCHANGED reply
    BY <1>3 DEF Submit
  <2>3. Answered' = Answered
    BY <2>2 DEF Answered, Settled
  <2>4. Promise!Accept(c)
    BY <1>1, <1>2, <2>1, <2>2, <2>3 DEF Promise!Accept, Promise!InSeq, Accepted, Answered
  <2> QED  BY <1>1, <2>4 DEF PromiseStep, Promise!Next
<1>4. CASE ~open
  <2>1. Settle(c, "Closed") /\ UNCHANGED accepted
    BY <1>4 DEF Submit
  <2>2. Answered' = Answered \cup {c}
    BY <1>1, <2>1, SettleAnswers DEF Replies
  <2>3. MailboxState # "open"
    BY <1>4, StateIs DEF Inv, TypeOK
  <2>4. Promise!Refuse(c)
    BY <1>1, <1>2, <2>1, <2>2, <2>3 DEF Promise!Refuse, Promise!InSeq, Accepted, Answered
  <2> QED  BY <1>1, <2>4 DEF PromiseStep, Promise!Next
<1> QED  BY <1>3, <1>4

\* The call that starts is the next one in the order of acceptance.
LEMMA StartPromised ==
  ASSUME Inv, Books, StartCall
  PROVE  PromiseStep
<1> DEFINE c == Head(queue)
<1>1. /\ stage = "run" /\ queue # <<>> /\ started' = Append(started, c)
      /\ UNCHANGED <<open, spawnable, stage, accepted>>
  BY DEF StartCall
<1>2. /\ Len(started) < Len(accepted) /\ accepted[Len(started) + 1] = c
      /\ Len(started') = Len(started) + 1
  BY <1>1, HeadIsNext DEF Inv, Books
<1>3. MailboxState \in {"open", "closed"} /\ MailboxState' = MailboxState
  <2>1. spawnable /\ stage # "dead"
    BY <1>1 DEF Books, OpenRuns
  <2>2. MailboxState' = MailboxState
    BY <1>1 DEF MailboxState
  <2> QED  BY <2>1, <2>2, StateIs
<1>4. c \in Calls /\ c \in Work /\ c # Main
  <2>1. c \in Calls /\ Accepted(c)
    <3>1. queue \in Seq(Calls) /\ Head(queue) \in Calls /\ Len(queue) \in Nat /\ Len(queue) > 0
          /\ Head(queue) = queue[1]
      BY <1>1 DEF Inv, TypeOK
    <3>2. InQueue(c)
      BY <3>1 DEF InQueue
    <3> QED  BY <1>1, <3>1, <3>2, WorkWasAccepted DEF Inv, Books
  <2> QED  BY <2>1, WorkIsSplit DEF Books, MainApart
<1>5. Answered' \in {Answered, Answered \cup {accepted[Len(started) + 1]}}
  <2>1. CASE UNCHANGED reply
    BY <2>1 DEF Answered, Settled
  <2>2. ASSUME NEW r \in {"Ok", "Panicked"}, Settle(c, r)
        PROVE  Answered' = Answered \cup {c}
    BY <1>4, <2>2, SettleAnswers DEF Replies
  <2>3. \/ \E r \in {"Ok", "Panicked"} : Settle(c, r)
        \/ UNCHANGED reply
    BY DEF StartCall
  <2> QED  BY <1>2, <2>1, <2>2, <2>3
<1>6. Promise!Start
  BY <1>1, <1>2, <1>3, <1>5 DEF Promise!Start, Answered
<1> QED  BY <1>6 DEF PromiseStep, Promise!Next

\* A call that resumes answers; the main future, which no one calls, closes.
LEMMA ResumePromised ==
  ASSUME Inv, Books, NEW c \in Calls, Resume(c)
  PROVE  PromiseStep
<1>1. PICK r \in {"Ok", "Panicked"} : Settle(c, r)
  BY DEF Resume
<1>2. /\ stage \in {"run", "drain"} /\ state[c] = "pending" /\ c \in Work /\ r \in Replies
      /\ open' = (open /\ c # Main) /\ UNCHANGED <<spawnable, stage, accepted, started>>
  BY WorkIsSplit DEF Resume, Replies
<1>3. Answered' = IF c \in Calls \ {Main} THEN Answered \cup {c} ELSE Answered
  BY <1>1, <1>2, SettleAnswers
<1>4. CASE c # Main
  <2>1. Started(c) /\ {c} \in SUBSET (Calls \ {Main}) /\ Answered' = Answered \cup {c}
    BY <1>2, <1>3, <1>4 DEF Inv, NotNew
  <2>2. open' = open
    BY <1>2, <1>4 DEF Inv, TypeOK
  <2>3. MailboxState' = MailboxState
    BY <1>2, <2>2 DEF MailboxState
  <2> QED  BY <1>2, <2>1, <2>3, PromiseAnswers DEF Books
<1>5. CASE c = Main
  <2>1. Answered' = Answered /\ open' = FALSE
    BY <1>2, <1>3, <1>5
  <2>2. CASE open
    <3>1. MailboxState = "open" /\ MailboxState' = "closed"
      BY <1>2, <2>1, <2>2 DEF MailboxState, Books, OpenRuns
    <3>2. Promise!Close
      BY <1>2, <2>1, <3>1 DEF Promise!Close, Answered
    <3> QED  BY <3>2 DEF PromiseStep, Promise!Next
  <2>3. CASE ~open
    <3>1. MailboxState' = MailboxState
      BY <1>2, <2>1, <2>3 DEF MailboxState
    <3> QED  BY <1>2, <2>1, <3>1, PromiseStutters
  <2> QED  BY <2>2, <2>3
<1> QED  BY <1>4, <1>5

\* What only the tasks and the flags of the driver do is of no concern to callers.
LEMMA TasksPromised ==
  ASSUME Inv, \/ \E k \in Tasks : Spawn(k) \/ Abort(k) \/ EndTask(k)
              \/ AdoptSpawned \/ Crash \/ Drained
  PROVE  PromiseStep
<1>1. /\ UNCHANGED <<open, spawnable, accepted, started>>
      /\ stage' = stage \/ (stage # "dead" /\ stage' # "dead")
  BY DEF Spawn, Abort, EndTask, AdoptSpawned, Crash, Drained
<1>2. MailboxState' = MailboxState
  BY <1>1 DEF MailboxState
<1>3. Answered' = Answered
  <2>1. ASSUME UNCHANGED reply PROVE Answered' = Answered
    BY <2>1 DEF Answered, Settled
  <2>2. ASSUME NEW k \in Tasks, NEW r \in Replies, Settle(k, r) PROVE Answered' = Answered
    BY <2>2, SettleAnswers, WorkIsSplit
  <2>3. ASSUME NEW k \in Tasks, Spawn(k) PROVE Answered' = Answered
    BY <2>1, <2>2, <2>3 DEF Spawn, Replies
  <2>4. ASSUME NEW k \in Tasks, EndTask(k) PROVE Answered' = Answered
    <3>1. PICK r \in {"Canceled", "Ok", "Panicked"} : Settle(k, r)
      BY <2>4 DEF EndTask
    <3> QED  BY <2>2, <3>1 DEF Replies
  <2>5. ASSUME (\E k \in Tasks : Abort(k)) \/ AdoptSpawned \/ Crash \/ Drained
        PROVE  Answered' = Answered
    BY <2>1, <2>5 DEF Abort, AdoptSpawned, Crash, Drained
  <2> QED  BY <2>3, <2>4, <2>5
<1> QED  BY <1>1, <1>2, <1>3, PromiseStutters

\* Closing the queue is Close, leaving the loop is Stop.
LEMMA ClosingPromised ==
  ASSUME Inv, Books, RequestShutdown \/ LeaveLoop
  PROVE  PromiseStep
<1>1. CASE RequestShutdown
  <2>1. /\ open /\ ~open' /\ UNCHANGED <<reply, spawnable, stage, accepted, started>>
    BY <1>1 DEF RequestShutdown
  <2>2. MailboxState = "open" /\ MailboxState' = "closed" /\ Answered' = Answered
    BY <2>1 DEF MailboxState, Books, OpenRuns, Answered, Settled
  <2>3. Promise!Close
    BY <2>1, <2>2 DEF Promise!Close, Answered
  <2> QED  BY <2>3 DEF PromiseStep, Promise!Next
<1>2. CASE LeaveLoop
  <2> DEFINE S == spawned \cup Pending(Tasks)
  <2>1. /\ stage = "run" /\ ~open /\ queue = <<>> /\ stage' \in {"drain", "dying"}
        /\ spawnable' = FALSE /\ CancelAll(S) /\ UNCHANGED <<accepted, started>>
    BY <1>2 DEF LeaveLoop
  <2>2. S \in SUBSET Work /\ S \cap Calls = {}
    BY WorkIsSplit DEF Inv, TypeOK, Pending
  <2> HIDE DEF S
  <2>3. Answered' = Answered
    BY <2>1, <2>2, CancelAnswers
  <2>4. MailboxState = "closed" /\ MailboxState' = "stopped"
    BY <2>1 DEF MailboxState, Books, OpenRuns
  <2>5. Len(started) = Len(accepted)
    <3>1. Len(queue) = 0 /\ Len(started) \in Nat
      BY <2>1 DEF Inv, TypeOK
    <3> QED  BY <2>1, <3>1 DEF Books, Ledger
  <2>6. Promise!Stop
    BY <2>1, <2>3, <2>4, <2>5 DEF Promise!Stop, Answered
  <2> QED  BY <2>6 DEF PromiseStep, Promise!Next
<1> QED  BY <1>1, <1>2

\* What the grace period drops had been started, ...
LEMMA GraceOverPromised ==
  ASSUME Inv, Books, GraceOver
  PROVE  PromiseStep
<1> DEFINE S == Pending(Calls)
<1>1. /\ stage = "drain" /\ CancelAll(S) /\ stage' \in {"down", "dying"}
      /\ UNCHANGED <<open, spawnable, accepted, started>>
  BY DEF GraceOver
<1>2. /\ S \in SUBSET Work /\ S \cap (Calls \ {Main}) \in SUBSET (Calls \ {Main})
      /\ \A c \in S \cap (Calls \ {Main}) : Started(c)
  BY WorkIsSplit DEF Pending, Inv, NotNew
<1> HIDE DEF S
<1>3. Answered' = Answered \cup (S \cap (Calls \ {Main}))
  BY <1>1, <1>2, CancelAnswers
<1>4. MailboxState' = MailboxState
  BY <1>1 DEF MailboxState
<1> QED  BY <1>1, <1>2, <1>3, <1>4, PromiseAnswers DEF Books

\* ... and the driver that unwinds answers all it had accepted.
LEMMA UnwindPromised ==
  ASSUME Inv, Books, Unwind
  PROVE  PromiseStep
<1> DEFINE S == {w \in Work : state[w] \in {"queued", "pending"}}
           A == {accepted[i] : i \in 1..Len(accepted)}
<1>1. /\ stage = "dying" /\ CancelAll(S) /\ stage' = "dead"
      /\ UNCHANGED <<accepted, started>>
  BY DEF Unwind
<1>2. S \in SUBSET Work
  OBVIOUS
<1>3. Answered' = Answered \cup (S \cap (Calls \ {Main}))
  BY <1>1, <1>2, CancelAnswers
<1>4. ASSUME NEW c \in S \cap (Calls \ {Main}) PROVE c \in A
  <2>1. Started(c) \/ InQueue(c)
    BY DEF Inv, NotNew, QueuedIsFound
  <2>2. Accepted(c)
    BY <1>1, <2>1, WorkWasAccepted DEF Inv, Books
  <2> QED  BY <2>2 DEF Accepted
<1>5. ASSUME NEW c \in A PROVE c \in Answered \cup (S \cap (Calls \ {Main}))
  <2>1. Accepted(c) /\ c \in Calls
    BY <1>5 DEF Accepted, Inv, TypeOK
  <2>2. c # Main /\ c \in Work /\ state[c] \in {"queued", "pending", "over"}
    BY <2>1, WorkIsSplit DEF Books, MainApart, Inv, NotNew, TypeOK, States
  <2> QED  BY <2>1, <2>2 DEF Inv, OverIsSettled, Answered
<1>6. Answered' = Answered \cup A
  BY <1>3, <1>4, <1>5
<1>7. MailboxState # "dead" /\ MailboxState' = "dead"
  BY <1>1 DEF MailboxState, Inv, TypeOK
<1>8. Promise!Die
  BY <1>1, <1>6, <1>7 DEF Promise!Die, Answered
<1> QED  BY <1>8 DEF PromiseStep, Promise!Next

-------------------------------------------------------------------------------
\* The books are in order at first, and nothing is promised yet.
LEMMA InitPromised == Init => Books /\ Promise!Init
<1> SUFFICES ASSUME Init PROVE Books /\ Promise!Init
  OBVIOUS
<1>1. /\ Len(queue) = 0 /\ Len(accepted) = 0 /\ Len(started) = 0
      /\ open = TRUE /\ spawnable = TRUE /\ stage = "run" /\ accepted = <<>>
  BY DEF Init
<1>2. Ledger /\ OpenRuns
  BY <1>1 DEF Ledger, OpenRuns
<1>3. MainApart
  BY <1>1, WorkIsSplit DEF Init, MainApart, Accepted
<1>4. MailboxState = "open"
  BY <1>1, StateIs
<1>5. Answered = {}
  BY WorkIsSplit DEF Init, Answered, Settled
<1> QED  BY <1>1, <1>2, <1>3, <1>4, <1>5 DEF Books, Promise!Init, Answered

\* Every step keeps the books.
LEMMA NextKeepsBooks == Inv /\ Books /\ [Next]_vars => Books'
<1> SUFFICES ASSUME Inv, Books, [Next]_vars PROVE Books'
  OBVIOUS
<1>1. CASE (\E c \in Calls : Submit(c)) \/ StartCall
  BY <1>1, SubmitKeepsBooks, StartKeepsBooks
<1>2. ASSUME NEW c \in Calls, Resume(c) PROVE Books'
  <2>1. /\ open' = (open /\ c # Main) /\ stage \in {"run", "drain"}
        /\ UNCHANGED <<queue, spawnable, stage, accepted, started>>
    BY <1>2 DEF Resume
  <2>2. Main \in Calls => state'[Main] \in {state[Main], "over"}
    BY <1>2 DEF Resume, Settle, Inv, TypeOK, Work
  <2>3. open' => open /\ spawnable' /\ stage' # "dead"
    BY <2>1 DEF Books, OpenRuns
  <2> QED  BY <2>1, <2>2, <2>3, OthersKeepBooks DEF Books, OpenRuns
<1>3. CASE \/ \E k \in Tasks : Spawn(k) \/ Abort(k) \/ EndTask(k)
           \/ AdoptSpawned \/ RequestShutdown \/ Crash \/ Drained
  <2>1. /\ open' = open \/ open' = FALSE
        /\ stage' = stage \/ (stage = "run" /\ stage' = "dying") \/ (stage = "drain" /\ stage' \in {"down", "dying"})
        /\ UNCHANGED <<queue, spawnable, accepted, started>>
    BY <1>3 DEF Spawn, Abort, EndTask, AdoptSpawned, RequestShutdown, Crash, Drained
  <2>2. \A c \in Calls : state'[c] = state[c]
    <3>1. ASSUME NEW k \in Tasks, Spawn(k) \/ Abort(k) \/ EndTask(k), NEW c \in Calls
          PROVE  state'[c] = state[c]
      BY <3>1, WorkIsSplit DEF Spawn, Abort, EndTask, Settle, Inv, TypeOK
    <3>2. ASSUME AdoptSpawned, NEW c \in Calls PROVE state'[c] = state[c]
      BY <3>2, WorkIsSplit DEF AdoptSpawned, Inv, TypeOK
    <3>3. ASSUME RequestShutdown \/ Crash \/ Drained PROVE UNCHANGED state
      BY <3>3 DEF RequestShutdown, Crash, Drained
    <3> QED  BY <1>3, <3>1, <3>2, <3>3
  <2>3. /\ open' => open /\ spawnable' /\ stage' # "dead"
        /\ stage' = "run" => spawnable'
        /\ stage = "dead" => stage' = "dead"
    BY <2>1 DEF Books, OpenRuns
  <2> QED  BY <2>1, <2>2, <2>3, OthersKeepBooks
<1>4. CASE LeaveLoop \/ GraceOver \/ Unwind
  <2>1. /\ ~open' /\ UNCHANGED <<accepted, started>>
        /\ queue' = queue \/ stage' = "dead"
        /\ stage # "dead" /\ stage' # "run"
    BY <1>4 DEF LeaveLoop, GraceOver, Unwind, Inv, AfterLoop
  <2>2. Main \in Calls => state'[Main] \in {state[Main], "over"}
    BY <1>4, WorkIsSplit DEF LeaveLoop, GraceOver, Unwind, CancelAll
  <2> QED  BY <2>1, <2>2, OthersKeepBooks
<1>5. CASE UNCHANGED vars
  BY <1>5 DEF vars, Books, Ledger, OpenRuns, MainApart, Accepted
<1> QED  BY <1>1, <1>2, <1>3, <1>4, <1>5 DEF Next

\* Every step is one the promise allows, or of no concern to it.
LEMMA NextPromised == Inv /\ Books /\ [Next]_vars => PromiseStep
<1> SUFFICES ASSUME Inv, Books, [Next]_vars PROVE PromiseStep
  OBVIOUS
<1>1. CASE \E c \in Calls : Submit(c) \/ Resume(c)
  BY <1>1, SubmitPromised, ResumePromised
<1>2. CASE \/ \E k \in Tasks : Spawn(k) \/ Abort(k) \/ EndTask(k)
           \/ AdoptSpawned \/ Crash \/ Drained
  BY <1>2, TasksPromised
<1>3. CASE StartCall \/ RequestShutdown \/ LeaveLoop \/ GraceOver \/ Unwind
  BY <1>3, StartPromised, ClosingPromised, GraceOverPromised, UnwindPromised
<1>4. CASE UNCHANGED vars
  BY <1>4, PromiseStutters DEF vars, Answered, Settled, MailboxState
<1> QED  BY <1>1, <1>2, <1>3, <1>4 DEF Next

\* The driver, whatever its calls and tasks, does only what Mailbox promises:
\* calls start in the order of their acceptance, the shard stops when all of
\* them have, and each call is answered at a time the promise allows.
THEOREM DriverKeepsPromise == Spec => Promise!Init /\ [][Promise!Next]_(Promise!vars)
<1>1. Inv /\ Books /\ [Next]_vars => [Promise!Next]_(Promise!vars)
  BY NextPromised DEF PromiseStep
<1>2. Spec => []Books
  BY DriverInvariant, InitPromised, NextKeepsBooks, PTL DEF Spec
<1> QED  BY <1>1, <1>2, DriverInvariant, InitPromised, PTL DEF Spec
===============================================================================
