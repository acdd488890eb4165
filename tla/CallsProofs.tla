------------------------------ MODULE CallsProofs ------------------------------
(***************************************************************************)
(* The safety of Calls for any number of shards, values and calls: where   *)
(* callbacks run, that their values stay, what their callers are told.     *)
(*                                                                         *)
(* The invariant says of each call what its state implies for its tokens,  *)
(* borrows, values, answer and awaiting (CallOK); of each handle, that its *)
(* values share a shard and are stored as long as that has its store; and  *)
(* that a queue lists queued calls, each once: the driver takes a call     *)
(* from the front and must not meet it again.                              *)
(***************************************************************************)
EXTENDS Calls, SequenceTheorems, TLAPS

Active(c) == state[c] \in {"queued", "running"}

\* Accepted and not over: on the shard of its values, with its tokens.
ActiveOK(c) ==
  /\ at[c] \in Shards /\ stage[at[c]] # "down"
  /\ \A v \in target[c] : Owner[v] = at[c]
  /\ held[c] = IF strong[c] THEN target[c] ELSE {}
  /\ strong[c] => target[c] \subseteq values

CallOK(c) ==
  /\ Active(c) => ActiveOK(c)
  /\ state[c] = "queued" => borrowed[c] = {}
  /\ state[c] = "running" => borrowed[c] = target[c] /\ target[c] \subseteq values
  /\ ~Active(c) => held[c] = {} /\ borrowed[c] = {}
  /\ state[c] = "new" \/ Active(c) => outcome[c] = "none"
  /\ awaits[c] # Nowhere => state[c] \in {"running", "finished"}
  /\ state[c] = "finished" /\ outcome[c] = "Missing" =>
       ~strong[c] /\ ~(target[c] \subseteq values)

HandlesOK ==
  \A g \in handles : \A v \in g :
     /\ \A w \in g : Owner[w] = Owner[v]
     /\ v \in values \/ stage[Owner[v]] = "down"

QueueOK(s) ==
  /\ \A i \in 1..Len(queue[s]) : state[queue[s][i]] = "queued" /\ at[queue[s][i]] = s
  /\ \A i, j \in 1..Len(queue[s]) : queue[s][i] = queue[s][j] => i = j

DownOK == \A s \in Shards : stage[s] = "down" => ~open[s]

CInv ==
  /\ TypeOK
  /\ \A c \in CallIds : CallOK(c)
  /\ HandlesOK
  /\ \A s \in Shards : QueueOK(s)
  /\ DownOK

-------------------------------------------------------------------------------
(* Facts about data.                                                         *)

\* A group has a first handle.
LEMMA FirstIn == \A g \in Groups : First(g) \in g /\ g \subseteq Values /\ g # {}
<1> TAKE g \in Groups
<1>1. g \subseteq Values /\ g # {}
  BY DEF Groups
<1>2. \E v : v \in g
  BY <1>1
<1>3. First(g) \in g
  BY <1>2 DEF First
<1> QED  BY <1>1, <1>3

\* A queue that lists each call once still does with a new one at its end, ...
LEMMA AppendOnce ==
  ASSUME NEW S, NEW q \in Seq(S), NEW e \in S,
         \A i \in 1..Len(q) : q[i] # e,
         \A i, j \in 1..Len(q) : q[i] = q[j] => i = j
  PROVE  /\ Append(q, e) \in Seq(S)
         /\ \A i \in 1..Len(Append(q, e)) : Append(q, e)[i] = e \/ \E n \in 1..Len(q) : Append(q, e)[i] = q[n]
         /\ \A i, j \in 1..Len(Append(q, e)) : Append(q, e)[i] = Append(q, e)[j] => i = j
OBVIOUS

\* ... and without its first, which it then does not list.
LEMMA TailOnce ==
  ASSUME NEW S, NEW q \in Seq(S), q # <<>>,
         \A i, j \in 1..Len(q) : q[i] = q[j] => i = j
  PROVE  /\ Head(q) \in S /\ Tail(q) \in Seq(S) /\ 1 \in 1..Len(q) /\ q[1] = Head(q)
         /\ \A i \in 1..Len(Tail(q)) : Tail(q)[i] # Head(q) /\ \E n \in 1..Len(q) : Tail(q)[i] = q[n]
         /\ \A i, j \in 1..Len(Tail(q)) : Tail(q)[i] = Tail(q)[j] => i = j
<1>1. Len(q) \in Nat /\ Len(q) > 0
  OBVIOUS
<1>2. Head(q) = q[1] /\ Len(Tail(q)) = Len(q) - 1 /\ Tail(q) \in Seq(S)
  OBVIOUS
<1>3. \A i \in 1..Len(Tail(q)) : Tail(q)[i] = q[i + 1] /\ i + 1 \in 1..Len(q)
  BY <1>1, <1>2
<1> QED  BY <1>1, <1>2, <1>3

-------------------------------------------------------------------------------
(* Initially.                                                                *)

\* Nothing has been sent.
LEMMA InitCInv == Init => CInv
<1> SUFFICES ASSUME Init PROVE CInv
  OBVIOUS
<1>1. TypeOK
  BY DEF Init, TypeOK, States, Modes, Groups
<1>2. ASSUME NEW c \in CallIds PROVE CallOK(c)
  <2>1. state[c] = "new" /\ held[c] = {} /\ borrowed[c] = {} /\ awaits[c] = Nowhere /\ outcome[c] = "none"
    BY DEF Init
  <2> QED  BY <2>1 DEF CallOK, Active
<1>3. ASSUME NEW s \in Shards PROVE QueueOK(s)
  <2>1. Len(queue[s]) = 0
    BY DEF Init
  <2> QED  BY <2>1 DEF QueueOK
<1>4. HandlesOK
  <2>1. handles = {}
    BY DEF Init
  <2> QED  BY <2>1, Zenon DEF HandlesOK
<1>5. DownOK
  BY DEF Init, DownOK
<1> QED  BY <1>1, <1>2, <1>3, <1>4, <1>5 DEF CInv

-------------------------------------------------------------------------------
(* Handles, and the steps that leave the calls alone.                        *)

\* New and dropped handles.
LEMMA SameCalls ==
  ASSUME CInv, UNCHANGED <<values, shards, state, call, uses, awaits, outcome>>,
         handles' \subseteq Groups, HandlesOK'
  PROVE  CInv'
<1>1. TypeOK'
  BY DEF CInv, TypeOK, shards, call, uses
<1>2. ASSUME NEW c \in CallIds PROVE CallOK(c)'
  BY DEF CInv, CallOK, Active, ActiveOK, shards, call, uses
<1>3. ASSUME NEW s \in Shards PROVE QueueOK(s)'
  BY DEF CInv, QueueOK, shards, call
<1>4. DownOK'
  BY DEF CInv, DownOK, shards
<1> QED  BY <1>1, <1>2, <1>3, <1>4 DEF CInv

\* A new handle is a group of one stored value.
LEMMA MakeHandleKeeps ==
  ASSUME CInv, NEW v \in Values, MakeHandle(v)
  PROVE  CInv'
<1>1. UNCHANGED <<values, shards, state, call, uses, awaits, outcome>> /\ handles' = handles \cup {{v}} /\ v \in values
  BY DEF MakeHandle
<1>2. handles' \subseteq Groups
  BY <1>1 DEF CInv, TypeOK, Groups
<1>3. HandlesOK'
  BY <1>1 DEF CInv, HandlesOK, shards
<1> QED  BY <1>1, <1>2, <1>3, SameCalls

\* The first handle speaks for its group: all of them are on its shard.
LEMMA JoinKeeps ==
  ASSUME CInv, NEW g \in handles, NEW v \in Values, Join(g, v)
  PROVE  CInv'
<1>1. UNCHANGED <<values, shards, state, call, uses, awaits, outcome>> /\ handles' = handles \cup {g \cup {v}}
      /\ {v} \in handles /\ Owner[First(g)] = Owner[v]
  BY DEF Join
<1>2. g \in Groups /\ First(g) \in g
  BY FirstIn DEF CInv, TypeOK
<1>3. handles' \subseteq Groups
  BY <1>1, <1>2 DEF CInv, TypeOK, Groups
<1>4. ASSUME NEW h \in handles', NEW u \in h
      PROVE  (\A w \in h : Owner[w] = Owner[u]) /\ (u \in values \/ stage[Owner[u]] = "down")
  <2>1. CASE h \in handles
    BY <2>1 DEF CInv, HandlesOK
  <2>2. CASE h = g \cup {v}
    <3>1. \A w \in g : Owner[w] = Owner[v]
      BY <1>1, <1>2 DEF CInv, HandlesOK
    <3>2. \A w \in h : Owner[w] = Owner[v]
      BY <2>2, <3>1
    <3>3. u \in values \/ stage[Owner[u]] = "down"
      BY <1>1, <2>2 DEF CInv, HandlesOK
    <3> QED  BY <3>2, <3>3
  <2> QED  BY <1>1, <2>1, <2>2
<1>5. HandlesOK'
  BY <1>1, <1>4 DEF HandlesOK, shards
<1> QED  BY <1>1, <1>3, <1>5, SameCalls

\* A handle dropped leaves the others as they are.
LEMMA DropHandleKeeps ==
  ASSUME CInv, NEW g \in handles, DropHandle(g)
  PROVE  CInv'
<1>1. UNCHANGED <<values, shards, state, call, uses, awaits, outcome>> /\ handles' \subseteq handles
  BY DEF DropHandle
<1>2. handles' \subseteq Groups /\ HandlesOK'
  BY <1>1 DEF CInv, TypeOK, HandlesOK, shards
<1> QED  BY <1>1, <1>2, SameCalls

\* Nothing in use is collected.
LEMMA CollectKeeps ==
  ASSUME CInv, NEW v \in Values, Collect(v)
  PROVE  CInv'
<1>1. /\ values' = values \ {v} /\ ~Used(v)
      /\ UNCHANGED <<handles, open, stage, queue, state, at, target, strong, mode, held, borrowed, awaits, outcome>>
  BY DEF Collect, shards, call, uses
<1>2. TypeOK'
  BY <1>1 DEF CInv, TypeOK
<1>3. ASSUME NEW c \in CallIds PROVE CallOK(c)'
  <2>1. v \notin held[c] /\ v \notin borrowed[c]
    BY <1>1 DEF Used
  <2>2. CallOK(c)
    BY DEF CInv
  <2> QED  BY <1>1, <2>1, <2>2 DEF CallOK, Active, ActiveOK
<1>4. HandlesOK'
  BY <1>1 DEF CInv, HandlesOK, Used
<1>5. \A s \in Shards : QueueOK(s)'
  BY <1>1 DEF CInv, QueueOK
<1>6. DownOK'
  BY <1>1 DEF CInv, DownOK
<1> QED  BY <1>2, <1>3, <1>4, <1>5, <1>6 DEF CInv

\* A shard closes, or leaves its loop closed.
LEMMA ClosingKeeps ==
  ASSUME CInv, NEW s \in Shards, RequestShutdown(s) \/ Leave(s)
  PROVE  CInv'
<1>1. /\ UNCHANGED <<handles, values, queue, state, at, target, strong, mode, held, borrowed, awaits, outcome>>
      /\ \/ stage' = stage /\ open' = [open EXCEPT ![s] = FALSE]
         \/ stage' = [stage EXCEPT ![s] = "drain"] /\ stage[s] # "down" /\ open' = open
  BY DEF RequestShutdown, Leave, call, uses
<1>2. TypeOK'
  BY <1>1 DEF CInv, TypeOK
<1>3. \A r \in Shards : stage'[r] = "down" <=> stage[r] = "down"
  BY <1>1 DEF CInv, TypeOK
<1>4. ASSUME NEW c \in CallIds PROVE CallOK(c)'
  <2>1. CallOK(c)
    BY DEF CInv
  <2> QED  BY <1>1, <1>3, <2>1 DEF CallOK, Active, ActiveOK
<1>5. HandlesOK'
  <2>1. \A g \in handles : \A v \in g : Owner[v] \in Shards
    BY CallsAssumption DEF CInv, TypeOK, Groups
  <2> QED  BY <1>1, <1>3, <2>1 DEF CInv, HandlesOK
<1>6. \A r \in Shards : QueueOK(r)'
  BY <1>1 DEF CInv, QueueOK
<1>7. DownOK'
  BY <1>1, <1>3 DEF CInv, DownOK, TypeOK
<1> QED  BY <1>2, <1>4, <1>5, <1>6, <1>7 DEF CInv

-------------------------------------------------------------------------------
(* Submission.                                                               *)

\* What both outcomes of Send leave alone: who awaits whom, but for the one
\* that awaits the new call.
LEMMA AwaitingKept ==
  ASSUME CInv, NEW c \in CallIds, state[c] = "new",
         \/ UNCHANGED awaits
         \/ \E p \in CallIds : Suspended(p) /\ awaits' = [awaits EXCEPT ![p] = c]
  PROVE  /\ awaits' \in [CallIds -> CallIds \cup {Nowhere}]
         /\ awaits'[c] = Nowhere
         /\ \A d \in CallIds : awaits'[d] = awaits[d] \/ (state[d] = "running" /\ awaits'[d] = c)
<1>1. awaits[c] = Nowhere
  BY DEF CInv, CallOK
<1>2. \A d \in CallIds : awaits'[d] = awaits[d] \/ (state[d] = "running" /\ awaits'[d] = c)
  <2>1. ASSUME NEW p \in CallIds, Suspended(p), awaits' = [awaits EXCEPT ![p] = c], NEW d \in CallIds
        PROVE  awaits'[d] = awaits[d] \/ (state[d] = "running" /\ awaits'[d] = c)
    <3>1. state[p] = "running"
      BY <2>1 DEF Suspended
    <3>2. awaits \in [CallIds -> CallIds \cup {Nowhere}]
      BY DEF CInv, TypeOK
    <3> QED  BY <2>1, <3>1, <3>2
  <2> QED  BY <2>1
<1>3. awaits' \in [CallIds -> CallIds \cup {Nowhere}]
  BY DEF CInv, TypeOK
<1>4. awaits'[c] = Nowhere
  BY <1>1, <1>2
<1> QED  BY <1>2, <1>3, <1>4

\* A call goes to the shard of all its values, with a token of each if strong.
LEMMA SubmitKeeps ==
  ASSUME CInv, NEW c \in CallIds, NEW g \in Groups, NEW strg \in BOOLEAN,
         NEW m \in Modes, NEW s \in Shards, Submit(c, g, strg, m, s),
         \A v \in g : Owner[v] = Owner[First(g)],
         strg => g \in handles
  PROVE  CInv'
<1>1. /\ state[c] = "new" /\ Send(c, g, strg, m, s)
      /\ \/ UNCHANGED awaits
         \/ \E p \in CallIds : Suspended(p) /\ awaits' = [awaits EXCEPT ![p] = c]
      /\ UNCHANGED <<handles, values, open, stage, borrowed>>
  BY DEF Submit
<1>2. /\ ~Active(c) /\ held[c] = {} /\ borrowed[c] = {} /\ outcome[c] = "none"
  BY <1>1 DEF CInv, CallOK, Active
<1>3. g # {} /\ g \subseteq Values
  BY FirstIn
<1>4. CASE \E r \in {"WrongShard", "Closed"} : Refuse(c, r)
  <2>1. PICK r \in {"WrongShard", "Closed"} : Refuse(c, r)
    BY <1>4
  <2>2. /\ state' = [state EXCEPT ![c] = "over"] /\ outcome' = [outcome EXCEPT ![c] = r]
        /\ UNCHANGED <<queue, at, target, strong, mode, held>>
    BY <2>1 DEF Refuse, call
  <2>3. outcome' \in [CallIds -> Outcomes \cup {"none"}] /\ outcome'[c] = r
        /\ \A d \in CallIds \ {c} : outcome'[d] = outcome[d]
    BY <2>2 DEF CInv, TypeOK, Outcomes
  <2>4. /\ awaits' \in [CallIds -> CallIds \cup {Nowhere}]
        /\ awaits'[c] = Nowhere
        /\ \A d \in CallIds : awaits'[d] = awaits[d] \/ (state[d] = "running" /\ awaits'[d] = c)
    BY <1>1, AwaitingKept
  <2>5. TypeOK'
    BY <1>1, <2>2, <2>3, <2>4 DEF CInv, TypeOK, States
  <2>6. ASSUME NEW d \in CallIds PROVE CallOK(d)'
    <3>1. CallOK(d)
      BY DEF CInv
    <3>2. CASE d = c
      <4>1. state'[d] = "over"
        BY <2>2, <3>2 DEF CInv, TypeOK
      <4> QED  BY <1>1, <1>2, <2>2, <2>4, <3>2, <4>1 DEF CallOK, Active
    <3>3. CASE d # c
      <4>1. state'[d] = state[d] /\ outcome'[d] = outcome[d]
        BY <2>2, <2>3, <3>3 DEF CInv, TypeOK
      <4> QED  BY <1>1, <2>2, <2>4, <3>1, <4>1 DEF CallOK, Active, ActiveOK
    <3> QED  BY <3>2, <3>3
  <2>7. HandlesOK' /\ DownOK'
    BY <1>1, <2>2 DEF CInv, HandlesOK, DownOK
  <2>8. ASSUME NEW r0 \in Shards PROVE QueueOK(r0)'
    <3>1. QueueOK(r0) /\ queue[r0] \in Seq(CallIds)
      BY DEF CInv, TypeOK
    <3>2. \A i \in 1..Len(queue[r0]) : queue[r0][i] \in CallIds /\ queue[r0][i] # c
      BY <1>1, <3>1 DEF QueueOK
    <3> QED  BY <2>2, <3>1, <3>2 DEF QueueOK, CInv, TypeOK
  <2> QED  BY <2>4, <2>5, <2>6, <2>7, <2>8 DEF CInv
<1>5. CASE Owner[First(g)] = s /\ Accept(c, g, IF strg THEN g ELSE {}, m, s)
  <2>1. /\ open[s]
        /\ queue' = [queue EXCEPT ![s] = Append(@, c)]
        /\ state' = [state EXCEPT ![c] = "queued"]
        /\ at' = [at EXCEPT ![c] = s]
        /\ target' = [target EXCEPT ![c] = g]
        /\ strong' = [strong EXCEPT ![c] = strg]
        /\ mode' = [mode EXCEPT ![c] = m]
        /\ held' = [held EXCEPT ![c] = IF strg THEN g ELSE {}]
        /\ outcome' = outcome
    <3>1. ((IF strg THEN g ELSE {}) # {}) = strg
      BY <1>3
    <3> QED  BY <1>5, <3>1 DEF Accept
  <2>2. /\ awaits' \in [CallIds -> CallIds \cup {Nowhere}]
        /\ awaits'[c] = Nowhere
        /\ \A d \in CallIds : awaits'[d] = awaits[d] \/ (state[d] = "running" /\ awaits'[d] = c)
    BY <1>1, AwaitingKept
  <2>3. stage[s] # "down"
    BY <2>1 DEF CInv, DownOK
  <2>4. ASSUME NEW r \in Shards
        PROVE  queue'[r] \in Seq(CallIds) /\ QueueOK(r)'
    <3>1. QueueOK(r) /\ queue[r] \in Seq(CallIds)
      BY DEF CInv, TypeOK
    <3>2. \A i \in 1..Len(queue[r]) : queue[r][i] \in CallIds /\ queue[r][i] # c
      BY <1>1, <3>1 DEF QueueOK
    <3>3. CASE r = s
      <4>1. queue'[r] = Append(queue[r], c)
        BY <2>1, <3>3 DEF CInv, TypeOK
      <4>2. /\ queue'[r] \in Seq(CallIds)
            /\ \A i \in 1..Len(queue'[r]) : queue'[r][i] = c \/ \E n \in 1..Len(queue[r]) : queue'[r][i] = queue[r][n]
            /\ \A i, j \in 1..Len(queue'[r]) : queue'[r][i] = queue'[r][j] => i = j
        BY <3>1, <3>2, <4>1, AppendOnce DEF QueueOK
      <4>3. state'[c] = "queued" /\ at'[c] = r
        BY <2>1, <3>3 DEF CInv, TypeOK
      <4>4. \A n \in 1..Len(queue[r]) : state'[queue[r][n]] = "queued" /\ at'[queue[r][n]] = r
        BY <2>1, <3>1, <3>2 DEF QueueOK, CInv, TypeOK
      <4>5. \A i \in 1..Len(queue'[r]) : state'[queue'[r][i]] = "queued" /\ at'[queue'[r][i]] = r
        BY <4>2, <4>3, <4>4
      <4> QED  BY <4>2, <4>5 DEF QueueOK
    <3>4. CASE r # s
      <4>1. queue'[r] = queue[r]
        BY <2>1, <3>4 DEF CInv, TypeOK
      <4> QED  BY <2>1, <3>1, <3>2, <4>1 DEF QueueOK, CInv, TypeOK
    <3> QED  BY <3>3, <3>4
  <2>5. TypeOK'
    <3>1. queue' \in [Shards -> Seq(CallIds)]
      BY <2>1, <2>4 DEF CInv, TypeOK
    <3> QED  BY <1>1, <1>3, <2>1, <2>2, <3>1 DEF CInv, TypeOK, States
  <2>6. ASSUME NEW d \in CallIds PROVE CallOK(d)'
    <3>1. CallOK(d)
      BY DEF CInv
    <3>2. CASE d = c
      <4>1. /\ state'[c] = "queued" /\ at'[c] = s /\ target'[c] = g /\ strong'[c] = strg
            /\ held'[c] = IF strg THEN g ELSE {}
        BY <2>1 DEF CInv, TypeOK
      <4>2. strg => g \subseteq values
        BY <1>5, <2>3 DEF CInv, HandlesOK
      <4>3. ActiveOK(c)'
        BY <1>1, <1>5, <2>3, <4>1, <4>2 DEF ActiveOK
      <4> QED  BY <1>1, <1>2, <2>1, <2>2, <3>2, <4>1, <4>3 DEF CallOK, Active
    <3>3. CASE d # c
      <4>1. /\ state'[d] = state[d] /\ at'[d] = at[d] /\ target'[d] = target[d]
            /\ strong'[d] = strong[d] /\ held'[d] = held[d]
        BY <2>1, <3>3 DEF CInv, TypeOK
      <4> QED  BY <1>1, <2>1, <2>2, <3>1, <4>1 DEF CallOK, Active, ActiveOK
    <3> QED  BY <3>2, <3>3
  <2>7. HandlesOK' /\ DownOK'
    BY <1>1 DEF CInv, HandlesOK, DownOK
  <2> QED  BY <2>2, <2>4, <2>5, <2>6, <2>7 DEF CInv
<1> QED  BY <1>1, <1>4, <1>5 DEF Send

-------------------------------------------------------------------------------
(* The owner's thread.                                                       *)

\* The driver takes a call: it runs with its values, or is over with them
\* missing, which no strong call can be.
LEMMA StartKeeps ==
  ASSUME CInv, NEW s \in Shards, Start(s)
  PROVE  CInv'
<1> DEFINE c == Head(queue[s])
<1>1. queue[s] \in Seq(CallIds) /\ queue[s] # <<>> /\ QueueOK(s)
  BY DEF Start, CInv, TypeOK
<1>2. /\ c \in CallIds /\ Tail(queue[s]) \in Seq(CallIds)
      /\ state[c] = "queued" /\ at[c] = s
      /\ \A i \in 1..Len(Tail(queue[s])) :
            Tail(queue[s])[i] # c /\ \E n \in 1..Len(queue[s]) : Tail(queue[s])[i] = queue[s][n]
      /\ \A i, j \in 1..Len(Tail(queue[s])) : Tail(queue[s])[i] = Tail(queue[s])[j] => i = j
  BY <1>1, TailOnce DEF QueueOK
<1>3. CallOK(c) /\ ActiveOK(c) /\ borrowed[c] = {} /\ outcome[c] = "none" /\ awaits[c] = Nowhere
  BY <1>2 DEF CInv, CallOK, Active
<1>4. /\ queue' = [queue EXCEPT ![s] = Tail(queue[s])]
      /\ \/ target[c] \subseteq values /\ Begin(c)
         \/ ~(target[c] \subseteq values) /\ Complete(c, "Missing")
      /\ UNCHANGED <<handles, values, open, stage, at, target, strong, mode, awaits>>
  BY DEF Start, call
<1>5. \E st \in {"running", "finished"} : state' = [state EXCEPT ![c] = st]
  BY <1>4 DEF Begin, Complete
<1> HIDE DEF c
<1>6. ASSUME NEW r \in Shards
      PROVE  queue'[r] \in Seq(CallIds) /\ QueueOK(r)'
  <2>1. QueueOK(r) /\ queue[r] \in Seq(CallIds)
    BY DEF CInv, TypeOK
  <2>2. ASSUME NEW d \in CallIds, d # c PROVE state'[d] = state[d]
    BY <1>5, <2>2 DEF CInv, TypeOK
  <2>3. CASE r = s
    <3>1. queue'[r] = Tail(queue[s])
      BY <1>4, <2>3 DEF CInv, TypeOK
    <3>2. ASSUME NEW i \in 1..Len(queue'[r])
          PROVE  state'[queue'[r][i]] = "queued" /\ at'[queue'[r][i]] = r
      <4>1. PICK n \in 1..Len(queue[s]) : Tail(queue[s])[i] = queue[s][n]
        BY <1>2, <3>1
      <4>2. queue'[r][i] = queue[s][n] /\ queue[s][n] \in CallIds /\ queue[s][n] # c
        BY <1>1, <1>2, <3>1, <4>1
      <4> QED  BY <1>4, <2>1, <2>2, <2>3, <4>2 DEF QueueOK
    <3> QED  BY <1>2, <3>1, <3>2 DEF QueueOK
  <2>4. CASE r # s
    <3>1. queue'[r] = queue[r]
      BY <1>4, <2>4 DEF CInv, TypeOK
    <3>2. \A i \in 1..Len(queue[r]) : queue[r][i] \in CallIds /\ queue[r][i] # c
      BY <1>2, <2>1, <2>4 DEF QueueOK
    <3>3. \A i \in 1..Len(queue[r]) : state'[queue[r][i]] = "queued" /\ at'[queue[r][i]] = r
      BY <1>4, <2>1, <2>2, <3>2 DEF QueueOK
    <3> QED  BY <2>1, <3>1, <3>3 DEF QueueOK
  <2> QED  BY <2>3, <2>4
<1>7. HandlesOK' /\ DownOK'
  BY <1>4 DEF CInv, HandlesOK, DownOK
<1>8. queue' \in [Shards -> Seq(CallIds)]
  BY <1>4, <1>6 DEF CInv, TypeOK
<1>9. CASE target[c] \subseteq values /\ Begin(c)
  <2>1. /\ state' = [state EXCEPT ![c] = "running"]
        /\ borrowed' = [borrowed EXCEPT ![c] = target[c]]
        /\ UNCHANGED <<held, outcome>>
    BY <1>9 DEF Begin
  <2>2. TypeOK'
    BY <1>2, <1>4, <1>8, <2>1 DEF CInv, TypeOK, States
  <2>3. ASSUME NEW d \in CallIds PROVE CallOK(d)'
    <3>1. CallOK(d)
      BY DEF CInv
    <3>2. CASE d = c
      <4>1. state'[c] = "running" /\ borrowed'[c] = target[c]
        BY <1>2, <2>1 DEF CInv, TypeOK
      <4> QED  BY <1>3, <1>4, <1>9, <2>1, <3>2, <4>1 DEF CallOK, Active, ActiveOK
    <3>3. CASE d # c
      <4>1. state'[d] = state[d] /\ borrowed'[d] = borrowed[d]
        BY <2>1, <3>3 DEF CInv, TypeOK
      <4> QED  BY <1>4, <2>1, <3>1, <4>1 DEF CallOK, Active, ActiveOK
    <3> QED  BY <3>2, <3>3
  <2> QED  BY <1>6, <1>7, <2>2, <2>3 DEF CInv
<1>10. CASE ~(target[c] \subseteq values) /\ Complete(c, "Missing")
  <2>1. /\ state' = [state EXCEPT ![c] = "finished"]
        /\ outcome' = [outcome EXCEPT ![c] = "Missing"]
        /\ borrowed' = [borrowed EXCEPT ![c] = {}]
        /\ held' = [held EXCEPT ![c] = {}]
    BY <1>10 DEF Complete
  <2>2. TypeOK'
    BY <1>2, <1>4, <1>8, <2>1 DEF CInv, TypeOK, States, Outcomes
  <2>3. ASSUME NEW d \in CallIds PROVE CallOK(d)'
    <3>1. CallOK(d)
      BY DEF CInv
    <3>2. CASE d = c
      <4>1. state'[c] = "finished" /\ borrowed'[c] = {} /\ held'[c] = {} /\ outcome'[c] = "Missing"
        BY <1>2, <2>1 DEF CInv, TypeOK
      <4>2. ~strong[c]
        BY <1>3, <1>10, <1>2 DEF ActiveOK, CInv, TypeOK
      <4> QED  BY <1>3, <1>4, <1>10, <3>2, <4>1, <4>2 DEF CallOK, Active
    <3>3. CASE d # c
      <4>1. state'[d] = state[d] /\ borrowed'[d] = borrowed[d] /\ held'[d] = held[d] /\ outcome'[d] = outcome[d]
        BY <2>1, <3>3 DEF CInv, TypeOK
      <4> QED  BY <1>4, <3>1, <4>1 DEF CallOK, Active, ActiveOK
    <3> QED  BY <3>2, <3>3
  <2> QED  BY <1>6, <1>7, <2>2, <2>3 DEF CInv
<1> QED  BY <1>4, <1>9, <1>10

\* A queue whose calls keep their state and place is still in order.
LEMMA QueuesKept ==
  ASSUME CInv, UNCHANGED queue,
         \A d \in CallIds : state[d] = "queued" => state'[d] = "queued" /\ at'[d] = at[d]
  PROVE  \A s \in Shards : QueueOK(s)'
<1> SUFFICES ASSUME NEW s \in Shards PROVE QueueOK(s)'
  OBVIOUS
<1>1. QueueOK(s) /\ queue[s] \in Seq(CallIds)
  BY DEF CInv, TypeOK
<1>2. \A i \in 1..Len(queue[s]) : queue[s][i] \in CallIds
  BY <1>1
<1> QED  BY <1>1, <1>2 DEF QueueOK

\* The end of a callback, well or in a panic.
LEMMA FinishKeeps ==
  ASSUME CInv, NEW c \in CallIds, Finish(c)
  PROVE  CInv'
<1>1. state[c] = "running" /\ UNCHANGED <<handles, values, open, stage, queue, at, target, strong, mode, awaits>>
  BY DEF Finish, shards, call
<1>2. PICK r \in {"Ok", "Panicked"} : Complete(c, r)
  BY DEF Finish
<1>3. /\ state' = [state EXCEPT ![c] = "finished"]
      /\ outcome' = [outcome EXCEPT ![c] = r]
      /\ borrowed' = [borrowed EXCEPT ![c] = {}]
      /\ held' = [held EXCEPT ![c] = {}]
  BY <1>2 DEF Complete
<1>4. CallOK(c) /\ ActiveOK(c) /\ outcome[c] = "none"
  BY <1>1 DEF CInv, CallOK, Active
<1>5. TypeOK'
  BY <1>1, <1>3 DEF CInv, TypeOK, States, Outcomes
<1>6. ASSUME NEW d \in CallIds PROVE CallOK(d)'
  <2>1. CallOK(d)
    BY DEF CInv
  <2>2. CASE d = c
    <3>1. state'[c] = "finished" /\ borrowed'[c] = {} /\ held'[c] = {} /\ outcome'[c] = r
      BY <1>3 DEF CInv, TypeOK
    <3> QED  BY <1>1, <2>2, <3>1 DEF CallOK, Active
  <2>3. CASE d # c
    <3>1. state'[d] = state[d] /\ borrowed'[d] = borrowed[d] /\ held'[d] = held[d] /\ outcome'[d] = outcome[d]
      BY <1>3, <2>3 DEF CInv, TypeOK
    <3> QED  BY <1>1, <2>1, <3>1 DEF CallOK, Active, ActiveOK
  <2> QED  BY <2>2, <2>3
<1>7. HandlesOK' /\ DownOK'
  BY <1>1 DEF CInv, HandlesOK, DownOK
<1>8. \A s \in Shards : QueueOK(s)'
  <2>1. \A d \in CallIds : state[d] = "queued" => state'[d] = "queued" /\ at'[d] = at[d]
    BY <1>1, <1>3 DEF CInv, TypeOK
  <2> QED  BY <1>1, <2>1, QueuesKept
<1> QED  BY <1>5, <1>6, <1>7, <1>8 DEF CInv

\* What is left of calls whose closures are gone.
LEMMA ForgetEffect ==
  ASSUME TypeOK, NEW S \in SUBSET CallIds, Forget(S)
  PROVE  /\ state' \in [CallIds -> States]
         /\ at' \in [CallIds -> Shards \cup {Nowhere}]
         /\ target' \in [CallIds -> SUBSET Values] /\ strong' \in [CallIds -> BOOLEAN]
         /\ mode' \in [CallIds -> Modes] /\ awaits' \in [CallIds -> CallIds \cup {Nowhere}]
         /\ \A d \in S : state'[d] = "over" /\ awaits'[d] = Nowhere
         /\ \A d \in CallIds \ S :
               /\ state'[d] = state[d] /\ at'[d] = at[d] /\ target'[d] = target[d]
               /\ strong'[d] = strong[d] /\ awaits'[d] = awaits[d]
<1>1. /\ state' \in [CallIds -> States] /\ mode' \in [CallIds -> Modes]
  BY DEF TypeOK, Forget, States, Modes
<1>2. /\ at' \in [CallIds -> Shards \cup {Nowhere}] /\ target' \in [CallIds -> SUBSET Values]
  BY DEF TypeOK, Forget
<1>3. /\ strong' \in [CallIds -> BOOLEAN] /\ awaits' \in [CallIds -> CallIds \cup {Nowhere}]
  BY DEF TypeOK, Forget
<1>4. \A d \in S : state'[d] = "over" /\ awaits'[d] = Nowhere
  BY DEF Forget
<1>5. \A d \in CallIds \ S :
         /\ state'[d] = state[d] /\ at'[d] = at[d] /\ target'[d] = target[d]
         /\ strong'[d] = strong[d] /\ awaits'[d] = awaits[d]
  BY DEF Forget
<1> QED  BY <1>1, <1>2, <1>3, <1>4, <1>5

\* The answer goes out when nothing is held any more.
LEMMA AnswerKeeps ==
  ASSUME CInv, NEW c \in CallIds, Answer(c)
  PROVE  CInv'
<1>1. state[c] = "finished" /\ Forget({c})
      /\ UNCHANGED <<handles, values, open, stage, queue, held, borrowed, outcome>>
  BY DEF Answer, shards, uses
<1>2. /\ state' \in [CallIds -> States]
      /\ at' \in [CallIds -> Shards \cup {Nowhere}]
      /\ target' \in [CallIds -> SUBSET Values] /\ strong' \in [CallIds -> BOOLEAN]
      /\ mode' \in [CallIds -> Modes] /\ awaits' \in [CallIds -> CallIds \cup {Nowhere}]
      /\ state'[c] = "over" /\ awaits'[c] = Nowhere
      /\ \A d \in CallIds \ {c} :
            /\ state'[d] = state[d] /\ at'[d] = at[d] /\ target'[d] = target[d]
            /\ strong'[d] = strong[d] /\ awaits'[d] = awaits[d]
  <2>1. {c} \in SUBSET CallIds /\ c \in {c} /\ TypeOK
    BY DEF CInv
  <2>2. \A d \in {c} : state'[d] = "over" /\ awaits'[d] = Nowhere
    BY <1>1, <2>1, ForgetEffect
  <2> QED  BY <1>1, <2>1, <2>2, ForgetEffect
<1>3. TypeOK'
  BY <1>1, <1>2 DEF CInv, TypeOK
<1>4. ASSUME NEW d \in CallIds PROVE CallOK(d)'
  <2>1. CallOK(d)
    BY DEF CInv
  <2>2. CASE d = c
    BY <1>1, <1>2, <2>1, <2>2 DEF CallOK, Active
  <2>3. CASE d # c
    BY <1>1, <1>2, <2>1, <2>3 DEF CallOK, Active, ActiveOK
  <2> QED  BY <2>2, <2>3
<1>5. HandlesOK' /\ DownOK'
  BY <1>1 DEF CInv, HandlesOK, DownOK
<1>6. \A s \in Shards : QueueOK(s)'
  <2>1. \A d \in CallIds : state[d] = "queued" => state'[d] = "queued" /\ at'[d] = at[d]
    BY <1>1, <1>2
  <2> QED  BY <1>1, <2>1, QueuesKept
<1> QED  BY <1>3, <1>4, <1>5, <1>6 DEF CInv

\* A shard goes with its calls and its values, and with nobody else's.
LEMMA EndKeeps ==
  ASSUME CInv, NEW s \in Shards, End(s)
  PROVE  CInv'
<1> DEFINE S == Unanswered(s)
<1>1. /\ stage[s] # "down" /\ CancelAll(S)
      /\ stage' = [stage EXCEPT ![s] = "down"]
      /\ open' = [open EXCEPT ![s] = FALSE]
      /\ queue' = [queue EXCEPT ![s] = <<>>]
      /\ values' = {v \in values : Owner[v] # s}
      /\ UNCHANGED handles
  BY DEF End
<1>2. /\ S \subseteq CallIds
      /\ \A d \in CallIds : d \in S <=> at[d] = s /\ Active(d)
  BY DEF Unanswered, Active
<1>3. /\ Forget(S)
      /\ outcome' = [d \in CallIds |-> IF d \in S THEN "Canceled" ELSE outcome[d]]
      /\ held' = [d \in CallIds |-> IF d \in S THEN {} ELSE held[d]]
      /\ borrowed' = [d \in CallIds |-> IF d \in S THEN {} ELSE borrowed[d]]
  BY <1>1 DEF CancelAll
<1> HIDE DEF S
<1>4. /\ state' \in [CallIds -> States]
      /\ at' \in [CallIds -> Shards \cup {Nowhere}]
      /\ target' \in [CallIds -> SUBSET Values] /\ strong' \in [CallIds -> BOOLEAN]
      /\ mode' \in [CallIds -> Modes] /\ awaits' \in [CallIds -> CallIds \cup {Nowhere}]
      /\ \A d \in S : state'[d] = "over" /\ awaits'[d] = Nowhere
      /\ \A d \in CallIds \ S :
            /\ state'[d] = state[d] /\ at'[d] = at[d] /\ target'[d] = target[d]
            /\ strong'[d] = strong[d] /\ awaits'[d] = awaits[d]
  BY <1>2, <1>3, ForgetEffect DEF CInv
<1>5. \A d \in CallIds \ S : outcome'[d] = outcome[d] /\ held'[d] = held[d] /\ borrowed'[d] = borrowed[d]
  BY <1>3
<1>6. \A d \in S : outcome'[d] = "Canceled" /\ held'[d] = {} /\ borrowed'[d] = {}
  BY <1>2, <1>3
<1>7. TypeOK'
  <2>1. /\ outcome' \in [CallIds -> Outcomes \cup {"none"}]
        /\ held' \in [CallIds -> SUBSET Values] /\ borrowed' \in [CallIds -> SUBSET Values]
    BY <1>3 DEF CInv, TypeOK, Outcomes
  <2>2. /\ handles' \subseteq Groups /\ values' \subseteq Values
        /\ open' \in [Shards -> BOOLEAN] /\ stage' \in [Shards -> {"run", "drain", "down"}]
        /\ queue' \in [Shards -> Seq(CallIds)]
    BY <1>1 DEF CInv, TypeOK
  <2> QED  BY <1>4, <2>1, <2>2 DEF TypeOK
<1>8. ASSUME NEW d \in CallIds PROVE CallOK(d)'
  <2>1. CallOK(d)
    BY DEF CInv
  <2>2. CASE d \in S
    BY <1>4, <1>6, <2>2 DEF CallOK, Active
  <2>3. CASE d \notin S
    <3>1. Active(d) => at[d] # s /\ stage'[at[d]] = stage[at[d]]
      BY <1>1, <1>2, <2>1, <2>3 DEF CallOK, ActiveOK, CInv, TypeOK
    <3>2. Active(d) => (target[d] \subseteq values => target[d] \subseteq values')
      BY <1>1, <2>1, <3>1 DEF CallOK, ActiveOK
    <3>3. ~(target[d] \subseteq values) => ~(target[d] \subseteq values')
      BY <1>1
    <3>4. Active(d)' = Active(d)
      BY <1>4, <2>3 DEF Active
    <3>5. Active(d) => ActiveOK(d)'
      BY <1>4, <1>5, <2>1, <2>3, <3>1, <3>2 DEF CallOK, ActiveOK
    <3>6. state[d] = "running" => target[d] \subseteq values'
      BY <2>1, <3>2 DEF CallOK, Active
    <3> QED  BY <1>4, <1>5, <2>1, <2>3, <3>3, <3>4, <3>5, <3>6 DEF CallOK
  <2> QED  BY <2>2, <2>3
<1>9. HandlesOK'
  <2>1. \A g \in handles : \A v \in g : Owner[v] \in Shards
    BY CallsAssumption DEF CInv, TypeOK, Groups
  <2>2. ASSUME NEW g \in handles, NEW v \in g
        PROVE  v \in values' \/ stage'[Owner[v]] = "down"
    BY <1>1, <2>1 DEF CInv, TypeOK, HandlesOK
  <2> QED  BY <1>1, <2>2 DEF CInv, HandlesOK
<1>10. ASSUME NEW r \in Shards PROVE QueueOK(r)'
  <2>1. QueueOK(r) /\ queue[r] \in Seq(CallIds)
    BY DEF CInv, TypeOK
  <2>2. CASE r = s
    <3>1. Len(queue'[r]) = 0
      BY <1>1, <2>2 DEF CInv, TypeOK
    <3> QED  BY <3>1 DEF QueueOK
  <2>3. CASE r # s
    <3>1. queue'[r] = queue[r]
      BY <1>1, <2>3 DEF CInv, TypeOK
    <3>2. \A i \in 1..Len(queue[r]) : queue[r][i] \in CallIds \ S
      BY <1>2, <2>1, <2>3 DEF QueueOK
    <3>3. \A i \in 1..Len(queue[r]) : state'[queue[r][i]] = "queued" /\ at'[queue[r][i]] = r
      BY <1>4, <2>1, <3>2 DEF QueueOK
    <3> QED  BY <2>1, <3>1, <3>3 DEF QueueOK
  <2> QED  BY <2>2, <2>3
<1>11. DownOK'
  BY <1>1 DEF CInv, DownOK, TypeOK
<1> QED  BY <1>7, <1>8, <1>9, <1>10, <1>11 DEF CInv

-------------------------------------------------------------------------------
\* Every step keeps the invariant.
LEMMA NextKeepsCInv == CInv /\ [Next]_vars => CInv'
<1> SUFFICES ASSUME CInv, [Next]_vars PROVE CInv'
  OBVIOUS
<1>1. ASSUME NEW v \in Values, MakeHandle(v) \/ Collect(v) PROVE CInv'
  BY <1>1, MakeHandleKeeps, CollectKeeps
<1>2. ASSUME NEW g \in handles, DropHandle(g) \/ \E v \in Values : Join(g, v) PROVE CInv'
  BY <1>2, DropHandleKeeps, JoinKeeps
<1>3. ASSUME NEW c \in CallIds, NEW m \in Modes, NEW s \in Shards, NEW g \in handles,
             SubmitStrong(c, g, m, s)
      PROVE  CInv'
  <2>1. g \in Groups /\ First(g) \in g
    BY FirstIn DEF CInv, TypeOK
  <2>2. \A v \in g : Owner[v] = Owner[First(g)]
    BY <2>1 DEF CInv, HandlesOK
  <2>3. Submit(c, g, TRUE, m, s)
    BY <1>3 DEF SubmitStrong
  <2> QED  BY <2>1, <2>2, <2>3, SubmitKeeps
<1>4. ASSUME NEW c \in CallIds, NEW m \in Modes, NEW s \in Shards, NEW v \in Values,
             SubmitWeak(c, v, m, s)
      PROVE  CInv'
  <2>1. {v} \in Groups /\ First({v}) = v
    <3>1. {v} \in Groups
      BY DEF Groups
    <3> QED  BY <3>1, FirstIn
  <2>2. Submit(c, {v}, FALSE, m, s)
    BY <1>4 DEF SubmitWeak
  <2> QED  BY <2>1, <2>2, SubmitKeeps
<1>5. ASSUME NEW s \in Shards, RequestShutdown(s) \/ Start(s) \/ Leave(s) \/ End(s) PROVE CInv'
  BY <1>5, ClosingKeeps, StartKeeps, EndKeeps
<1>6. ASSUME NEW c \in CallIds, Finish(c) \/ Answer(c) PROVE CInv'
  BY <1>6, FinishKeeps, AnswerKeeps
<1>7. CASE UNCHANGED vars
  <2>1. HandlesOK' /\ handles' \subseteq Groups
    BY <1>7 DEF vars, shards, CInv, TypeOK, HandlesOK
  <2> QED  BY <1>7, <2>1, SameCalls DEF vars
<1> QED  BY <1>1, <1>2, <1>3, <1>4, <1>5, <1>6, <1>7 DEF Next

\* The invariant of calls, handles, queues and shards.
THEOREM CallsInvariance == Spec => []CInv
BY InitCInv, NextKeepsCInv, PTL DEF Spec

\* Every variable of Calls keeps its type.
THEOREM CallsTypes == Spec => []TypeOK
<1>1. CInv => TypeOK
  BY DEF CInv
<1> QED  BY <1>1, CallsInvariance, PTL

\* Whatever was joined and whichever shard was asked, a callback is queued and
\* run only where all its values live.
THEOREM OnlyOnOwner == Spec => []RunsOnOwner
<1>1. CInv => RunsOnOwner
  BY DEF CInv, CallOK, Active, ActiveOK, RunsOnOwner
<1> QED  BY <1>1, CallsInvariance, PTL

\* A callback under way has its values, over its awaits too.
THEOREM TargetsStayStored == Spec => []TargetsStored
<1>1. CInv => TargetsStored
  BY DEF CInv, CallOK, TargetsStored
<1> QED  BY <1>1, CallsInvariance, PTL

\* No strong call is told that its value is missing, no weak one falsely.
THEOREM MissIsHonest == Spec => []HonestMiss
<1>1. CInv => HonestMiss
  BY DEF CInv, CallOK, HonestMiss
<1> QED  BY <1>1, CallsInvariance, PTL

\* An answered call keeps nothing alive.
THEOREM ReleasedBeforeAnswer == Spec => []AnswerAfterRelease
<1>1. CInv => AnswerAfterRelease
  BY DEF CInv, CallOK, Active, AnswerAfterRelease
<1> QED  BY <1>1, CallsInvariance, PTL
===============================================================================
