-------------------------- MODULE ShardRegistryProofs --------------------------
(***************************************************************************)
(* That a join which says Ok means a stopped shard, and that no shard is   *)
(* lost from the registry, for any number of shards and joiners.           *)
(*                                                                         *)
(* The cached outcome is what a joiner reports, so that the first          *)
(* invariant (RInv) ties it to the thread (OutcomesOK) and a join in       *)
(* progress to the one shard it was asked for (JoinOK).  The second        *)
(* (PInv) says where each registered shard is: listed, or in the hands of  *)
(* one join_all, once.                                                     *)
(***************************************************************************)
EXTENDS ShardRegistry, SublistsProofs, TLAPS

RegistryTypes ==
  /\ thread \in [Shards -> {"none", "starting", "running", "exited", "panicked"}]
  /\ result \in [Shards -> {"none", "ok", "err"}]
  /\ call \in [Joiners -> {"idle", "join", "all"}]
  /\ at \in [Joiners -> {"start", "request", "lock", "wait", "unregister", "retain"}]
  /\ todo = [j \in Joiners |-> todo[j]] /\ asked \in [Joiners -> SUBSET Shards]
  /\ told \in [Joiners -> {"none", "refused", "join_ok", "join_err", "all_ok", "all_err"}]

OutcomesOK ==
  \A s \in Shards : /\ result[s] = "ok" => thread[s] = "exited"
                    /\ result[s] = "err" => thread[s] = "panicked"

JoinOK(j) ==
  /\ call[j] = "idle" => at[j] = "start"
  /\ call[j] = "join" => \E s \in Shards : todo[j] = <<s>> /\ asked[j] = {s} /\ at[j] # "retain"

RInv == RegistryTypes /\ OutcomesOK /\ (\A j \in Joiners : JoinOK(j)) /\ JoinedMeansStopped

-------------------------------------------------------------------------------
\* Shards start, run and end; one that has ended stays so.
LEMMA ThreadStepsKeep ==
  ASSUME RInv, NEW s \in Shards,
         StartThread(s) \/ Register(s) \/ RequestShutdown(s) \/ Exit(s) \/ Panic(s)
  PROVE  RInv'
<1>1. UNCHANGED <<result, call, at, todo, told, asked>>
  BY DEF StartThread, Register, RequestShutdown, Exit, Panic, joining
<1>2. /\ thread' \in [Shards -> {"none", "starting", "running", "exited", "panicked"}]
      /\ \A r \in Shards : thread[r] \in {"exited", "panicked"} => thread'[r] = thread[r]
  BY DEF RInv, RegistryTypes, StartThread, Register, RequestShutdown, Exit, Panic
<1>3. RegistryTypes'
  BY <1>1, <1>2 DEF RInv, RegistryTypes
<1>4. OutcomesOK'
  BY <1>1, <1>2 DEF RInv, OutcomesOK
<1>5. \A j \in Joiners : JoinOK(j)'
  BY <1>1 DEF RInv, JoinOK
<1>6. JoinedMeansStopped'
  BY <1>1, <1>2 DEF RInv, RegistryTypes, JoinedMeansStopped
<1> QED  BY <1>3, <1>4, <1>5, <1>6 DEF RInv

\* A joiner's calls and steps that cache no outcome.
LEMMA JoinerKeeps ==
  ASSUME RInv, NEW j \in Joiners, UNCHANGED <<thread, result>>, RegistryTypes', JoinOK(j)',
         \A i \in Joiners \ {j} : /\ call'[i] = call[i] /\ at'[i] = at[i] /\ todo'[i] = todo[i]
                                  /\ told'[i] = told[i] /\ asked'[i] = asked[i],
         told'[j] = "join_ok" => \A s \in asked'[j] : thread[s] = "exited"
  PROVE  RInv'
<1>1. OutcomesOK'
  BY DEF RInv, OutcomesOK
<1>2. \A i \in Joiners : JoinOK(i)'
  BY DEF RInv, JoinOK
<1>3. JoinedMeansStopped'
  BY DEF RInv, JoinedMeansStopped
<1> QED  BY <1>1, <1>2, <1>3 DEF RInv

\* Calls.
LEMMA CallsKeep ==
  ASSUME RInv, NEW j \in Joiners, CallJoinAll(j) \/ \E s \in Shards : CallJoin(j, s)
  PROVE  RInv'
<1>1. CASE CallJoinAll(j)
  <2> USE DEF CallJoinAll, CanCall, RInv, RegistryTypes
  <2>1. RegistryTypes'
    BY <1>1 DEF Registered
  <2>2. UNCHANGED <<thread, result>> /\ told'[j] # "join_ok"
    BY <1>1
  <2>3. JoinOK(j)'
    BY <1>1 DEF JoinOK
  <2>4. \A i \in Joiners \ {j} : /\ call'[i] = call[i] /\ at'[i] = at[i] /\ todo'[i] = todo[i]
                                 /\ told'[i] = told[i] /\ asked'[i] = asked[i]
    BY <1>1
  <2> QED  BY <2>1, <2>2, <2>3, <2>4, JoinerKeeps
<1>2. ASSUME NEW s \in Shards, CallJoin(j, s) PROVE RInv'
  <2> USE DEF CallJoin, CanCall, RInv, RegistryTypes
  <2>1. RegistryTypes'
    BY <1>2
  <2>2. UNCHANGED <<thread, result>> /\ told'[j] # "join_ok"
    BY <1>2
  <2>3. JoinOK(j)'
    BY <1>2 DEF JoinOK
  <2>4. \A i \in Joiners \ {j} : /\ call'[i] = call[i] /\ at'[i] = at[i] /\ todo'[i] = todo[i]
                                 /\ told'[i] = told[i] /\ asked'[i] = asked[i]
    BY <1>2
  <2> QED  BY <2>1, <2>2, <2>3, <2>4, JoinerKeeps
<1> QED  BY <1>1, <1>2

\* The outcome that is cached is the thread's, which has ended.
LEMMA JoinWaitKeeps ==
  ASSUME RInv, NEW j \in Joiners, JoinWait(j)
  PROVE  RInv'
<1> DEFINE s == Current(j)
<1>1. /\ UNCHANGED <<thread, call, todo, told, asked>> /\ at' = [at EXCEPT ![j] = "unregister"] /\ at[j] = "wait"
      /\ \/ result' = result
         \/ /\ thread[s] \in {"exited", "panicked"}
            /\ result' = [result EXCEPT ![s] = IF thread[s] = "exited" THEN "ok" ELSE "err"]
  BY DEF JoinWait
<1> HIDE DEF s
<1>2. RegistryTypes'
  BY <1>1 DEF RInv, RegistryTypes
<1>3. OutcomesOK'
  BY <1>1 DEF RInv, RegistryTypes, OutcomesOK
<1>4. \A i \in Joiners : JoinOK(i)'
  BY <1>1 DEF RInv, RegistryTypes, JoinOK
<1>5. JoinedMeansStopped'
  BY <1>1 DEF RInv, JoinedMeansStopped
<1> QED  BY <1>2, <1>3, <1>4, <1>5 DEF RInv

\* What is told is the cached outcome of the one shard that was asked for.
LEMMA JoinStepsKeep ==
  ASSUME RInv, NEW j \in Joiners, JoinRequest(j) \/ JoinLock(j) \/ JoinDone(j) \/ Retain(j)
  PROVE  RInv'
<1> DEFINE s == Current(j)
           ok == result[s] = "ok"
           step == IF Tail(todo[j]) = <<>> THEN "retain" ELSE "request"
<1>1. /\ UNCHANGED <<thread, result, asked>> /\ at[j] # "start"
      /\ \/ UNCHANGED <<call, todo, told>> /\ at[j] \in {"request", "lock"}
            /\ \E a \in {"lock", "wait"} : at' = [at EXCEPT ![j] = a]
         \/ call[j] = "all" /\ UNCHANGED <<call, told>> /\ todo' = [todo EXCEPT ![j] = Tail(@)]
            /\ at' = [at EXCEPT ![j] = step]
         \/ /\ call[j] # "all" /\ at[j] = "unregister" /\ call' = [call EXCEPT ![j] = "idle"]
            /\ at' = [at EXCEPT ![j] = "start"] /\ todo' = [todo EXCEPT ![j] = Tail(@)]
            /\ told' = [told EXCEPT ![j] = IF ok THEN "join_ok" ELSE "join_err"]
         \/ /\ call' = [call EXCEPT ![j] = "idle"] /\ at' = [at EXCEPT ![j] = "start"] /\ todo' = todo
            /\ \E r \in {"all_ok", "all_err"} : told' = [told EXCEPT ![j] = r]
  <2>1. CASE JoinRequest(j)
    BY <2>1 DEF JoinRequest
  <2>2. CASE JoinLock(j)
    BY <2>2 DEF JoinLock
  <2>3. CASE JoinDone(j)
    BY <2>3 DEF JoinDone
  <2>4. CASE Retain(j)
    BY <2>4 DEF Retain
  <2> QED  BY <2>1, <2>2, <2>3, <2>4
<1>2. call[j] \in {"join", "all"} /\ step \in {"retain", "request"}
  BY <1>1 DEF RInv, RegistryTypes, JoinOK
<1>3. call[j] = "join" /\ ok => \A r \in asked[j] : thread[r] = "exited"
  <2> SUFFICES ASSUME call[j] = "join", ok PROVE \A r \in asked[j] : thread[r] = "exited"
    OBVIOUS
  <2>1. PICK r \in Shards : todo[j] = <<r>> /\ asked[j] = {r}
    BY DEF RInv, JoinOK
  <2>2. s = r
    BY <2>1 DEF Current
  <2> QED  BY <2>1, <2>2 DEF RInv, OutcomesOK
<1> HIDE DEF s, ok, step
<1>4. RegistryTypes'
  BY <1>1, <1>2 DEF RInv, RegistryTypes
<1>5. JoinOK(j)'
  BY <1>1, <1>2 DEF RInv, RegistryTypes, JoinOK
<1>6. told'[j] = "join_ok" => \A r \in asked'[j] : thread[r] = "exited"
  BY <1>1, <1>2, <1>3 DEF RInv, RegistryTypes, JoinedMeansStopped
<1>7. \A i \in Joiners \ {j} : /\ call'[i] = call[i] /\ at'[i] = at[i] /\ todo'[i] = todo[i]
                               /\ told'[i] = told[i] /\ asked'[i] = asked[i]
  BY <1>1 DEF RInv, RegistryTypes
<1> QED  BY <1>1, <1>4, <1>5, <1>6, <1>7, JoinerKeeps

-------------------------------------------------------------------------------
\* The invariant holds for any shards and joiners.
THEOREM RegistryInvariant == Spec => []RInv
<1>1. Init => RInv
  BY DEF Init, RInv, RegistryTypes, OutcomesOK, JoinOK, JoinedMeansStopped
<1>2. RInv /\ [Next]_vars => RInv'
  <2> SUFFICES ASSUME RInv, [Next]_vars PROVE RInv'
    OBVIOUS
  <2>1. CASE UNCHANGED vars
    BY <2>1 DEF vars, RInv, RegistryTypes, OutcomesOK, JoinOK, JoinedMeansStopped
  <2>2. ASSUME NEW s \in Shards,
               StartThread(s) \/ Register(s) \/ RequestShutdown(s) \/ Exit(s) \/ Panic(s)
        PROVE  RInv'
    BY <2>2, ThreadStepsKeep
  <2>3. ASSUME NEW j \in Joiners, CallJoinAll(j) \/ \E s \in Shards : CallJoin(j, s)
        PROVE  RInv'
    BY <2>3, CallsKeep
  <2>4. ASSUME NEW j \in Joiners, JoinStep(j) PROVE RInv'
    BY <2>4, JoinWaitKeeps, JoinStepsKeep DEF JoinStep
  <2> QED  BY <2>1, <2>2, <2>3, <2>4 DEF Next
<1> QED  BY <1>1, <1>2, PTL DEF Spec

\* After Ok of a join (Shared::join) the shard's thread has ended, however many
\* joined it at the same time and whoever of them waited.
THEOREM JoinIsHonest == Spec => []JoinedMeansStopped
<1>1. RInv => JoinedMeansStopped
  BY DEF RInv
<1> QED  BY <1>1, RegistryInvariant, PTL

-------------------------------------------------------------------------------
(* What the registry and the joiners have in their hands.                    *)

\* The entries that a joiner's join_all has taken.
Held(j) == IF call[j] = "all" THEN Entries(todo[j]) \cup Entries(failed[j]) ELSE {}

\* A join_all has no entry twice, keeps only those that failed, and is through
\* with its list when it puts them back; an outcome is known before the entry
\* is unregistered.
HandOK(j) ==
  /\ call[j] # "all" => failed[j] = <<>>
  /\ call[j] = "all" => /\ at[j] # "start" /\ (at[j] = "retain" <=> todo[j] = <<>>)
                        /\ Distinct(todo[j]) /\ Entries(todo[j]) \cap Entries(failed[j]) = {}
  /\ at[j] = "unregister" => result[Current(j)] # "none"
  /\ Distinct(failed[j]) /\ \A s \in Entries(failed[j]) : result[s] = "err"

\* No shard is in two places, and no shard is in any before it is registered.
PlacesOK ==
  /\ Distinct(registry) /\ Entries(registry) \subseteq Registered
  /\ \A j \in Joiners : Held(j) \subseteq Registered \ Entries(registry)
  /\ \A i, j \in Joiners : i # j => Held(i) \cap Held(j) = {}

\* A shard that has not been joined successfully is somewhere.
Retriable ==
  \A s \in Registered : result[s] # "ok" => s \in Entries(registry) \/ \E j \in Joiners : s \in Held(j)

PInv ==
  /\ TypeOK /\ RInv
  /\ \A j \in Joiners : HandOK(j)
  /\ PlacesOK /\ Retriable /\ JoinedLeavesRegistry

\* The types of the variables, with the list of the registry.
LEMMA ThreadTypes ==
  ASSUME TypeOK, NEW s \in Shards,
         StartThread(s) \/ Register(s) \/ RequestShutdown(s) \/ Exit(s) \/ Panic(s)
  PROVE  TypeOK'
<1>1. UNCHANGED <<result, lock, call, at, todo, failed, told, asked>>
  BY DEF StartThread, Register, RequestShutdown, Exit, Panic, joining
<1>2. thread' \in [Shards -> {"none", "starting", "running", "exited", "panicked"}]
  <2>1. thread' = thread \/ \E a \in {"starting", "running", "exited", "panicked"} :
                              thread' = [thread EXCEPT ![s] = a]
    BY DEF StartThread, Register, RequestShutdown, Exit, Panic
  <2> QED  BY <2>1 DEF TypeOK
<1>3. open' \in [Shards -> BOOLEAN]
  <2>1. open' = open \/ open' = [open EXCEPT ![s] = FALSE]
    BY DEF StartThread, Register, RequestShutdown, Exit, Panic
  <2> QED  BY <2>1 DEF TypeOK
<1>4. registry' \in Seq(Shards)
  <2>1. registry' = registry \/ registry' = Append(registry, s)
    BY DEF StartThread, Register, RequestShutdown, Exit, Panic
  <2>2. registry \in Seq(Shards)
    BY DEF TypeOK
  <2>3. Append(registry, s) \in Seq(Shards)
    BY <2>2
  <2> QED  BY <2>1, <2>2, <2>3
<1> QED  BY <1>1, <1>2, <1>3, <1>4 DEF TypeOK

\* A call is refused, or sets out with the shards it has to join.
LEMMA CallTypes ==
  ASSUME TypeOK, NEW j \in Joiners, CallJoinAll(j) \/ \E s \in Shards : CallJoin(j, s)
  PROVE  TypeOK'
<1> DEFINE Typed(S, r, c, a, l) ==
      /\ S \in SUBSET Shards /\ l \in Seq(Shards) /\ r \in {"none", "refused"}
      /\ c \in {"idle", "join", "all"}
      /\ a \in {"start", "request", "lock", "wait", "unregister", "retain"}
           Moved(S, r, c, a, l) ==
      /\ UNCHANGED <<thread, open, result, lock, failed>> /\ registry' \in Seq(Shards)
      /\ told' = [told EXCEPT ![j] = r] /\ asked' = [asked EXCEPT ![j] = S]
      /\ call' = [call EXCEPT ![j] = c] /\ at' = [at EXCEPT ![j] = a]
      /\ todo' = [todo EXCEPT ![j] = l]
<1>1. ASSUME NEW S, NEW r, NEW c, NEW a, NEW l, Typed(S, r, c, a, l), Moved(S, r, c, a, l)
      PROVE  TypeOK'
  <2>1. /\ asked' \in [Joiners -> SUBSET Shards] /\ todo' \in [Joiners -> Seq(Shards)]
        /\ call' \in [Joiners -> {"idle", "join", "all"}]
    BY <1>1 DEF TypeOK
  <2>2. /\ at' \in [Joiners -> {"start", "request", "lock", "wait", "unregister", "retain"}]
        /\ told' \in [Joiners -> {"none", "refused", "join_ok", "join_err", "all_ok", "all_err"}]
    BY <1>1 DEF TypeOK
  <2> QED  BY <1>1, <2>1, <2>2 DEF TypeOK
<1>2. /\ at = [at EXCEPT ![j] = at[j]] /\ todo = [todo EXCEPT ![j] = todo[j]]
      /\ asked = [asked EXCEPT ![j] = asked[j]] /\ call = [call EXCEPT ![j] = call[j]]
  BY DEF TypeOK
<1>3. registry \in Seq(Shards) /\ Typed(asked[j], "refused", call[j], at[j], todo[j])
  BY DEF TypeOK
<1>4. CASE CallJoinAll(j) /\ j \in Shards
  <2>1. Moved(asked[j], "refused", call[j], at[j], todo[j])
    BY <1>2, <1>3, <1>4 DEF CallJoinAll
  <2> HIDE DEF Typed, Moved
  <2> QED  BY <1>1, <1>3, <2>1
<1>5. CASE CallJoinAll(j) /\ j \notin Shards
  <2> DEFINE a == IF registry = <<>> THEN "retain" ELSE "request"
  <2>1. Moved(Registered, "none", "all", a, registry)
    BY <1>3, <1>5 DEF CallJoinAll
  <2>2. Typed(Registered, "none", "all", a, registry)
    BY <1>3 DEF Registered
  <2> HIDE DEF Typed, Moved, a
  <2> QED  BY <1>1, <2>1, <2>2
<1>6. ASSUME NEW s \in Shards, CallJoin(j, s) PROVE TypeOK'
  <2>1. CASE j = s
    <3>1. Moved({s}, "refused", call[j], at[j], todo[j])
      BY <1>2, <1>3, <1>6, <2>1 DEF CallJoin
    <3>2. Typed({s}, "refused", call[j], at[j], todo[j])
      BY <1>3
    <3> HIDE DEF Typed, Moved
    <3> QED  BY <1>1, <3>1, <3>2
  <2>2. CASE j # s
    <3>1. Moved({s}, "none", "join", "request", <<s>>)
      BY <1>3, <1>6, <2>2 DEF CallJoin
    <3>2. Typed({s}, "none", "join", "request", <<s>>)
      OBVIOUS
    <3> HIDE DEF Typed, Moved
    <3> QED  BY <1>1, <3>1, <3>2
  <2> QED  BY <2>1, <2>2
<1> QED  BY <1>4, <1>5, <1>6

\* A joiner that is done with a shard unregisters it or keeps it for a retry.
LEMMA JoinDoneTypes ==
  ASSUME TypeOK, NEW j \in Joiners, JoinDone(j), todo[j] # <<>>
  PROVE  TypeOK'
<1> DEFINE s == Current(j)
           ok == result[s] = "ok"
           rest == Tail(todo[j])
           others == Shards \ {s}
           less == Filtered(registry, others)
           back == IF ok THEN failed[j] ELSE Append(failed[j], s)
<1>1. /\ UNCHANGED <<thread, open, result, lock, asked>> /\ todo' = [todo EXCEPT ![j] = rest]
      /\ registry' = IF ok THEN less ELSE registry
      /\ \/ /\ failed' = [failed EXCEPT ![j] = back] /\ UNCHANGED <<call, told>>
            /\ at' = [at EXCEPT ![j] = IF rest = <<>> THEN "retain" ELSE "request"]
         \/ /\ call' = [call EXCEPT ![j] = "idle"] /\ at' = [at EXCEPT ![j] = "start"]
            /\ told' = [told EXCEPT ![j] = IF ok THEN "join_ok" ELSE "join_err"] /\ failed' = failed
  BY DEF JoinDone
<1>2. s \in Shards /\ rest \in Seq(Shards)
  BY DEF TypeOK, Current
<1>3. less \in Seq(Shards)
  <2>1. registry \in Seq(Shards)
    BY DEF TypeOK
  <2> HIDE DEF others
  <2> QED  BY <2>1, FilteredEntries
<1>4. back \in Seq(Shards)
  <2>1. failed[j] \in Seq(Shards)
    BY DEF TypeOK
  <2> HIDE DEF s
  <2> QED  BY <1>2, <2>1
<1> HIDE DEF s, ok, rest, less, back
<1>5. /\ registry' \in Seq(Shards) /\ todo' \in [Joiners -> Seq(Shards)]
      /\ UNCHANGED <<thread, open, result, lock, asked>>
  BY <1>1, <1>2, <1>3 DEF TypeOK
<1>6. failed' \in [Joiners -> Seq(Shards)]
  BY <1>1, <1>4 DEF TypeOK
<1>7. call' \in [Joiners -> {"idle", "join", "all"}]
  BY <1>1 DEF TypeOK
<1>8. /\ at' \in [Joiners -> {"start", "request", "lock", "wait", "unregister", "retain"}]
      /\ told' \in [Joiners -> {"none", "refused", "join_ok", "join_err", "all_ok", "all_err"}]
  BY <1>1 DEF TypeOK
<1> QED  BY <1>5, <1>6, <1>7, <1>8 DEF TypeOK

\* The other steps of a join.
LEMMA JoinTypes ==
  ASSUME TypeOK, NEW j \in Joiners, JoinRequest(j) \/ JoinLock(j) \/ JoinWait(j) \/ Retain(j)
  PROVE  TypeOK'
<1>1. CASE JoinRequest(j)
  BY <1>1 DEF TypeOK, JoinRequest
<1>2. CASE JoinLock(j)
  BY <1>2 DEF TypeOK, JoinLock
<1>3. CASE JoinWait(j)
  <2> DEFINE s == Current(j)
  <2>1. /\ UNCHANGED <<registry, thread, open, call, todo, failed, told, asked>>
        /\ lock' = [lock EXCEPT ![s] = Free] /\ at' = [at EXCEPT ![j] = "unregister"]
        /\ \/ result' = result
           \/ result' = [result EXCEPT ![s] = IF thread[s] = "exited" THEN "ok" ELSE "err"]
    BY <1>3 DEF JoinWait
  <2> HIDE DEF s
  <2> QED  BY <2>1 DEF TypeOK
<1>4. CASE Retain(j)
  <2>1. /\ UNCHANGED <<thread, open, result, lock, todo, asked>> /\ registry' \in Seq(Shards)
        /\ \E r \in {"all_ok", "all_err"} : told' = [told EXCEPT ![j] = r]
        /\ failed' = [failed EXCEPT ![j] = <<>>] /\ call' = [call EXCEPT ![j] = "idle"]
        /\ at' = [at EXCEPT ![j] = "start"]
    BY <1>4, ConcatEntries DEF TypeOK, Retain
  <2> QED  BY <2>1 DEF TypeOK
<1> QED  BY <1>1, <1>2, <1>3, <1>4

-------------------------------------------------------------------------------
\* A joiner in the middle of an entry has one.
LEMMA HasCurrent ==
  ASSUME PInv, NEW i \in Joiners, at[i] \in {"request", "lock", "wait", "unregister"}
  PROVE  /\ todo[i] # <<>> /\ Current(i) \in Shards /\ todo[i] \in Seq(Shards)
         /\ call[i] \in {"join", "all"}
<1>1. todo[i] \in Seq(Shards) /\ call[i] \in {"idle", "join", "all"}
  BY DEF PInv, TypeOK
<1>2. call[i] # "idle"
  BY DEF PInv, RInv, JoinOK
<1>3. todo[i] # <<>>
  <2>1. CASE call[i] = "join"
    <3>1. PICK s \in Shards : todo[i] = <<s>>
      BY <2>1 DEF PInv, RInv, JoinOK
    <3> QED  BY <3>1
  <2>2. CASE call[i] = "all"
    BY <2>2 DEF PInv, HandOK
  <2> QED  BY <1>1, <1>2, <2>1, <2>2
<1> QED  BY <1>1, <1>2, <1>3, TailEntries DEF Current

\* What one joiner does to what it and the registry have between them leaves the
\* others alone: nothing comes from elsewhere, and only joined entries vanish.
LEMMA PlacesKeep ==
  ASSUME PInv, NEW j \in Joiners, UNCHANGED thread,
         \A i \in Joiners \ {j} : /\ call'[i] = call[i] /\ at'[i] = at[i]
                                  /\ todo'[i] = todo[i] /\ failed'[i] = failed[i],
         \A s \in Shards : result[s] # "none" => result'[s] = result[s],
         HandOK(j)', Distinct(registry'), Held(j)' \cap Entries(registry') = {},
         Entries(registry') \cup Held(j)' \subseteq Entries(registry) \cup Held(j),
         \A s \in Entries(registry) \cup Held(j) :
            s \in Entries(registry') \cup Held(j)' \/ result'[s] = "ok"
  PROVE  (\A i \in Joiners : HandOK(i)') /\ PlacesOK' /\ Retriable'
<1>1. \A i \in Joiners \ {j} : Held(i)' = Held(i)
  BY DEF Held
<1>2. ASSUME NEW i \in Joiners \ {j} PROVE HandOK(i)'
  <2>1. HandOK(i)
    BY DEF PInv
  <2>2. Entries(failed[i]) \subseteq Shards
    <3>1. failed[i] \in Seq(Shards)
      BY DEF PInv, TypeOK
    <3> QED  BY <3>1 DEF Entries
  <2>3. at[i] = "unregister" => result'[Current(i)] = result[Current(i)]
    BY <2>1, HasCurrent DEF HandOK
  <2>4. Current(i)' = Current(i)
    BY DEF Current
  <2> QED  BY <2>1, <2>2, <2>3, <2>4 DEF HandOK
<1>3. Registered' = Registered
  BY DEF Registered
<1>4. PlacesOK'
  <2>1. Entries(registry') \subseteq Registered
    BY DEF PInv, PlacesOK
  <2>2. \A i \in Joiners : Held(i)' \subseteq Registered \ Entries(registry')
    BY <1>1 DEF PInv, PlacesOK
  <2>3. ASSUME NEW i \in Joiners, NEW k \in Joiners, i # k PROVE Held(i)' \cap Held(k)' = {}
    <3>1. /\ Held(i) \cap Held(k) = {}
          /\ Held(i) \cap Entries(registry) = {} /\ Held(k) \cap Entries(registry) = {}
      BY <2>3 DEF PInv, PlacesOK
    <3>2. CASE i = j
      BY <1>1, <2>3, <3>1, <3>2
    <3>3. CASE k = j
      BY <1>1, <2>3, <3>1, <3>3
    <3>4. CASE i # j /\ k # j
      BY <1>1, <3>1, <3>4
    <3> QED  BY <3>2, <3>3, <3>4
  <2> QED  BY <1>3, <2>1, <2>2, <2>3 DEF PlacesOK
<1>5. Retriable'
  <2> SUFFICES ASSUME NEW s \in Registered, result'[s] # "ok"
               PROVE  s \in Entries(registry') \/ \E i \in Joiners : s \in Held(i)'
    BY <1>3 DEF Retriable
  <2>1. s \in Shards /\ result[s] # "ok"
    BY DEF Registered
  <2>2. s \in Entries(registry) \/ \E i \in Joiners : s \in Held(i)
    BY <2>1 DEF PInv, Retriable
  <2>3. CASE s \in Entries(registry) \cup Held(j)
    BY <2>3
  <2>4. ASSUME NEW i \in Joiners \ {j}, s \in Held(i)
        PROVE  s \in Entries(registry') \/ \E k \in Joiners : s \in Held(k)'
    BY <1>1, <2>4
  <2> QED  BY <2>2, <2>3, <2>4
<1> QED  BY <1>2, <1>4, <1>5

\* A joined shard gets into the registry only from a joiner's hands, where it
\* would be as a failed one.
LEMMA LeavesKeep ==
  ASSUME PInv, NEW j \in Joiners, UNCHANGED result, at[j] # "unregister",
         \A i \in Joiners \ {j} : at'[i] = at[i] /\ todo'[i] = todo[i],
         \A s \in Entries(registry') : s \in Entries(registry) \/ result[s] = "err"
  PROVE  JoinedLeavesRegistry'
<1> SUFFICES ASSUME NEW s \in Shards, result[s] = "ok", s \in Entries(registry')
             PROVE  \E i \in Joiners : at'[i] = "unregister" /\ Current(i)' = s
  BY DEF JoinedLeavesRegistry
<1>1. s \in Entries(registry)
  OBVIOUS
<1>2. PICK i \in Joiners : at[i] = "unregister" /\ Current(i) = s
  BY <1>1 DEF PInv, JoinedLeavesRegistry
<1>3. i # j /\ Current(i)' = Current(i)
  BY <1>2 DEF Current
<1> QED  BY <1>2, <1>3

\* Shards: a new one is registered, which was nowhere before.
LEMMA ThreadPlaces ==
  ASSUME PInv, NEW s \in Shards,
         StartThread(s) \/ Register(s) \/ RequestShutdown(s) \/ Exit(s) \/ Panic(s)
  PROVE  PInv'
<1>1. TypeOK' /\ RInv'
  BY ThreadTypes, ThreadStepsKeep DEF PInv
<1>2. UNCHANGED <<result, call, at, todo, failed>>
  BY DEF StartThread, Register, RequestShutdown, Exit, Panic, joining
<1>3. \A j \in Joiners : Held(j)' = Held(j) /\ HandOK(j)' /\ Current(j)' = Current(j)
  BY <1>2 DEF PInv, HandOK, Held, Current
<1>4. registry \in Seq(Shards) /\ thread \in [Shards -> {"none", "starting", "running", "exited", "panicked"}]
  BY DEF PInv, TypeOK
<1>5. CASE Register(s)
  <2>1. s \notin Registered /\ Registered' = Registered \cup {s} /\ registry' = Append(registry, s)
    BY <1>4, <1>5 DEF Register, Registered
  <2>2. s \notin Entries(registry) /\ \A j \in Joiners : s \notin Held(j)
    BY <2>1 DEF PInv, PlacesOK
  <2>3. Entries(registry') = Entries(registry) \cup {s} /\ Distinct(registry')
    BY <1>4, <2>1, <2>2, AppendEntries DEF PInv, PlacesOK
  <2>4. PlacesOK'
    BY <1>3, <2>1, <2>2, <2>3 DEF PInv, PlacesOK
  <2>5. Retriable'
    BY <1>2, <1>3, <2>1, <2>3 DEF PInv, Retriable
  <2>6. result[s] # "ok"
    BY <1>5 DEF PInv, RInv, OutcomesOK, Register
  <2>7. JoinedLeavesRegistry'
    BY <1>2, <1>3, <2>3, <2>6 DEF PInv, JoinedLeavesRegistry
  <2> QED  BY <1>1, <1>3, <2>4, <2>5, <2>7 DEF PInv
<1>6. CASE ~Register(s)
  <2>1. registry' = registry
    BY <1>6 DEF StartThread, RequestShutdown, Exit, Panic
  <2>2. Registered' = Registered
    BY <1>4, <1>6 DEF StartThread, RequestShutdown, Exit, Panic, Registered
  <2>3. PlacesOK'
    BY <1>3, <2>1, <2>2 DEF PInv, PlacesOK
  <2>4. Retriable'
    BY <1>2, <1>3, <2>1, <2>2 DEF PInv, Retriable
  <2>5. JoinedLeavesRegistry'
    BY <1>2, <1>3, <2>1 DEF PInv, JoinedLeavesRegistry
  <2> QED  BY <1>1, <1>3, <2>3, <2>4, <2>5 DEF PInv
<1> QED  BY <1>5, <1>6

\* Calls: join_all takes what the registry has.
LEMMA CallPlaces ==
  ASSUME PInv, NEW j \in Joiners, CallJoinAll(j) \/ \E s \in Shards : CallJoin(j, s)
  PROVE  PInv'
<1>1. TypeOK' /\ RInv'
  BY CallTypes, CallsKeep DEF PInv
<1>2. /\ UNCHANGED <<thread, result, failed>> /\ call[j] = "idle" /\ at[j] = "start"
      /\ failed[j] = <<>> /\ Held(j) = {}
  <2>1. UNCHANGED <<thread, result, failed>> /\ call[j] = "idle"
    BY DEF CallJoinAll, CallJoin, CanCall
  <2> QED  BY <2>1 DEF PInv, RInv, JoinOK, HandOK, Held
<1>3. \A i \in Joiners \ {j} : call'[i] = call[i] /\ at'[i] = at[i] /\ todo'[i] = todo[i]
  <2>1. CASE CallJoinAll(j)
    <3>1. /\ call' = call \/ call' = [call EXCEPT ![j] = "all"]
          /\ at' = at \/ \E a \in {"retain", "request"} : at' = [at EXCEPT ![j] = a]
          /\ todo' = todo \/ todo' = [todo EXCEPT ![j] = registry]
      BY <2>1 DEF CallJoinAll
    <3> QED  BY <3>1 DEF PInv, TypeOK
  <2>2. CASE \E s \in Shards : CallJoin(j, s)
    BY <2>2 DEF CallJoin, PInv, TypeOK
  <2> QED  BY <2>1, <2>2
<1>4. /\ registry \in Seq(Shards) /\ Distinct(registry) /\ Distinct(<<>>) /\ Entries(<<>>) = {}
  <2>1. registry \in Seq(Shards) /\ Distinct(registry)
    BY DEF PInv, TypeOK, PlacesOK
  <2>2. Distinct(<<>>) /\ Entries(<<>>) = {}
    BY DEF Distinct, Entries
  <2> QED  BY <2>1, <2>2
<1>5. /\ HandOK(j)' /\ Distinct(registry') /\ Held(j)' \cap Entries(registry') = {}
      /\ Entries(registry') \cup Held(j)' = Entries(registry)
      /\ Entries(registry') \subseteq Entries(registry)
  <2>1. CASE CallJoinAll(j) /\ j \notin Shards
    <3>1. /\ registry' = <<>> /\ call'[j] = "all" /\ todo'[j] = registry
          /\ at'[j] = IF registry = <<>> THEN "retain" ELSE "request"
      BY <2>1 DEF CallJoinAll, PInv, TypeOK
    <3>2. Held(j)' = Entries(registry)
      BY <1>2, <1>4, <3>1 DEF Held
    <3>3. HandOK(j)'
      BY <1>2, <1>4, <3>1 DEF HandOK
    <3> QED  BY <1>4, <3>1, <3>2, <3>3
  <2>2. CASE \/ CallJoinAll(j) /\ j \in Shards
             \/ \E s \in Shards : CallJoin(j, s)
    <3>1. registry' = registry /\ call'[j] # "all" /\ at'[j] # "unregister"
      <4>1. CASE CallJoinAll(j) /\ j \in Shards
        BY <1>2, <4>1 DEF CallJoinAll
      <4>2. CASE \E s \in Shards : CallJoin(j, s)
        BY <1>2, <4>2 DEF CallJoin, PInv, TypeOK
      <4> QED  BY <2>2, <4>1, <4>2
    <3>2. Held(j)' = {}
      BY <3>1 DEF Held
    <3>3. HandOK(j)'
      BY <1>2, <1>4, <3>1 DEF HandOK
    <3> QED  BY <1>4, <3>1, <3>2, <3>3
  <2> QED  BY <2>1, <2>2
<1>6. (\A i \in Joiners : HandOK(i)') /\ PlacesOK' /\ Retriable'
  BY <1>2, <1>3, <1>5, PlacesKeep
<1>7. JoinedLeavesRegistry'
  BY <1>2, <1>3, <1>5, LeavesKeep
<1> QED  BY <1>1, <1>6, <1>7 DEF PInv

\* A joiner closes the queue of its entry, takes the mutex and learns the outcome.
LEMMA WaitPlaces ==
  ASSUME PInv, NEW j \in Joiners, JoinRequest(j) \/ JoinLock(j) \/ JoinWait(j)
  PROVE  PInv'
<1>1. TypeOK' /\ RInv'
  BY JoinTypes, JoinStepsKeep, JoinWaitKeeps DEF PInv
<1>2. /\ UNCHANGED <<registry, thread, call, todo, failed>> /\ at[j] \in {"request", "lock", "wait"}
      /\ \E a \in {"lock", "wait", "unregister"} :
            at' = [at EXCEPT ![j] = a] /\ (a = "unregister" <=> at[j] = "wait")
  BY DEF JoinRequest, JoinLock, JoinWait
<1>3. /\ Held(j)' = Held(j) /\ Current(j)' = Current(j) /\ HandOK(j)
      /\ \A i \in Joiners \ {j} : at'[i] = at[i]
      /\ at'[j] \in {"lock", "wait", "unregister"} /\ (at'[j] = "unregister" <=> at[j] = "wait")
  BY <1>2 DEF Held, Current, PInv, TypeOK
<1>4. CASE at[j] # "wait"
  <2>1. UNCHANGED result
    BY <1>4 DEF JoinRequest, JoinLock, JoinWait
  <2>2. HandOK(j)'
    BY <1>2, <1>3, <1>4, <2>1 DEF HandOK
  <2>3. (\A i \in Joiners : HandOK(i)') /\ PlacesOK' /\ Retriable'
    BY <1>2, <1>3, <2>1, <2>2, PlacesKeep DEF PInv, PlacesOK
  <2>4. JoinedLeavesRegistry'
    BY <1>2, <1>3, <2>1, LeavesKeep
  <2> QED  BY <1>1, <2>3, <2>4 DEF PInv
<1>5. CASE at[j] = "wait"
  <2> DEFINE s == Current(j)
  <2>1. s \in Shards /\ result \in [Shards -> {"none", "ok", "err"}]
    BY <1>5, HasCurrent DEF PInv, TypeOK
  <2>2. \/ result[s] # "none" /\ result' = result
        \/ result[s] = "none" /\ \E r \in {"ok", "err"} : result' = [result EXCEPT ![s] = r]
    BY <1>5 DEF JoinRequest, JoinLock, JoinWait
  <2> HIDE DEF s
  <2>3. /\ \A r \in Shards : result[r] # "none" => result'[r] = result[r]
        /\ result'[s] # "none" /\ \A r \in Shards \ {s} : result'[r] = result[r]
    BY <2>1, <2>2
  <2>4. Entries(failed[j]) \subseteq Shards
    BY DEF PInv, TypeOK, Entries
  <2>5. HandOK(j)'
    BY <1>2, <1>3, <1>5, <2>3, <2>4 DEF HandOK, s
  <2>6. (\A i \in Joiners : HandOK(i)') /\ PlacesOK' /\ Retriable'
    BY <1>2, <1>3, <2>3, <2>5, PlacesKeep DEF PInv, PlacesOK
  <2>7. JoinedLeavesRegistry'
    <3> SUFFICES ASSUME NEW r \in Shards, result'[r] = "ok", r \in Entries(registry)
                 PROVE  \E i \in Joiners : at'[i] = "unregister" /\ Current(i)' = r
      BY <1>2 DEF JoinedLeavesRegistry
    <3>1. CASE r = s
      BY <1>3, <1>5, <3>1 DEF s
    <3>2. CASE r # s
      <4>1. PICK i \in Joiners : at[i] = "unregister" /\ Current(i) = r
        BY <2>3, <3>2 DEF PInv, JoinedLeavesRegistry
      <4>2. i # j /\ Current(i)' = Current(i)
        BY <1>2, <1>5, <4>1 DEF Current
      <4> QED  BY <1>3, <4>1, <4>2
    <3> QED  BY <3>1, <3>2
  <2> QED  BY <1>1, <2>6, <2>7 DEF PInv
<1> QED  BY <1>4, <1>5

\* join_all puts the failed entries back.
LEMMA RetainPlaces ==
  ASSUME PInv, NEW j \in Joiners, Retain(j)
  PROVE  PInv'
<1>1. TypeOK' /\ RInv'
  BY JoinTypes, JoinStepsKeep DEF PInv
<1>2. /\ UNCHANGED <<thread, result, todo>> /\ registry' = registry \o failed[j]
      /\ at[j] = "retain" /\ at'[j] = "start" /\ call'[j] = "idle" /\ failed'[j] = <<>>
      /\ \A i \in Joiners \ {j} : call'[i] = call[i] /\ at'[i] = at[i] /\ failed'[i] = failed[i]
  BY DEF Retain, PInv, TypeOK
<1>3. call[j] = "all" /\ todo[j] = <<>> /\ Held(j) = Entries(failed[j])
  <2>1. call[j] \in {"idle", "join", "all"} /\ call[j] \notin {"idle", "join"}
    BY <1>2 DEF PInv, TypeOK, RInv, JoinOK
  <2>2. todo[j] = <<>>
    BY <1>2, <2>1 DEF PInv, HandOK
  <2>3. Entries(<<>>) = {}
    BY DEF Entries
  <2> QED  BY <2>1, <2>2, <2>3 DEF Held
<1>4. /\ registry \in Seq(Shards) /\ failed[j] \in Seq(Shards) /\ Distinct(registry) /\ Distinct(failed[j])
      /\ Entries(registry) \cap Entries(failed[j]) = {}
      /\ \A s \in Entries(failed[j]) : result[s] = "err"
  BY <1>3 DEF PInv, TypeOK, PlacesOK, HandOK
<1>5. Entries(registry') = Entries(registry) \cup Held(j) /\ Distinct(registry')
  BY <1>2, <1>3, <1>4, ConcatEntries
<1>6. Held(j)' = {} /\ HandOK(j)'
  <2>1. Distinct(<<>>) /\ Entries(<<>>) = {}
    BY DEF Distinct, Entries
  <2> QED  BY <1>2, <2>1 DEF Held, HandOK
<1>7. (\A i \in Joiners : HandOK(i)') /\ PlacesOK' /\ Retriable'
  BY <1>2, <1>5, <1>6, PlacesKeep
<1>8. JoinedLeavesRegistry'
  BY <1>2, <1>3, <1>4, <1>5, LeavesKeep
<1> QED  BY <1>1, <1>7, <1>8 DEF PInv

\* An entry that ended well vanishes; one that failed stays where it can be
\* joined again: in the registry after a join, with the failed ones of join_all.
LEMMA JoinDonePlaces ==
  ASSUME PInv, NEW j \in Joiners, JoinDone(j)
  PROVE  PInv'
<1> DEFINE s == Current(j)
           others == Shards \ {s}
           rest == Tail(todo[j])
<1>1. at[j] = "unregister" /\ UNCHANGED <<thread, result>>
  BY DEF JoinDone
<1>2. todo[j] # <<>> /\ s \in Shards /\ todo[j] \in Seq(Shards) /\ call[j] \in {"join", "all"}
  BY <1>1, HasCurrent
<1>3. TypeOK' /\ RInv'
  BY <1>2, JoinDoneTypes, JoinStepsKeep DEF PInv
<1>4. HandOK(j) /\ result[s] \in {"ok", "err"}
  BY <1>1, <1>2 DEF PInv, HandOK, TypeOK
<1>5. \A i \in Joiners \ {j} : /\ call'[i] = call[i] /\ at'[i] = at[i]
                               /\ todo'[i] = todo[i] /\ failed'[i] = failed[i]
  BY DEF JoinDone, PInv, TypeOK
<1>6. /\ registry' = IF result[s] = "ok" THEN Filtered(registry, others) ELSE registry
      /\ todo'[j] = rest
      /\ call[j] = "all" => /\ call'[j] = "all" /\ at'[j] = IF rest = <<>> THEN "retain" ELSE "request"
                            /\ failed'[j] = IF result[s] = "ok" THEN failed[j] ELSE Append(failed[j], s)
      /\ call[j] # "all" => call'[j] = "idle" /\ at'[j] = "start" /\ failed'[j] = failed[j]
  BY DEF JoinDone, PInv, TypeOK
<1>7. /\ rest \in Seq(Shards) /\ Entries(todo[j]) = Entries(rest) \cup {s}
      /\ Distinct(todo[j]) => Distinct(rest) /\ s \notin Entries(rest)
  BY <1>2, TailEntries DEF Current
<1> HIDE DEF s, rest
<1>8. /\ registry \in Seq(Shards) /\ failed[j] \in Seq(Shards) /\ Distinct(registry)
      /\ Entries(registry) \subseteq Shards
  BY DEF PInv, TypeOK, PlacesOK, Registered
<1>9. /\ Distinct(registry')
      /\ result[s] = "ok" => Entries(registry') = Entries(registry) \ {s}
      /\ result[s] # "ok" => Entries(registry') = Entries(registry)
  <2>1. /\ Entries(Filtered(registry, others)) = Entries(registry) \cap others
        /\ Distinct(Filtered(registry, others))
    <3> HIDE DEF others
    <3> QED  BY <1>8, FilteredEntries
  <2> QED  BY <1>6, <1>8, <2>1
<1>10. /\ HandOK(j)' /\ Held(j)' \subseteq Held(j)
       /\ Held(j)' \cap Entries(registry') = {}
       /\ \A r \in Held(j) : r \in Held(j)' \/ result[r] = "ok"
  <2>1. CASE call[j] = "all"
    <3>1. /\ Distinct(failed[j]) /\ s \notin Entries(failed[j]) /\ Distinct(rest) /\ s \notin Entries(rest)
          /\ Entries(rest) \cap Entries(failed[j]) = {} /\ \A r \in Entries(failed[j]) : result[r] = "err"
      BY <1>4, <1>7, <2>1 DEF HandOK
    <3>2. Held(j) = Entries(rest) \cup {s} \cup Entries(failed[j])
      BY <1>7, <2>1 DEF Held
    <3>3. /\ Held(j)' = Entries(rest) \cup Entries(failed'[j]) /\ at'[j] \in {"retain", "request"}
          /\ at'[j] = "retain" <=> todo'[j] = <<>>
      BY <1>6, <2>1 DEF Held
    <3>4. Held(j) \cap Entries(registry) = {}
      BY DEF PInv, PlacesOK
    <3>5. CASE result[s] = "ok"
      <4>1. failed'[j] = failed[j]
        BY <1>6, <2>1, <3>5
      <4>2. HandOK(j)'
        BY <1>1, <1>6, <2>1, <3>1, <3>3, <4>1 DEF HandOK
      <4> QED  BY <1>9, <3>2, <3>3, <3>4, <3>5, <4>1, <4>2
    <3>6. CASE result[s] = "err"
      <4>1. /\ Entries(failed'[j]) = Entries(failed[j]) \cup {s} /\ Distinct(failed'[j])
        <5>1. failed'[j] = Append(failed[j], s)
          BY <1>6, <2>1, <3>6
        <5> QED  BY <1>2, <1>8, <3>1, <5>1, AppendEntries
      <4>2. HandOK(j)'
        BY <1>1, <1>6, <2>1, <3>1, <3>3, <3>6, <4>1 DEF HandOK
      <4> QED  BY <1>9, <3>2, <3>3, <3>4, <3>6, <4>1, <4>2
    <3> QED  BY <1>4, <3>5, <3>6
  <2>2. CASE call[j] # "all"
    <3>1. Held(j) = {} /\ Held(j)' = {}
      BY <1>6, <2>2 DEF Held
    <3>2. HandOK(j)'
      BY <1>1, <1>4, <1>6, <2>2 DEF HandOK
    <3> QED  BY <3>1, <3>2
  <2> QED  BY <2>1, <2>2
<1>11. (\A i \in Joiners : HandOK(i)') /\ PlacesOK' /\ Retriable'
  <2>1. Entries(registry') \cup Held(j)' \subseteq Entries(registry) \cup Held(j)
    BY <1>4, <1>9, <1>10
  <2>2. \A r \in Entries(registry) \cup Held(j) :
           r \in Entries(registry') \cup Held(j)' \/ result'[r] = "ok"
    BY <1>1, <1>4, <1>9, <1>10
  <2> QED  BY <1>1, <1>5, <1>9, <1>10, <2>1, <2>2, PlacesKeep
<1>12. JoinedLeavesRegistry'
  <2> SUFFICES ASSUME NEW r \in Shards, result[r] = "ok", r \in Entries(registry')
               PROVE  \E i \in Joiners : at'[i] = "unregister" /\ Current(i)' = r
    BY <1>1 DEF JoinedLeavesRegistry
  <2>1. r \in Entries(registry) /\ r # s
    BY <1>4, <1>9
  <2>2. PICK i \in Joiners : at[i] = "unregister" /\ Current(i) = r
    BY <2>1 DEF PInv, JoinedLeavesRegistry
  <2>3. i # j
    BY <2>1, <2>2 DEF s
  <2>4. Current(i)' = Current(i)
    BY <1>5, <2>3 DEF Current
  <2> QED  BY <1>5, <2>2, <2>3, <2>4
<1> QED  BY <1>3, <1>11, <1>12 DEF PInv

-------------------------------------------------------------------------------
\* The places of all entries, for any shards and joiners.
THEOREM PlacesInvariant == Spec => []PInv
<1>1. Init => PInv
  <2> SUFFICES ASSUME Init PROVE PInv
    OBVIOUS
  <2>1. TypeOK
    BY DEF Init, TypeOK
  <2>2. RInv
    BY DEF Init, RInv, RegistryTypes, OutcomesOK, JoinOK, JoinedMeansStopped
  <2>3. Distinct(<<>>) /\ Entries(<<>>) = {}
    BY DEF Distinct, Entries
  <2>4. \A j \in Joiners : HandOK(j) /\ Held(j) = {}
    BY <2>3 DEF Init, HandOK, Held
  <2>5. PlacesOK /\ Retriable
    BY <2>3, <2>4 DEF Init, PlacesOK, Retriable, Registered
  <2>6. JoinedLeavesRegistry
    BY DEF Init, JoinedLeavesRegistry
  <2> QED  BY <2>1, <2>2, <2>4, <2>5, <2>6 DEF PInv
<1>2. PInv /\ [Next]_vars => PInv'
  <2> SUFFICES ASSUME PInv, [Next]_vars PROVE PInv'
    OBVIOUS
  <2>1. CASE UNCHANGED vars
    <3>1. TypeOK' /\ Registered' = Registered /\ JoinedLeavesRegistry'
      BY <2>1 DEF vars, PInv, TypeOK, Registered, JoinedLeavesRegistry, Current
    <3>2. RInv'
      BY <2>1 DEF vars, PInv, RInv, RegistryTypes, OutcomesOK, JoinOK, JoinedMeansStopped
    <3>3. \A j \in Joiners : HandOK(j)' /\ Held(j)' = Held(j)
      BY <2>1 DEF vars, PInv, HandOK, Held, Current
    <3>4. PlacesOK' /\ Retriable'
      BY <2>1, <3>1, <3>3 DEF vars, PInv, PlacesOK, Retriable
    <3> QED  BY <3>1, <3>2, <3>3, <3>4 DEF PInv
  <2>2. ASSUME NEW s \in Shards,
               StartThread(s) \/ Register(s) \/ RequestShutdown(s) \/ Exit(s) \/ Panic(s)
        PROVE  PInv'
    BY <2>2, ThreadPlaces
  <2>3. ASSUME NEW j \in Joiners, CallJoinAll(j) \/ \E s \in Shards : CallJoin(j, s)
        PROVE  PInv'
    BY <2>3, CallPlaces
  <2>4. ASSUME NEW j \in Joiners, JoinStep(j) PROVE PInv'
    BY <2>4, WaitPlaces, RetainPlaces, JoinDonePlaces DEF JoinStep
  <2> QED  BY <2>1, <2>2, <2>3, <2>4 DEF Next
<1> QED  BY <1>1, <1>2, PTL DEF Spec

\* The registry is a list of shards, and the lists of the joiners are.
THEOREM RegistryTypesCorrect == Spec => []TypeOK
<1>1. PInv => TypeOK
  BY DEF PInv
<1> QED  BY <1>1, PlacesInvariant, PTL

\* A shard whose join failed or was not tried stays where a retry finds it, in
\* one place only and once (join_all_shards, unregister_shard).
THEOREM NoShardIsLost == Spec => []NoShardLost
<1>1. ASSUME PInv PROVE NoShardLost
  <2>1. \A s : InHand(s) <=> \E j \in Joiners : s \in Held(j)
    BY DEF InHand, Held
  <2>2. \A s \in Registered : /\ result[s] # "ok" => s \in Entries(registry) \/ InHand(s)
                              /\ s \in Entries(registry) => ~InHand(s)
    BY <1>1, <2>1 DEF PInv, Retriable, PlacesOK
  <2>3. Distinct(registry)
    BY <1>1 DEF PInv, PlacesOK
  <2> DEFINE Times(s) == Cardinality({i \in 1..Len(registry) : registry[i] = s})
  <2>4. \A s : Times(s) <= 1
    <3> TAKE s
    <3> DEFINE I == {i \in 1..Len(registry) : registry[i] = s}
    <3>1. Cardinality(I) = IF s \in Entries(registry) THEN 1 ELSE 0
      BY <2>3, DistinctOnce
    <3> HIDE DEF I
    <3>2. Cardinality(I) <= 1
      BY <3>1
    <3> QED  BY <3>2 DEF I
  <2> HIDE DEF Times
  <2>5. \A s \in Registered : /\ result[s] # "ok" => s \in Entries(registry) \/ InHand(s)
                              /\ s \in Entries(registry) => ~InHand(s)
                              /\ Times(s) <= 1
    BY <2>2, <2>4
  <2> QED  BY <2>5 DEF NoShardLost, Times
<1>2. PInv => NoShardLost
  BY <1>1
<1> QED  BY <1>2, PlacesInvariant, PTL

\* A shard that was joined successfully leaves the registry before the joiner
\* that learnt it returns or goes on (unregister_shard).
THEOREM JoinedShardsLeave == Spec => []JoinedLeavesRegistry
<1>1. PInv => JoinedLeavesRegistry
  BY DEF PInv
<1> QED  BY <1>1, PlacesInvariant, PTL
===============================================================================
