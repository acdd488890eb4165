-------------------------------- MODULE Mailbox --------------------------------
(***************************************************************************)
(* What a shard promises to its callers (engine.rs, Command and            *)
(* request_shutdown): calls start one after the other in the order they    *)
(* were accepted; shutdown refuses new calls, and the shard stops only     *)
(* after every accepted call has started; every call is answered, a        *)
(* refused one at once.  The one exception is a shard that dies: it        *)
(* answers what it had accepted, started or not.                           *)
(***************************************************************************)
EXTENDS Naturals, Sequences

CONSTANT Calls

VARIABLES
  accepted,  (* the calls accepted, in order                                *)
  started,   (* how many of them have started                               *)
  answered,  (* the calls whose caller can see an answer                    *)
  state      (* "open", "closed", "stopped" or "dead"                       *)

vars == <<accepted, started, answered, state>>

InSeq(c, s) == \E i \in 1..Len(s) : s[i] = c

Init == accepted = <<>> /\ started = 0 /\ answered = {} /\ state = "open"

Accept(c) ==
  /\ state = "open"
  /\ ~InSeq(c, accepted) /\ c \notin answered
  /\ accepted' = Append(accepted, c)
  /\ UNCHANGED <<started, answered, state>>

Refuse(c) ==
  /\ state # "open"
  /\ ~InSeq(c, accepted)
  /\ answered' = answered \cup {c}
  /\ UNCHANGED <<accepted, started, state>>

\* The next call starts; if it needs no waiting it is answered as well.
Start ==
  /\ state \in {"open", "closed"}
  /\ started < Len(accepted)
  /\ started' = started + 1
  /\ answered' \in {answered, answered \cup {accepted[started + 1]}}
  /\ UNCHANGED <<accepted, state>>

\* Calls that have started are answered.
Answer(S) ==
  /\ S \subseteq {accepted[i] : i \in 1..started}
  /\ answered' = answered \cup S
  /\ UNCHANGED <<accepted, started, state>>

Close == state = "open" /\ state' = "closed" /\ UNCHANGED <<accepted, started, answered>>

Stop ==
  /\ state = "closed" /\ started = Len(accepted)
  /\ state' = "stopped"
  /\ UNCHANGED <<accepted, started, answered>>

\* A shard that dies answers every call it had accepted.
Die ==
  /\ state # "dead"
  /\ state' = "dead"
  /\ answered' = answered \cup {accepted[i] : i \in 1..Len(accepted)}
  /\ UNCHANGED <<accepted, started>>

Next ==
  \/ Start \/ Close \/ Stop \/ Die
  \/ \E c \in Calls : Accept(c) \/ Refuse(c)
  \/ \E S \in SUBSET Calls : Answer(S)

\* Accepted calls get started and a closed shard stops, unless the shard dies.
Spec == Init /\ [][Next]_vars /\ WF_vars(Start) /\ WF_vars(Stop)
===============================================================================
