---------------------------- MODULE OutboxContract ----------------------------
(***************************************************************************)
(* What the outbox promises a producer, without replicas, leases, attempts *)
(* or time.  A message that was enqueued is owed until it is delivered and *)
(* removed, or given up on.  Giving up is final: a message that was given  *)
(* up on is neither delivered nor owed again, and is removed some day.     *)
(***************************************************************************)
CONSTANT Ids

VARIABLES
    state,      \* [Ids -> {"new", "pending", "failed", "gone"}]
    delivered   \* [Ids -> BOOLEAN], the receiver has accepted the message

vars == <<state, delivered>>

Init ==
    /\ state = [i \in Ids |-> "new"]
    /\ delivered = [i \in Ids |-> FALSE]

\* The transaction of the producer commits.
Submit(i) ==
    /\ state[i] = "new"
    /\ state' = [state EXCEPT ![i] = "pending"]
    /\ UNCHANGED delivered

\* The receiver accepts the message, possibly not for the first time.
Deliver(i) ==
    /\ state[i] = "pending"
    /\ delivered' = [delivered EXCEPT ![i] = TRUE]
    /\ UNCHANGED state

\* A delivered message is forgotten.
Settle(i) ==
    /\ state[i] = "pending" /\ delivered[i]
    /\ state' = [state EXCEPT ![i] = "gone"]
    /\ UNCHANGED delivered

GiveUp(i) ==
    /\ state[i] = "pending"
    /\ state' = [state EXCEPT ![i] = "failed"]
    /\ UNCHANGED delivered

\* Messages given up on are removed, some at a time.
Purge(S) ==
    /\ \A i \in S : state[i] = "failed"
    /\ state' = [i \in Ids |-> IF i \in S THEN "gone" ELSE state[i]]
    /\ UNCHANGED delivered

Resolve(i) == Settle(i) \/ GiveUp(i)

Next ==
    \/ \E i \in Ids : Submit(i) \/ Deliver(i) \/ Resolve(i)
    \/ \E S \in SUBSET Ids : Purge(S)

\* What the outbox may do.
SafeSpec == Init /\ [][Next]_vars

\* And what it does some day: nothing stays owed for ever.
Spec == SafeSpec /\ \A i \in Ids : WF_vars(Resolve(i))

===============================================================================
