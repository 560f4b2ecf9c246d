------------------------------- MODULE MCOutbox -------------------------------
(* Outbox, and the loop of its pauses, on small instances. *)
EXTENDS Outbox, OutboxBackoff, TLC

\* Messages and replicas are interchangeable.
Symmetry == Permutations(Ids) \cup Permutations(Workers)

\* Bound: one message meets MaxFaults faults, each further one two fewer.
WithinLoad ==
    (MaxFaults - faults) + 2 * Cardinality({i \in Ids : rowState[i] # "new"})
        <= MaxFaults + 2

\* The outbox with its processes scheduled, within that bound.  Only faults and
\* Enqueue run into it, which nothing forces.
LoadSpec == Init /\ [][Next /\ WithinLoad']_vars /\ Fairness

===============================================================================
