------------------------------- MODULE MCStartup -------------------------------
(* Startup on a small instance. *)
EXTENDS Startup

CONSTANTS a1, a2, b1

\* Two replicas of one service, the second with an older binary, and a service
\* without a database that waits for them.
MCVersions == [r \in Replicas |-> CASE r = a1 -> 2 [] r = a2 -> 1 [] r = b1 -> 0]

MCNeeds == [r \in Replicas |-> IF r = b1 THEN {a1, a2} ELSE {}]

===============================================================================
