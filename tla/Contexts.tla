------------------------------- MODULE Contexts -------------------------------
(* The requests of a process and their contexts, which its parts share. *)
CONSTANT Requests

VARIABLE ctxDone  \* [Requests -> BOOLEAN], the deadline passed or the client left

===============================================================================
