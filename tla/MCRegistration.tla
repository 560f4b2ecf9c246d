---------------------------- MODULE MCRegistration ----------------------------
(* Registration on a small instance: every request inserts the same key. *)
EXTENDS Registration

CONSTANT key

MCKeyOf == [r \in Requests |-> key]

===============================================================================
