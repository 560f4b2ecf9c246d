------------------------------- MODULE MCRpc -------------------------------
(***************************************************************************)
(* Configurations and handler errors for model checking Rpc.               *)
(***************************************************************************)
EXTENDS Rpc

Unary(mode, edge, inner) ==
  [kind |-> "unary", mode |-> mode, registry |-> TRUE, optional |-> FALSE, configured |-> TRUE,
   retries |-> FALSE,
   chain |-> [edge |-> edge, inner |-> inner]]

\* The chain of the README at the edge, and an inner service with internal methods.
Usual == Unary("forward", <<"validation", "auth", "timeout">>, <<"auth", "internal">>)

MCConfigs ==
  {Usual,
   [Usual EXCEPT !.optional = TRUE, !.registry = FALSE],
   [Usual EXCEPT !.configured = FALSE, !.chain.edge = <<"ratelimit", "auth">>],
   Unary("context", <<"auth">>, <<"internal", "auth", "role">>),
   [Unary("service", <<"auth">>, <<"internal">>) EXCEPT !.retries = TRUE],
   [Unary("metadata", <<"auth">>, <<"auth">>) EXCEPT !.kind = "stream"]}

\* The same with the service token appended instead of set.
MCStaticConfigs == {Unary("static", <<"auth">>, <<"internal">>)}
MCUsual == {Usual}

Request(method, authorization, id, deadline) ==
  [method |-> method, authorization |-> authorization, id |-> id, deadline |-> deadline]

\* A method that asks for a token, with every sort of header; one that does not, from a
\* client that sends its own id and deadline.
MCRequests ==
  {Request("profile", a, Absent, FALSE) : a \in {<<>>} \cup {<<h>> : h \in Headers}}
  \cup {Request("login", a, "client", TRUE) : a \in {<<>>, <<"user">>}}

MCEdgeFailures == {PgMapError("conflict"), Status("Unknown")}
MCInnerFailures == {Plain, Status("Unavailable")}
=============================================================================
