---------------------------- MODULE ErrorMapping ----------------------------
(***************************************************************************)
(* How an error travels to the client: the kinds of package apperr, the    *)
(* translation of PostgreSQL errors (postgresql.MapError), the translation *)
(* to a gRPC status (grpcserver.MapError) and the code the log and the     *)
(* metrics see (status.Code).                                              *)
(*                                                                         *)
(* An error is the outermost layer that errors.As and errors.Is find in it *)
(* plus what its text says: "public" for a text written for the client,    *)
(* "raw" for one that quotes the cause (a query, an address, a value).     *)
(***************************************************************************)

\* apperr.Kind.
Kinds == {"InvalidArgument", "Unauthenticated", "PermissionDenied", "NotFound",
          "AlreadyExists", "Conflict", "FailedPrecondition", "RateLimited",
          "Timeout", "Unavailable", "Internal", "Unknown"}

\* The gRPC codes the packages use.
Codes == {"OK", "Canceled", "Unknown", "InvalidArgument", "DeadlineExceeded",
          "NotFound", "AlreadyExists", "PermissionDenied", "ResourceExhausted",
          "FailedPrecondition", "Aborted", "Internal", "Unavailable", "Unauthenticated"}

Error == [class : {"none"}, code : {"OK"}, text : {"public"}]
         \cup [class : {"status"}, code : Codes \ {"OK"}, text : {"public", "raw"}]
         \cup [class : {"app"}, code : Kinds, text : {"public", "raw"}]
         \cup [class : {"canceled", "deadline", "plain"}, code : {"-"}, text : {"raw"}]

NoError == [class |-> "none", code |-> "OK", text |-> "public"]
Status(code) == [class |-> "status", code |-> code, text |-> "public"]

\* apperr.New keeps no cause; apperr.Wrap keeps it in the text of the error.
New(kind) == [class |-> "app", code |-> kind, text |-> "public"]
Wrap(kind) == [class |-> "app", code |-> kind, text |-> "raw"]

\* The errors of the context package, and any other error.
ContextCanceled == [class |-> "canceled", code |-> "-", text |-> "raw"]
ContextDeadlineExceeded == [class |-> "deadline", code |-> "-", text |-> "raw"]
Plain == [class |-> "plain", code |-> "-", text |-> "raw"]

\* fmt.Errorf("...: %w", e): the layers stay, the text gains a private prefix.
Wrapped(e) == IF e.class = "none" THEN e ELSE [e EXCEPT !.text = "raw"]

\* What pgx reports: no rows, a PgError by its class of codes, or any error that is
\* not a PgError (a broken connection, a cancelled context).
PgFailures == {"no_rows", "unique", "foreign_key", "constraint", "conflict",
               "query_canceled", "other_code", "not_pg"}

PgMapError(failure) ==
  Wrap(CASE failure = "no_rows"        -> "NotFound"
         [] failure = "unique"         -> "AlreadyExists"
         [] failure = "foreign_key"    -> "FailedPrecondition"
         [] failure = "constraint"     -> "InvalidArgument"
         [] failure = "conflict"       -> "Conflict"
         [] failure = "query_canceled" -> "Timeout"
         [] OTHER                      -> "Internal")

\* grpcserver.CodeOf.
CodeOf(kind) ==
  CASE kind = "Conflict"    -> "Aborted"
    [] kind = "RateLimited" -> "ResourceExhausted"
    [] kind = "Timeout"     -> "DeadlineExceeded"
    [] kind = "Unknown"     -> "Internal"
    [] OTHER                -> kind

-----------------------------------------------------------------------------
\* Slip: the text of the status is the text of the error.
MapErrorQuoting(e) ==
  CASE e.class \in {"none", "status"} -> e
    [] e.class = "app"      -> [Status(CodeOf(e.code)) EXCEPT !.text = e.text]
    [] e.class = "canceled" -> Status("Canceled")
    [] e.class = "deadline" -> Status("DeadlineExceeded")
    [] OTHER                -> Status("Internal")

\* grpcserver.MapError: the domain error first, then a status as it is, then the
\* context errors; whatever is left says nothing but "internal server error".
MapError(e) ==
  CASE e.class \in {"none", "status"} -> e
    [] e.class = "app"      -> Status(CodeOf(e.code))
    [] e.class = "canceled" -> Status("Canceled")
    [] e.class = "deadline" -> Status("DeadlineExceeded")
    [] OTHER                -> Status("Internal")

\* status.Code of the grpc library: anything that is not a status is Unknown.
StatusCode(e) == IF e.class \in {"none", "status"} THEN e.code ELSE "Unknown"
=============================================================================
