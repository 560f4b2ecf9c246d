------------------------------ MODULE HttpServer ------------------------------
(***************************************************************************)
(* The life of httpserver.Server: Run listens, serves in a goroutine of    *)
(* its own and, when the context is done, gives Shutdown ShutdownTimeout   *)
(* to see every request off before it calls Close.                         *)
(*                                                                         *)
(* net/http is the environment: Serve returns as soon as Shutdown begins,  *)
(* Shutdown returns nil when no request is left and an error when its      *)
(* context expires, Close closes the connections and waits for nobody.     *)
(***************************************************************************)
EXTENDS Integers

CONSTANTS
    Requests,         \* the requests clients make
    ShutdownTimeout

\* What Config.withDefaults sees to.
HttpConfig == ShutdownTimeout \in Nat \ {0}

VARIABLES
    ctxDone,    \* the context of Run is done
    run,        \* where Run is
    serve,      \* the goroutine of Serve: {"none", "starting", "serving", "over"}
    errCh,      \* {"empty", "nil", "error"}
    closing,    \* Shutdown has closed the listener
    timer,      \* time left of ShutdownTimeout
    request,    \* [Requests -> {"none", "active", "cut", "done", "refused"}]
    result      \* {"none", "nil", "error"}, what Run returned

serverVars == <<run, serve, errCh, closing, timer, result>>
vars == <<ctxDone, serverVars, request>>

TypeOK ==
    /\ ctxDone \in BOOLEAN
    /\ run \in {"listen", "select", "shutdown", "await", "returned"}
    /\ serve \in {"none", "starting", "serving", "over"}
    /\ errCh \in {"empty", "nil", "error"}
    /\ closing \in BOOLEAN
    /\ timer \in 0..ShutdownTimeout
    /\ request \in [Requests -> {"none", "active", "cut", "done", "refused"}]
    /\ result \in {"none", "nil", "error"}

ServerInit ==
    /\ run = "listen"
    /\ serve = "none"
    /\ errCh = "empty"
    /\ closing = FALSE
    /\ timer = 0
    /\ request = [r \in Requests |-> "none"]
    /\ result = "none"

Init == ctxDone = FALSE /\ ServerInit

Listening == serve \in {"starting", "serving"} /\ ~closing

Active == {r \in Requests : request[r] = "active"}

-------------------------------------------------------------------------------
(* Run *)

\* There is a handler, net.Listen succeeds, Serve gets a goroutine.
Listen ==
    /\ run = "listen"
    /\ run' = "select"
    /\ serve' = "starting"
    /\ UNCHANGED <<ctxDone, errCh, closing, timer, result, request>>

\* There is no handler, or net.Listen fails.
ListenFails ==
    /\ run = "listen"
    /\ run' = "returned"
    /\ result' = "error"
    /\ UNCHANGED <<ctxDone, serve, errCh, closing, timer, request>>

\* Slip: the deadline of Shutdown is that of the context that is already done.
BeginShutdownInherits ==
    /\ run = "select"
    /\ ctxDone
    /\ run' = "shutdown"
    /\ closing' = TRUE
    /\ timer' = 0
    /\ UNCHANGED <<ctxDone, serve, errCh, result, request>>

\* The select sees the context done and Shutdown begins, with a context of its
\* own that outlives ctx.
BeginShutdown ==
    /\ run = "select"
    /\ ctxDone
    /\ run' = "shutdown"
    /\ closing' = TRUE
    /\ timer' = ShutdownTimeout
    /\ UNCHANGED <<ctxDone, serve, errCh, result, request>>

\* Shutdown returns nil: no request is left.
ShutdownReturns ==
    /\ run = "shutdown"
    /\ Active = {}
    /\ run' = "await"
    /\ timer' = 0
    /\ UNCHANGED <<ctxDone, serve, errCh, closing, result, request>>

\* Slip: no Close after the deadline.
ShutdownExpiresOpen ==
    /\ run = "shutdown"
    /\ timer = 0
    /\ run' = "await"
    /\ UNCHANGED <<ctxDone, serve, errCh, closing, timer, result, request>>

\* The context of Shutdown expires and Close cuts the connections.
ShutdownExpires ==
    /\ run = "shutdown"
    /\ timer = 0
    /\ run' = "await"
    /\ request' = [r \in Requests |-> IF request[r] = "active" THEN "cut"
                                                               ELSE request[r]]
    /\ UNCHANGED <<ctxDone, serve, errCh, closing, timer, result>>

\* Slip: after Shutdown, what errCh holds is taken for ErrServerClosed.
ReturnNilAfterStop ==
    /\ run \in {"select", "await"}
    /\ errCh # "empty"
    /\ run' = "returned"
    /\ result' = IF run = "await" THEN "nil" ELSE errCh
    /\ UNCHANGED <<ctxDone, serve, errCh, closing, timer, request>>

\* Run receives from errCh, at once or after Shutdown.
Return ==
    /\ run \in {"select", "await"}
    /\ errCh # "empty"
    /\ run' = "returned"
    /\ result' = errCh
    /\ UNCHANGED <<ctxDone, serve, errCh, closing, timer, request>>

-------------------------------------------------------------------------------
(* The goroutine of Serve and net/http *)

\* What the goroutine of Serve sends: nothing of ErrServerClosed gets through.
ServeReturns(outcome) ==
    /\ serve' = "over"
    /\ errCh' = outcome
    /\ UNCHANGED <<ctxDone, run, closing, timer, result, request>>

ServeBegins ==
    /\ serve = "starting"
    /\ ~closing
    /\ serve' = "serving"
    /\ UNCHANGED <<ctxDone, run, errCh, closing, timer, result, request>>

\* Serve returns ErrServerClosed, even if Shutdown came before it began.
ServeEnds ==
    /\ serve \in {"starting", "serving"}
    /\ closing
    /\ ServeReturns("nil")

\* Accept fails for good.
ServeFails ==
    /\ serve = "serving"
    /\ ~closing
    /\ ServeReturns("error")

-------------------------------------------------------------------------------
(* Clients and handlers *)

RequestArrives(r) ==
    /\ request[r] = "none"
    /\ run # "listen"
    /\ request' = [request EXCEPT ![r] = IF Listening THEN "active"
                                                      ELSE "refused"]
    /\ UNCHANGED <<ctxDone, serverVars>>

\* The handler answers.
RequestDone(r) ==
    /\ request[r] = "active"
    /\ request' = [request EXCEPT ![r] = "done"]
    /\ UNCHANGED <<ctxDone, serverVars>>

\* The context of Run is cancelled.
Cancel ==
    /\ ~ctxDone
    /\ ctxDone' = TRUE
    /\ UNCHANGED <<serverVars, request>>

\* A unit of time passes.
Tick ==
    /\ timer > 0
    /\ timer' = timer - 1
    /\ UNCHANGED <<ctxDone, run, serve, errCh, closing, result, request>>

-------------------------------------------------------------------------------
RunStep ==
    \/ Listen \/ ListenFails
    \/ BeginShutdown \/ ShutdownReturns \/ ShutdownExpires \/ Return

LibraryStep == ServeBegins \/ ServeEnds

\* Neither Run nor the goroutine of Serve has to wait: RunStep or LibraryStep
\* can be taken.
Ready ==
    \/ run = "listen"
    \/ run = "select" /\ ctxDone
    \/ run \in {"select", "await"} /\ errCh # "empty"
    \/ run = "shutdown" /\ (Active = {} \/ timer = 0)
    \/ serve = "starting"
    \/ serve = "serving" /\ closing

ServerNext ==
    \/ RunStep \/ LibraryStep \/ ServeFails
    \/ \E r \in Requests : RequestArrives(r) \/ RequestDone(r)

Next == ServerNext \/ Cancel \/ Tick

Spec == Init /\ [][Next]_vars

===============================================================================
