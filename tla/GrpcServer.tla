------------------------------ MODULE GrpcServer ------------------------------
(***************************************************************************)
(* The life of grpcserver.Server: Run listens, serves in a goroutine of    *)
(* its own and, when the context is done, stop turns the health status to  *)
(* NOT_SERVING, waits DrainDelay for the balancer to look elsewhere, calls *)
(* GracefulStop and, after GracefulStopTimeout, Stop.                      *)
(*                                                                         *)
(* The grpc library (Serve, GracefulStop, Stop), the handlers and the      *)
(* balancer that probes the health service are the environment: Serve      *)
(* returns once a stop is over, GracefulStop waits for every handler, Stop *)
(* closes the connections, which ends the contexts of the handlers.        *)
(***************************************************************************)
EXTENDS Integers

CONSTANTS
    Calls,               \* the calls clients make, one handler each
    StuckCalls,          \* the calls whose handler may never return
    EnableHealth, DrainDelay, GracefulStopTimeout,
    ProbePeriod          \* time between two probes of the balancer

\* What Config.withDefaults sees to.
GrpcConfig ==
    /\ StuckCalls \subseteq Calls
    /\ EnableHealth \in BOOLEAN
    /\ DrainDelay \in Nat
    /\ GracefulStopTimeout \in Nat \ {0}
    /\ ProbePeriod \in Nat \ {0}

VARIABLES
    ctxDone,   \* the context of Run is done
    run,       \* where Run and stop are
    serve,     \* the goroutine of Serve: {"none", "starting", "serving", "over"}
    errCh,     \* {"empty", "nil", "stopped", "error"}
    graceful,  \* the goroutine of GracefulStop: {"none", "waiting", "over"}
    health,    \* the status is SERVING
    timer,     \* time left of DrainDelay or GracefulStopTimeout
    call,      \* [Calls -> {"none", "active", "cut", "done", "refused"}]
    routed,    \* the balancer sends calls here
    probe,     \* time left to the next probe
    result     \* {"none", "nil", "error"}, what Run returned

serverVars == <<run, serve, errCh, graceful, health, timer, result>>
vars == <<ctxDone, serverVars, call, routed, probe>>

RunPCs == {"listen", "select", "drain", "graceful", "forced", "await",
           "returned"}

TypeOK ==
    /\ ctxDone \in BOOLEAN
    /\ run \in RunPCs
    /\ serve \in {"none", "starting", "serving", "over"}
    /\ errCh \in {"empty", "nil", "stopped", "error"}
    /\ graceful \in {"none", "waiting", "over"}
    /\ health \in BOOLEAN
    /\ timer \in Nat
    /\ call \in [Calls -> {"none", "active", "cut", "done", "refused"}]
    /\ routed \in BOOLEAN
    /\ probe \in 0..ProbePeriod
    /\ result \in {"none", "nil", "error"}

ServerInit ==
    /\ run = "listen"
    /\ serve = "none"
    /\ errCh = "empty"
    /\ graceful = "none"
    /\ health = FALSE
    /\ timer = 0
    /\ call = [c \in Calls |-> "none"]
    /\ routed = FALSE
    /\ probe = 0
    /\ result = "none"

Init == ctxDone = FALSE /\ ServerInit

\* The socket takes connections: from net.Listen until a stop closes it.
Listening == serve \in {"starting", "serving"} /\ graceful = "none"

Handling == {c \in Calls : call[c] \in {"active", "cut"}}

-------------------------------------------------------------------------------
(* Run *)

\* net.Listen succeeds, the health service is set up, Serve gets a goroutine.
Listen ==
    /\ run = "listen"
    /\ run' = "select"
    /\ serve' = "starting"
    /\ health' = EnableHealth
    /\ UNCHANGED <<ctxDone, errCh, graceful, timer, result, call, routed, probe>>

\* net.Listen fails.
ListenFails ==
    /\ run = "listen"
    /\ run' = "returned"
    /\ result' = "error"
    /\ UNCHANGED <<ctxDone, serve, errCh, graceful, health, timer, call,
                   routed, probe>>

\* Slip: the timer is set to another duration of the configuration.
GracefulStopForDrainDelay ==
    /\ run' = "graceful"
    /\ graceful' = "waiting"
    /\ timer' = DrainDelay

\* stop starts GracefulStop and the timer.
CallGracefulStop ==
    /\ run' = "graceful"
    /\ graceful' = "waiting"
    /\ timer' = GracefulStopTimeout

\* Slip: no delay between NOT_SERVING and GracefulStop.
StopWithoutDrain ==
    /\ run = "select"
    /\ ctxDone
    /\ health' = FALSE
    /\ CallGracefulStop
    /\ UNCHANGED <<ctxDone, serve, errCh, result, call, routed, probe>>

\* The select sees the context done: stop begins.
BeginStop ==
    /\ run = "select"
    /\ ctxDone
    /\ health' = FALSE
    /\ IF EnableHealth /\ DrainDelay > 0
       THEN run' = "drain" /\ timer' = DrainDelay /\ UNCHANGED graceful
       ELSE CallGracefulStop
    /\ UNCHANGED <<ctxDone, serve, errCh, result, call, routed, probe>>

\* The sleep is over.
DrainOver ==
    /\ run = "drain"
    /\ timer = 0
    /\ CallGracefulStop
    /\ UNCHANGED <<ctxDone, serve, errCh, health, result, call, routed, probe>>

\* The select of stop sees GracefulStop over.
GracefulOver ==
    /\ run \in {"graceful", "forced"}
    /\ graceful = "over"
    /\ run' = "await"
    /\ timer' = 0
    /\ UNCHANGED <<ctxDone, serve, errCh, graceful, health, result, call,
                   routed, probe>>

\* Slip: after Stop, the end of GracefulStop is not waited for.
ForceAndLeave ==
    /\ run = "graceful"
    /\ timer = 0
    /\ run' = "await"
    /\ call' = [c \in Calls |-> IF call[c] = "active" THEN "cut" ELSE call[c]]
    /\ UNCHANGED <<ctxDone, serve, errCh, graceful, health, timer, result,
                   routed, probe>>

\* The timer of stop fires: Stop closes the connections, and stop goes on to
\* wait for GracefulStop.
ForceStop ==
    /\ run = "graceful"
    /\ timer = 0
    /\ run' = "forced"
    /\ call' = [c \in Calls |-> IF call[c] = "active" THEN "cut" ELSE call[c]]
    /\ UNCHANGED <<ctxDone, serve, errCh, graceful, health, timer, result,
                   routed, probe>>

\* Slip: ErrServerStopped is passed on.
ReturnRawError ==
    /\ run \in {"select", "await"}
    /\ errCh # "empty"
    /\ run' = "returned"
    /\ result' = IF errCh = "nil" THEN "nil" ELSE "error"
    /\ UNCHANGED <<ctxDone, serve, errCh, graceful, health, timer, call,
                   routed, probe>>

\* Run receives from errCh, at once or after stop: normalizeServeError.
Return ==
    /\ run \in {"select", "await"}
    /\ errCh # "empty"
    /\ run' = "returned"
    /\ result' = IF errCh = "error" THEN "error" ELSE "nil"
    /\ UNCHANGED <<ctxDone, serve, errCh, graceful, health, timer, call,
                   routed, probe>>

-------------------------------------------------------------------------------
(* The grpc library *)

\* Serve begins to accept, or finds the server stopped before it began.
ServeBegins ==
    /\ serve = "starting"
    /\ IF graceful = "none"
       THEN serve' = "serving" /\ UNCHANGED errCh
       ELSE serve' = "over" /\ errCh' = "stopped"
    /\ UNCHANGED <<ctxDone, run, graceful, health, timer, result, call, routed,
                   probe>>

\* Accept fails for good.
ServeFails ==
    /\ serve = "serving"
    /\ graceful = "none"
    /\ serve' = "over"
    /\ errCh' = "error"
    /\ UNCHANGED <<ctxDone, run, graceful, health, timer, result, call, routed,
                   probe>>

\* Serve returns nil when a stop is over.
ServeEnds ==
    /\ serve = "serving"
    /\ graceful = "over" \/ run \in {"forced", "await"}
    /\ serve' = "over"
    /\ errCh' = "nil"
    /\ UNCHANGED <<ctxDone, run, graceful, health, timer, result, call, routed,
                   probe>>

\* GracefulStop returns once no handler is left.
GracefulStopReturns ==
    /\ graceful = "waiting"
    /\ Handling = {}
    /\ graceful' = "over"
    /\ UNCHANGED <<ctxDone, run, serve, errCh, health, timer, result, call,
                   routed, probe>>

-------------------------------------------------------------------------------
(* Clients, handlers and the balancer *)

\* A client makes a call through the balancer.
CallArrives(c) ==
    /\ call[c] = "none"
    /\ routed
    /\ call' = [call EXCEPT ![c] = IF Listening THEN "active" ELSE "refused"]
    /\ UNCHANGED <<ctxDone, serverVars, routed, probe>>

\* A handler returns; one whose connection was closed has nobody to answer.
HandlerReturns(c) ==
    /\ call[c] \in {"active", "cut"}
    /\ call' = [call EXCEPT ![c] = "done"]
    /\ UNCHANGED <<ctxDone, serverVars, routed, probe>>

\* The balancer probes the health service and routes accordingly.
Probe ==
    /\ probe = 0
    /\ probe' = ProbePeriod
    /\ routed' = (Listening /\ health)
    /\ UNCHANGED <<ctxDone, serverVars, call>>

\* The context of Run is cancelled.
Cancel ==
    /\ ~ctxDone
    /\ ctxDone' = TRUE
    /\ UNCHANGED <<serverVars, call, routed, probe>>

\* A unit of time passes; the balancer keeps its period.
Tick ==
    /\ probe > 0
    /\ probe' = probe - 1
    /\ timer' = IF timer > 0 THEN timer - 1 ELSE 0
    /\ UNCHANGED <<ctxDone, run, serve, errCh, graceful, health, result, call,
                   routed>>

-------------------------------------------------------------------------------
RunStep ==
    \/ Listen \/ ListenFails
    \/ BeginStop \/ DrainOver \/ GracefulOver \/ ForceStop \/ Return

LibraryStep == ServeBegins \/ ServeEnds \/ GracefulStopReturns

\* Neither Run nor a goroutine of the library has to wait: RunStep or
\* LibraryStep can be taken.
Ready ==
    \/ run = "listen"
    \/ run = "select" /\ ctxDone
    \/ run \in {"select", "await"} /\ errCh # "empty"
    \/ run \in {"drain", "graceful"} /\ timer = 0
    \/ run \in {"graceful", "forced"} /\ graceful = "over"
    \/ serve = "starting"
    \/ serve = "serving" /\ (graceful = "over" \/ run \in {"forced", "await"})
    \/ graceful = "waiting" /\ Handling = {}

ServerNext ==
    \/ RunStep \/ LibraryStep \/ ServeFails
    \/ \E c \in Calls : CallArrives(c) \/ HandlerReturns(c)
    \/ Probe

Next == ServerNext \/ Cancel \/ Tick

Spec == Init /\ [][Next]_vars

-------------------------------------------------------------------------------
(* What the server promises *)

\* A planned stop reports no error, however it races with the start of Serve.
PlannedStopIsClean ==
    result = "error" => errCh = "error" \/ serve = "none"

===============================================================================
