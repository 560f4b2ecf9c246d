-------------------------------- MODULE Service --------------------------------
(***************************************************************************)
(* A service as the README of the repository assembles it, a Runner with a *)
(* gRPC server and the HTTP server of the operational endpoints, plus the  *)
(* worker that the README of the outbox adds.                              *)
(* The three share groupCtx of the Runner: each server reads it as its own *)
(* context, and the Runner learns that a component is over when Run of     *)
(* that component has returned.                                            *)
(*                                                                         *)
(* Time is common to all, and passes only when no goroutine of the service *)
(* has something to do at once.                                            *)
(***************************************************************************)
EXTENDS Integers, FiniteSets

CONSTANTS
    ShutdownTimeout, MaxSignals,                     \* of the Runner
    Calls, StuckCalls, EnableHealth, DrainDelay,     \* of the gRPC server
    GracefulStopTimeout, ProbePeriod,
    Requests, HttpShutdownTimeout,                   \* of the HTTP server
    PoolUsers                                        \* calls whose handler holds
                                                     \* a connection of the pool

Components == {"grpc", "ops", "worker"}
Stubborn == {}

VARIABLES
    comp, groupDone, run, result, timer, sigs, sent, handler, stopped, process,
    gRun, gServe, gErrCh, graceful, health, gTimer, call, routed, probe,
    gResult,
    hRun, hServe, hErrCh, closing, hTimer, request, hResult,
    hanging     \* a Send of the worker has ignored the end of the group

R == INSTANCE Runner

G == INSTANCE GrpcServer WITH
       ctxDone <- groupDone, run <- gRun, serve <- gServe, errCh <- gErrCh,
       timer <- gTimer, result <- gResult

H == INSTANCE HttpServer WITH
       ShutdownTimeout <- HttpShutdownTimeout,
       ctxDone <- groupDone, run <- hRun, serve <- hServe, errCh <- hErrCh,
       timer <- hTimer, result <- hResult

runnerVars == <<comp, groupDone, run, result, timer, sigs, sent, handler,
                stopped, process>>
grpcVars == <<gRun, gServe, gErrCh, graceful, health, gTimer, call, routed,
              probe, gResult>>
httpVars == <<hRun, hServe, hErrCh, closing, hTimer, request, hResult>>
vars == <<runnerVars, grpcVars, httpVars, hanging>>

ASSUME ServiceAssumption ==
    R!RunnerConfig /\ G!GrpcConfig /\ H!HttpConfig /\ PoolUsers \subseteq Calls

TypeOK == R!TypeOK /\ G!TypeOK /\ H!TypeOK /\ hanging \in BOOLEAN

Init == R!Init /\ G!ServerInit /\ H!ServerInit /\ hanging = FALSE

-------------------------------------------------------------------------------
\* The Runner sees a server return what its Run returned.
Outcome(res) == IF res = "nil" THEN "ok" ELSE "error"

GrpcReturns ==
    /\ gRun = "returned"
    /\ R!ComponentReturns("grpc", Outcome(gResult))
    /\ UNCHANGED <<grpcVars, httpVars, hanging>>

OpsReturns ==
    /\ hRun = "returned"
    /\ R!ComponentReturns("ops", Outcome(hResult))
    /\ UNCHANGED <<grpcVars, httpVars, hanging>>

\* The group is done and a Send of the worker's batch goes on; it may even begin
\* now, since a batch that was claimed in time is delivered to its end.  Sends
\* that heed their context are over as soon as the group is done.
SendHangs ==
    /\ process = "up"
    /\ comp["worker"] = "running"
    /\ groupDone
    /\ ~hanging
    /\ hanging' = TRUE
    /\ UNCHANGED <<runnerVars, grpcVars, httpVars>>

\* Run of the worker, which waits for its batch, returns nil.
WorkerReturns ==
    /\ R!ComponentReturns("worker", "ok")
    /\ UNCHANGED <<grpcVars, httpVars, hanging>>

\* The steps of one part while the process is up; the others do not move.
GrpcPart(A) == process = "up" /\ A /\ UNCHANGED <<runnerVars, httpVars, hanging>>

HttpPart(A) == process = "up" /\ A /\ UNCHANGED <<runnerVars, grpcVars, hanging>>

RunnerPart(A) == A /\ UNCHANGED <<grpcVars, httpVars, hanging>>

\* A handler whose connection was closed returns, if it heeds its context.
CutHandlerReturns ==
    \E c \in Calls \ StuckCalls : call[c] = "cut" /\ G!HandlerReturns(c)

\* What the goroutines of the service do without waiting for anything.
GrpcStep == GrpcPart(G!RunStep \/ G!LibraryStep \/ CutHandlerReturns)

HttpStep == HttpPart(H!RunStep \/ H!LibraryStep)

\* The deferred pool.Close of main runs before the deferred stop, and waits
\* until no handler has a connection of the pool.
PoolInUse == PoolUsers \cap G!Handling # {}

MainStep == (R!Stop /\ ~PoolInUse) \/ R!Exit

RunnerStep ==
    \/ RunnerPart(R!RunStep \/ R!HandlerStep \/ R!HandlerEnds \/ MainStep)
    \/ GrpcReturns \/ OpsReturns

\* The worker of the outbox returns once it is told to stop.
WorkerStep == groupDone /\ ~hanging /\ WorkerReturns

ServiceStep == GrpcStep \/ HttpStep \/ RunnerStep \/ WorkerStep

\* What clients, the balancer and the system do, and when the worker returns if
\* nothing makes it: before the end of the group, as another function given to Add
\* may, or when a Send that ignored that end is over.
Environment ==
    \/ GrpcPart(G!ServeFails \/ G!Probe)
    \/ \E c \in Calls : GrpcPart(G!CallArrives(c) \/ G!HandlerReturns(c))
    \/ HttpPart(H!ServeFails)
    \/ \E r \in Requests : HttpPart(H!RequestArrives(r) \/ H!RequestDone(r))
    \/ SendHangs
    \/ (~groupDone \/ hanging) /\ WorkerReturns
    \/ RunnerPart(R!Signal)

\* A goroutine of the service can go on: while the process is up this is
\* ENABLED ServiceStep, in a form the provers understand.
Ready ==
    \/ R!Ready \/ G!Ready \/ H!Ready
    \/ \E c \in Calls \ StuckCalls : call[c] = "cut"
    \/ run = "returned" /\ ~PoolInUse
    \/ stopped
    \/ gRun = "returned" /\ comp["grpc"] = "running"
    \/ hRun = "returned" /\ comp["ops"] = "running"
    \/ groupDone /\ comp["worker"] = "running" /\ ~hanging

Down(t) == IF t > 0 THEN t - 1 ELSE 0

\* A unit of time passes everywhere.
Tick ==
    /\ process = "up"
    /\ probe > 0
    /\ ~Ready
    /\ probe' = probe - 1
    /\ timer' = Down(timer)
    /\ gTimer' = Down(gTimer)
    /\ hTimer' = Down(hTimer)
    /\ UNCHANGED <<comp, groupDone, run, result, sigs, sent, handler, stopped,
                   process, gRun, gServe, gErrCh, graceful, health, call,
                   routed, gResult, hRun, hServe, hErrCh, closing, request,
                   hResult, hanging>>

Next == ServiceStep \/ Environment \/ Tick

Spec == Init /\ [][Next]_vars

\* The service is scheduled, the balancer probes and time passes.  Between two
\* ticks the parts have finitely many steps, so that none waits for ever.
Fairness ==
    WF_vars(ServiceStep) /\ WF_vars(GrpcPart(G!Probe)) /\ WF_vars(Tick)

FairSpec == Spec /\ Fairness

-------------------------------------------------------------------------------
(* What the parts promise, together and each in the company of the others *)

\* A server could not listen, or Accept failed for good.
GrpcFailed == gErrCh = "error" \/ (gRun = "returned" /\ gServe = "none")
HttpFailed == hErrCh = "error" \/ (hRun = "returned" /\ hServe = "none")

\* The failure of a listener reaches the exit of the process, and nothing else
\* does: whether the select of Run sees errCh or the end of the group first, nil
\* is never returned over an error that errCh still holds, and an error that is
\* no timeout never comes from a stop that was asked for.
FailureIsReported ==
    /\ result = "ok" => ~GrpcFailed /\ ~HttpFailed
    /\ result = "error" => GrpcFailed \/ HttpFailed

\* Until Run of the Runner has returned, nothing but a second signal ends the
\* process: the default action of a signal never cuts the shutdown short.
GracefulUnlessInsisted == R!GracefulUnlessInsisted

\* A request that was being served when the group ended is given the whole
\* ShutdownTimeout of the HTTP server, by the clock of the Runner, which starts
\* when the group ends: the context of Shutdown is not the one that is done.
RequestGetsItsTime ==
    [][\A r \in Requests :
         request[r] = "active" /\ request'[r] = "cut" =>
            \/ run = "shutdown" /\ ShutdownTimeout - timer >= HttpShutdownTimeout
            \/ result = "timeout"]_vars

\* Run of the Runner times out only if a handler or a Send ignored its context:
\* the timeouts of the servers, one after the other where they follow each other,
\* fit in the shutdown timeout.
TimeoutMeansStuck ==
    result = "timeout" =>
        (\E c \in StuckCalls : call[c] # "none") \/ hanging

\* A process that ends of its own accord and without a timeout leaves no call
\* half done: the Runner waited for the servers, the gRPC server for its
\* handlers, the HTTP server answered its requests or closed their connections,
\* the worker for its batch, and the pools are closed after them.
ExitLeavesNoCall ==
    process = "exit" /\ result \in {"ok", "error"} =>
        /\ gErrCh # "error" => G!Handling = {}
        /\ hErrCh # "error" => H!Active = {}
        /\ comp["worker"] # "running"

\* With a drain longer than the period of the probe, a planned stop refuses no
\* call: the balancer has looked elsewhere before the socket closes, while the
\* operational endpoints and the worker stop at their own pace.
NoCallRefused ==
    gErrCh # "error" => \A c \in Calls : call[c] # "refused"

\* Run of the Runner has returned and main waits for the pool.
WaitsForPool == run = "returned" /\ PoolInUse

\* A signal ends the process, whatever the handlers do; only one that keeps a
\* connection of the pool can hold main back.
SignalEndsProcess == (sent > 0) ~> (process # "up" \/ WaitsForPool)

\* So does the return of any component, with an error or without: no service
\* runs on without one of its parts.
OneStopsAll ==
    (\E c \in Components : comp[c] # "running")
        ~> (process # "up" \/ WaitsForPool)

===============================================================================
