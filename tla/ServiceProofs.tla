---------------------------- MODULE ServiceProofs ----------------------------
(***************************************************************************)
(* Proofs about Service, for any calls, requests, signals and timeouts.    *)
(* Only the last part, about the shutdown timeout, depends on how promptly *)
(* goroutines run.                                                         *)
(***************************************************************************)
EXTENDS Service, TLAPS

-------------------------------------------------------------------------------
(* The steps of the parts *)

\* What the Runner, SignalContext and main do by themselves.
RunnerMoves ==
    R!RunStep \/ R!HandlerStep \/ R!HandlerEnds \/ R!MainStep \/ R!Signal

\* A step of the service is a step of one of its parts, or of time.
LEMMA OnePartMoves ==
  ASSUME [Next]_vars
  PROVE  \/ G!ServerNext /\ UNCHANGED <<runnerVars, httpVars, hanging>>
         \/ H!ServerNext /\ UNCHANGED <<runnerVars, grpcVars, hanging>>
         \/ RunnerMoves /\ UNCHANGED <<grpcVars, httpVars, hanging>>
         \/ GrpcReturns \/ OpsReturns \/ WorkerReturns
         \/ SendHangs \/ Tick
         \/ UNCHANGED vars
<1>1. CASE GrpcStep
  BY <1>1 DEF GrpcStep, GrpcPart, CutHandlerReturns, G!ServerNext
<1>2. CASE HttpStep
  BY <1>2 DEF HttpStep, HttpPart, H!ServerNext
<1>3. CASE RunnerStep
  BY <1>3 DEF RunnerStep, RunnerPart, MainStep, RunnerMoves, R!MainStep
<1>4. CASE Environment
  BY <1>4 DEF Environment, GrpcPart, HttpPart, RunnerPart, RunnerMoves,
     G!ServerNext, H!ServerNext
<1> QED BY <1>1, <1>2, <1>3, <1>4 DEF Next, ServiceStep, WorkerStep

-------------------------------------------------------------------------------
(* The Runner *)

\* The signals in the channel were sent, and before those that follow it the first
\* one; the goroutine that listens to them ends only after Run has returned.  What
\* Run returns without a timeout is decided when every component is back.
RunnerInv ==
    /\ comp \in [Components -> {"running", "ok", "error"}]
    /\ sigs \in Nat /\ sent \in Nat /\ sigs <= sent
    /\ handler = "second" => sigs < sent
    /\ handler = "gone" => stopped
    /\ stopped => run = "returned"
    /\ result = "ok" => \A c \in Components : comp[c] = "ok"
    /\ result = "error" => \A c \in Components : comp[c] # "running"
    /\ result = "error" => \E c \in Components : comp[c] = "error"
    /\ run = "returned" => result \in {"ok", "error", "timeout"}
    /\ GracefulUnlessInsisted

\* It holds before main calls Run.
LEMMA InitRunner == Init => RunnerInv
  BY DEF Init, R!Init, RunnerInv, GracefulUnlessInsisted, R!GracefulUnlessInsisted

\* Every step preserves it.
LEMMA StepRunner == RunnerInv /\ [Next]_vars => RunnerInv'
<1> SUFFICES ASSUME RunnerInv, [Next]_vars PROVE RunnerInv'
  OBVIOUS
<1> USE DEF RunnerInv, GracefulUnlessInsisted, R!GracefulUnlessInsisted,
        R!AllReturned, R!Failed, R!runVars, R!sigVars
<1>1. ASSUME NEW c \in Components, NEW o \in {"ok", "error"},
             R!ComponentReturns(c, o)
      PROVE  RunnerInv'
  BY <1>1 DEF R!ComponentReturns
<1>2. CASE R!Done
  <2>1. /\ \A c \in Components : comp[c] # "running"
        /\ result' = IF R!Failed = {} THEN "ok" ELSE "error"
        /\ run' = "returned" /\ process = "up"
        /\ UNCHANGED <<comp, sigs, sent, handler, stopped, process>>
    BY <1>2 DEF R!Done, R!RunReturns
  <2> QED BY <2>1
<1>3. CASE R!BeginShutdown
  BY <1>3 DEF R!BeginShutdown
<1>4. CASE R!TimesOut
  BY <1>4 DEF R!TimesOut, R!RunReturns
<1>5. CASE R!FirstSignal
  BY <1>5 DEF R!FirstSignal
<1>6. CASE R!SecondSignal
  BY <1>6 DEF R!SecondSignal
<1>7. CASE R!HandlerEnds
  BY <1>7 DEF R!HandlerEnds
<1>8. CASE R!Stop
  BY <1>8 DEF R!Stop
<1>9. CASE R!Exit
  BY <1>9 DEF R!Exit
<1>10. CASE R!Signal
  BY <1>10 DEF R!Signal
<1>11. CASE RunnerMoves
  BY <1>2, <1>3, <1>4, <1>5, <1>6, <1>7, <1>8, <1>9, <1>10, <1>11
     DEF RunnerMoves, R!RunStep, R!HandlerStep, R!MainStep
<1>12. CASE GrpcReturns \/ OpsReturns \/ WorkerReturns
  <2>1. \A res : Outcome(res) \in {"ok", "error"}
    BY DEF Outcome
  <2>2. {"grpc", "ops", "worker"} \subseteq Components
    BY DEF Components
  <2> QED BY <1>1, <1>12, <2>1, <2>2 DEF GrpcReturns, OpsReturns, WorkerReturns
<1>13. CASE UNCHANGED runnerVars
  BY <1>13 DEF runnerVars
<1>14. CASE Tick
  BY <1>14 DEF Tick
<1> QED BY <1>11, <1>12, <1>13, <1>14, OnePartMoves DEF vars, SendHangs

\* Until Run has returned, the process ends only by a second signal, however many
\* arrive and however the goroutine of SignalContext races with them.
THEOREM OnlyASecondSignalInsists == Spec => []GracefulUnlessInsisted
<1>1. RunnerInv => GracefulUnlessInsisted
  BY DEF RunnerInv
<1> QED BY <1>1, InitRunner, StepRunner, PTL DEF Spec

-------------------------------------------------------------------------------
(* The gRPC server: what its return tells of the handlers *)

\* Run asks for the stop before GracefulStop begins, and goes on only after it is
\* over; calls come in only before.  So Run that has returned never listened, lost
\* its listener to an error, or has seen GracefulStop wait for every handler.
GrpcInv ==
    /\ call \in [Calls -> {"none", "active", "cut", "done", "refused"}]
    /\ gRun = "listen" => gServe = "none"
    /\ gServe = "none" => gRun \in {"listen", "returned"}
    /\ gServe # "over" => gErrCh = "empty"
    /\ gRun \in {"listen", "select", "drain"} => graceful = "none"
    /\ gRun \in {"graceful", "forced"} => graceful # "none"
    /\ gRun = "await" => graceful = "over"
    /\ graceful = "none" => gErrCh \in {"empty", "error"}
    /\ gServe = "none" \/ graceful = "over" => G!Handling = {}
    /\ gRun = "returned" =>
        gServe = "none" \/ gErrCh = "error" \/ graceful = "over"
    /\ gRun = "returned" => gResult = IF GrpcFailed THEN "error" ELSE "nil"
    /\ gRun = "returned" => gServe \in {"none", "over"}

\* Every step of the server preserves it.
LEMMA ServerGrpc == GrpcInv /\ G!ServerNext => GrpcInv'
<1> SUFFICES ASSUME GrpcInv, G!ServerNext PROVE GrpcInv'
  OBVIOUS
<1> USE DEF GrpcInv, GrpcFailed, G!serverVars
<1>1. CASE G!Listen
  BY <1>1 DEF G!Listen, G!Handling
<1>2. CASE G!ListenFails
  BY <1>2 DEF G!ListenFails, G!Handling
<1>3. CASE G!BeginStop
  BY <1>3 DEF G!BeginStop, G!CallGracefulStop, G!Handling
<1>4. CASE G!DrainOver
  BY <1>4 DEF G!DrainOver, G!CallGracefulStop, G!Handling
<1>5. CASE G!GracefulOver
  BY <1>5 DEF G!GracefulOver, G!Handling
<1>6. CASE G!ForceStop
  <2>1. G!Handling' = G!Handling
    BY <1>6 DEF G!ForceStop, G!Handling
  <2>2. call' \in [Calls -> {"none", "active", "cut", "done", "refused"}]
    BY <1>6 DEF G!ForceStop
  <2> QED BY <1>6, <2>1, <2>2 DEF G!ForceStop
<1>7. CASE G!Return
  BY <1>7 DEF G!Return, G!Handling
<1>8. CASE G!ServeBegins
  BY <1>8 DEF G!ServeBegins, G!Handling
<1>9. CASE G!ServeEnds
  BY <1>9 DEF G!ServeEnds, G!Handling
<1>10. CASE G!GracefulStopReturns
  BY <1>10 DEF G!GracefulStopReturns, G!Handling
<1>11. CASE G!ServeFails
  BY <1>11 DEF G!ServeFails, G!Handling
<1>12. ASSUME NEW c \in Calls, G!CallArrives(c) PROVE GrpcInv'
  <2>1. G!Listening => gServe # "none" /\ graceful = "none"
    BY DEF G!Listening
  <2> QED BY <1>12, <2>1 DEF G!CallArrives, G!Handling
<1>13. ASSUME NEW c \in Calls, G!HandlerReturns(c) PROVE GrpcInv'
  BY <1>13 DEF G!HandlerReturns, G!Handling
<1>14. CASE G!Probe
  BY <1>14 DEF G!Probe, G!Handling
<1> QED BY <1>1, <1>2, <1>3, <1>4, <1>5, <1>6, <1>7, <1>8, <1>9, <1>10, <1>11,
           <1>12, <1>13, <1>14 DEF G!ServerNext, G!RunStep, G!LibraryStep

\* The steps of the other parts leave the server alone.
LEMMA StepGrpc == GrpcInv /\ [Next]_vars => GrpcInv'
<1> SUFFICES ASSUME GrpcInv, [Next]_vars PROVE GrpcInv'
  OBVIOUS
<1>1. CASE UNCHANGED <<gRun, gServe, gErrCh, graceful, call, gResult>>
  BY <1>1 DEF GrpcInv, GrpcFailed, G!Handling
<1> QED BY <1>1, ServerGrpc, OnePartMoves DEF vars, grpcVars, httpVars, GrpcReturns,
           OpsReturns, WorkerReturns, SendHangs, Tick

-------------------------------------------------------------------------------
(* The HTTP server likewise *)

\* Run that has returned never listened, lost its listener to an error, or has seen
\* the last request answered or cut.
HttpInv ==
    /\ request \in [Requests -> {"none", "active", "cut", "done", "refused"}]
    /\ hRun = "listen" => hServe = "none"
    /\ hServe = "none" => hRun \in {"listen", "returned"} /\ H!Active = {}
    /\ hServe # "over" => hErrCh = "empty"
    /\ hRun \in {"listen", "select"} => ~closing
    /\ hRun \in {"shutdown", "await"} => closing
    /\ ~closing => hErrCh \in {"empty", "error"}
    /\ hRun = "await" => H!Active = {}
    /\ hRun = "returned" =>
        hServe = "none" \/ hErrCh = "error" \/ (closing /\ H!Active = {})
    /\ hErrCh \in {"empty", "nil", "error"}
    /\ hRun = "returned" => hResult = IF HttpFailed THEN "error" ELSE "nil"
    /\ hRun = "returned" => hServe \in {"none", "over"}

\* Every step of the HTTP server, and of net/http under it, preserves it.
LEMMA ServerHttp == HttpInv /\ H!ServerNext => HttpInv'
<1> SUFFICES ASSUME HttpInv, H!ServerNext PROVE HttpInv'
  OBVIOUS
<1> USE DEF HttpInv, HttpFailed, H!serverVars, H!Active, H!ServeReturns
<1>1. CASE H!Listen
  BY <1>1 DEF H!Listen
<1>2. CASE H!ListenFails
  BY <1>2 DEF H!ListenFails
<1>3. CASE H!BeginShutdown
  BY <1>3 DEF H!BeginShutdown
<1>4. CASE H!ShutdownReturns
  BY <1>4 DEF H!ShutdownReturns
<1>5. CASE H!ShutdownExpires
  BY <1>5 DEF H!ShutdownExpires
<1>6. CASE H!Return
  BY <1>6 DEF H!Return
<1>7. CASE H!ServeBegins
  BY <1>7 DEF H!ServeBegins
<1>8. CASE H!ServeEnds
  BY <1>8 DEF H!ServeEnds
<1>9. CASE H!ServeFails
  BY <1>9 DEF H!ServeFails
<1>10. ASSUME NEW r \in Requests, H!RequestArrives(r) PROVE HttpInv'
  <2>1. H!Listening => hServe # "none" /\ ~closing
    BY DEF H!Listening
  <2> QED BY <1>10, <2>1 DEF H!RequestArrives
<1>11. ASSUME NEW r \in Requests, H!RequestDone(r) PROVE HttpInv'
  BY <1>11 DEF H!RequestDone
<1> QED BY <1>1, <1>2, <1>3, <1>4, <1>5, <1>6, <1>7, <1>8, <1>9, <1>10, <1>11
        DEF H!ServerNext, H!RunStep, H!LibraryStep

\* So do time and the steps of the other parts, which leave the server alone.
LEMMA StepHttp == HttpInv /\ [Next]_vars => HttpInv'
<1> SUFFICES ASSUME HttpInv, [Next]_vars PROVE HttpInv'
  OBVIOUS
<1>1. CASE UNCHANGED <<hRun, hServe, hErrCh, closing, request, hResult>>
  BY <1>1 DEF HttpInv, HttpFailed, H!Active
<1> QED BY <1>1, ServerHttp, OnePartMoves DEF vars, grpcVars, httpVars, GrpcReturns,
           OpsReturns, WorkerReturns, SendHangs, Tick

\* It holds before the server listens.
LEMMA InitHttp == Init => HttpInv
  BY DEF Init, H!ServerInit, HttpInv, H!Active

-------------------------------------------------------------------------------
(* The service: what the end of the process tells of the calls *)

\* The Runner sees a server return only after its Run has, and what it returned;
\* the worker returns no error.
ReturnsInv ==
    /\ comp["grpc"] # "running" => gRun = "returned" /\ comp["grpc"] = Outcome(gResult)
    /\ comp["ops"] # "running" => hRun = "returned" /\ comp["ops"] = Outcome(hResult)
    /\ comp["worker"] # "error"

\* A component is reported as returned only by the step that saw its Run return.
LEMMA StepReturns ==
  ASSUME RunnerInv, ReturnsInv, [Next]_vars
  PROVE  ReturnsInv'
<1>0. comp \in [Components -> {"running", "ok", "error"}] /\ Components = {"grpc", "ops", "worker"}
  BY DEF RunnerInv, Components
<1> USE DEF ReturnsInv, Outcome
<1>1. CASE G!ServerNext /\ UNCHANGED <<runnerVars, httpVars>>
  <2>1. gRun = "returned" => gRun' = "returned" /\ gResult' = gResult
    BY <1>1 DEF G!ServerNext, G!RunStep, G!LibraryStep, G!Listen, G!ListenFails,
       G!BeginStop, G!CallGracefulStop, G!DrainOver, G!GracefulOver, G!ForceStop,
       G!Return, G!ServeBegins, G!ServeEnds, G!GracefulStopReturns, G!ServeFails,
       G!CallArrives, G!HandlerReturns, G!Probe, G!serverVars
  <2> QED BY <1>1, <2>1 DEF runnerVars, httpVars
<1>2. CASE H!ServerNext /\ UNCHANGED <<runnerVars, grpcVars>>
  <2>1. hRun = "returned" => hRun' = "returned" /\ hResult' = hResult
    BY <1>2 DEF H!ServerNext, H!RunStep, H!LibraryStep, H!Listen, H!ListenFails,
       H!BeginShutdown, H!ShutdownReturns, H!ShutdownExpires, H!Return,
       H!ServeBegins, H!ServeEnds, H!ServeReturns, H!ServeFails, H!RequestArrives,
       H!RequestDone, H!serverVars
  <2> QED BY <1>2, <2>1 DEF runnerVars, grpcVars
<1>3. CASE RunnerMoves /\ UNCHANGED <<grpcVars, httpVars>>
  <2>1. comp' = comp
    BY <1>3 DEF RunnerMoves, R!RunStep, R!HandlerStep, R!MainStep, R!Done,
       R!RunReturns, R!BeginShutdown, R!TimesOut, R!FirstSignal, R!SecondSignal,
       R!HandlerEnds, R!Stop, R!Exit, R!Signal, R!runVars
  <2> QED BY <1>3, <2>1 DEF grpcVars, httpVars
<1>4. CASE GrpcReturns
  BY <1>0, <1>4 DEF GrpcReturns, R!ComponentReturns, grpcVars, httpVars
<1>5. CASE OpsReturns
  BY <1>0, <1>5 DEF OpsReturns, R!ComponentReturns, grpcVars, httpVars
<1>6. CASE WorkerReturns
  BY <1>0, <1>6 DEF WorkerReturns, R!ComponentReturns, grpcVars, httpVars
<1>7. CASE SendHangs \/ Tick \/ UNCHANGED vars
  BY <1>7 DEF SendHangs, Tick, vars, runnerVars, grpcVars, httpVars
<1> QED BY <1>1, <1>2, <1>3, <1>4, <1>5, <1>6, <1>7, OnePartMoves

\* What the service knows of its parts when Run of the Runner has returned.
BackInv == RunnerInv /\ GrpcInv /\ HttpInv /\ ReturnsInv

\* It holds when main calls Run.
LEMMA InitBack == Init => BackInv
<1> SUFFICES ASSUME Init PROVE BackInv
  OBVIOUS
<1>1. GrpcInv
  BY DEF Init, G!ServerInit, GrpcInv, G!Handling
<1>2. ReturnsInv
  BY DEF Init, R!Init, ReturnsInv, Components
<1> QED BY <1>1, <1>2, InitRunner, InitHttp DEF BackInv

\* Every step preserves it.
LEMMA StepBack == BackInv /\ [Next]_vars => BackInv'
  BY StepRunner, StepGrpc, StepHttp, StepReturns DEF BackInv

\* A process that ends without a timeout of the Runner leaves no handler, no request
\* and no batch at work, whatever arrived while its parts were stopping, unless a
\* listener broke.
THEOREM NoCallIsLeftBehind == Spec => []ExitLeavesNoCall
<1>1. BackInv => ExitLeavesNoCall
  <2> SUFFICES ASSUME BackInv, result \in {"ok", "error"}
               PROVE  /\ gErrCh # "error" => G!Handling = {}
                      /\ hErrCh # "error" => H!Active = {}
                      /\ comp["worker"] # "running"
    BY DEF ExitLeavesNoCall
  <2>1. \A c \in Components : comp[c] # "running"
    BY DEF BackInv, RunnerInv
  <2>2. gRun = "returned" /\ hRun = "returned" /\ comp["worker"] # "running"
    BY <2>1 DEF BackInv, ReturnsInv, Components
  <2> QED BY <2>2 DEF BackInv, GrpcInv, HttpInv
<1> QED BY <1>1, InitBack, StepBack, PTL DEF Spec

\* What a listener met is what the process exits with: an error of Serve goes
\* through errCh, Run of the server, the group and Run of the Runner whichever of
\* errCh and the end of the group a select saw first, and a stop that was asked for
\* yields no error on that way.
THEOREM FailuresReachTheExit == Spec => []FailureIsReported
<1>1. BackInv => FailureIsReported
  <2> SUFFICES ASSUME BackInv PROVE FailureIsReported
    OBVIOUS
  <2> USE DEF BackInv, RunnerInv, ReturnsInv, Components, Outcome
  <2>1. ASSUME result = "ok" PROVE ~GrpcFailed /\ ~HttpFailed
    <3>1. gResult = "nil" /\ hResult = "nil" /\ gRun = "returned" /\ hRun = "returned"
      BY <2>1
    <3> QED BY <3>1 DEF GrpcInv, HttpInv
  <2>2. ASSUME result = "error" PROVE GrpcFailed \/ HttpFailed
    <3>1. /\ gRun = "returned" /\ hRun = "returned"
          /\ gResult # "nil" \/ hResult # "nil"
      BY <2>2
    <3> QED BY <3>1 DEF GrpcInv, HttpInv
  <2> QED BY <2>1, <2>2 DEF FailureIsReported
<1> QED BY <1>1, InitBack, StepBack, PTL DEF Spec

-------------------------------------------------------------------------------
(* The drain and the balancer *)

\* The balancer sends calls here only if the health service said so within its last
\* period, and then the socket is open: in a drain the next probe comes before the
\* end of the delay.
RouteInv ==
    /\ gTimer \in Nat /\ probe \in 0..ProbePeriod
    /\ health => EnableHealth /\ gRun \in {"select", "returned"} /\ graceful = "none"
    /\ routed => EnableHealth
    /\ gRun = "drain" /\ routed => probe < gTimer
    /\ routed /\ gErrCh # "error" => G!Listening
    /\ NoCallRefused

\* The steps of the server and of time preserve it.
LEMMA ServerRoute ==
  ASSUME EnableHealth => DrainDelay > ProbePeriod, GrpcInv, RouteInv, G!ServerNext
  PROVE  RouteInv'
<1>0. /\ DrainDelay \in Nat /\ GracefulStopTimeout \in Nat
      /\ ProbePeriod \in Nat \ {0} /\ EnableHealth \in BOOLEAN
  BY ServiceAssumption DEF G!GrpcConfig
<1> USE <1>0 DEF RouteInv, G!Listening, NoCallRefused, G!serverVars
<1>1. CASE G!Listen
  BY <1>1 DEF G!Listen, GrpcInv
<1>2. CASE G!ListenFails
  BY <1>2 DEF G!ListenFails, GrpcInv
<1>3. CASE G!BeginStop
  <2>1. CASE EnableHealth
    <3>1. /\ gRun = "select" /\ ~health' /\ gRun' = "drain" /\ gTimer' = DrainDelay
          /\ UNCHANGED <<graceful, gServe, gErrCh, call, routed, probe>>
      BY <1>3, <2>1 DEF G!BeginStop
    <3> QED BY <2>1, <3>1
  <2>2. CASE ~EnableHealth
    BY <1>3, <2>2 DEF G!BeginStop, G!CallGracefulStop
  <2> QED BY <2>1, <2>2
<1>4. CASE G!DrainOver
  BY <1>4 DEF G!DrainOver, G!CallGracefulStop
<1>5. CASE G!GracefulOver
  BY <1>5 DEF G!GracefulOver
<1>6. CASE G!ForceStop
  BY <1>6 DEF G!ForceStop
<1>7. CASE G!Return
  BY <1>7 DEF G!Return, GrpcInv
<1>8. CASE G!ServeBegins
  BY <1>8 DEF G!ServeBegins, GrpcInv
<1>9. CASE G!ServeEnds
  BY <1>9 DEF G!ServeEnds, GrpcInv
<1>10. CASE G!GracefulStopReturns
  BY <1>10 DEF G!GracefulStopReturns
<1>11. CASE G!ServeFails
  BY <1>11 DEF G!ServeFails
<1>12. ASSUME NEW c \in Calls, G!CallArrives(c) PROVE RouteInv'
  BY <1>12 DEF G!CallArrives, GrpcInv
<1>13. ASSUME NEW c \in Calls, G!HandlerReturns(c) PROVE RouteInv'
  BY <1>13 DEF G!HandlerReturns, GrpcInv
<1>14. CASE G!Probe
  <2>1. routed' => G!Listening /\ health
    BY <1>14, Zenon DEF G!Probe
  <2>2. probe' = ProbePeriod /\ UNCHANGED <<gRun, gServe, gErrCh, graceful, health, gTimer, call>>
    BY <1>14 DEF G!Probe
  <2> QED BY <2>1, <2>2
<1> QED BY <1>1, <1>2, <1>3, <1>4, <1>5, <1>6, <1>7, <1>8, <1>9, <1>10, <1>11,
           <1>12, <1>13, <1>14 DEF G!ServerNext, G!RunStep, G!LibraryStep

\* The other parts change nothing that a call or the balancer could see.
LEMMA StepRoute ==
  ASSUME EnableHealth => DrainDelay > ProbePeriod, GrpcInv, RouteInv, [Next]_vars
  PROVE  RouteInv'
<1>1. CASE UNCHANGED grpcVars
  BY <1>1 DEF grpcVars, RouteInv, G!Listening, NoCallRefused
<1>2. CASE Tick
  BY <1>2, ServiceAssumption DEF Tick, Down, RouteInv, G!Listening, NoCallRefused,
     G!GrpcConfig
<1> QED BY <1>1, <1>2, ServerRoute, OnePartMoves DEF vars, GrpcReturns, OpsReturns,
           WorkerReturns, SendHangs

\* If the drain is longer than the period of the probe (or nobody probes, because
\* there is no health service), a planned stop refuses no call: the balancer has
\* looked elsewhere before GracefulStop closes the socket.
THEOREM PlannedStopRefusesNobody ==
  ASSUME EnableHealth => DrainDelay > ProbePeriod
  PROVE  Spec => []NoCallRefused
<1>1. Init => GrpcInv /\ RouteInv
  <2> SUFFICES ASSUME Init PROVE GrpcInv /\ RouteInv
    OBVIOUS
  <2>1. GrpcInv
    BY DEF Init, G!ServerInit, GrpcInv, G!Handling
  <2>2. RouteInv
    BY ServiceAssumption DEF Init, G!ServerInit, RouteInv, NoCallRefused, G!GrpcConfig
  <2> QED BY <2>1, <2>2
<1>2. GrpcInv /\ RouteInv /\ [Next]_vars => (GrpcInv /\ RouteInv)'
  BY StepGrpc, StepRoute
<1>3. RouteInv => NoCallRefused
  BY DEF RouteInv
<1> QED BY <1>1, <1>2, <1>3, PTL DEF Spec

-------------------------------------------------------------------------------
(* The shutdown timeout *)

\* The time the gRPC server gives the balancer.
Drain == IF EnableHealth THEN DrainDelay ELSE 0

\* The shutdown timeout outlasts the stop of either server.
TimeoutsFit ==
    /\ Drain + GracefulStopTimeout < ShutdownTimeout
    /\ HttpShutdownTimeout < ShutdownTimeout

\* How long the Runner has waited for its components.
Waited == IF run = "shutdown" THEN ShutdownTimeout - timer ELSE 0

Stuck == (\E c \in StuckCalls : call[c] # "none") \/ hanging

\* The part that is about no timer: nobody stops before the group is done, a Serve
\* that is over has said so, and Stop has cut every call.
StopInv ==
    /\ groupDone \in BOOLEAN
    /\ run \in {"select", "shutdown", "returned"}
    /\ run = "shutdown" => groupDone
    /\ gRun \in {"listen", "select", "drain", "graceful", "forced", "await", "returned"}
    /\ gRun \in {"drain", "graceful", "forced", "await"} => groupDone
    /\ gServe \in {"none", "starting", "serving", "over"}
    /\ gServe = "over" => gErrCh # "empty"
    /\ graceful \in {"none", "waiting", "over"}
    /\ gRun = "forced" => \A c \in Calls : call[c] # "active"
    /\ hRun \in {"listen", "select", "shutdown", "await", "returned"}
    /\ hRun \in {"shutdown", "await"} => groupDone
    /\ hServe \in {"none", "starting", "serving", "over"}
    /\ hServe = "over" => hErrCh # "empty"

\* The timetable of a stop: what the Runner has waited and what a server may still
\* take fit together in the time the server has in all.
Timetable ==
    /\ Waited <= Drain + GracefulStopTimeout \/ Waited <= HttpShutdownTimeout
    /\ gRun \in {"listen", "select"} \/ hRun \in {"listen", "select"} => Waited = 0
    /\ gRun = "drain" => Waited + gTimer <= Drain
    /\ gRun = "graceful" => Waited + gTimer <= Drain + GracefulStopTimeout
    /\ hRun = "shutdown" => Waited + hTimer <= HttpShutdownTimeout

PaceInv ==
    /\ timer \in 0..ShutdownTimeout /\ gTimer \in Nat /\ hTimer \in Nat
    /\ run # "returned" /\ ~Stuck => Timetable
    /\ TimeoutMeansStuck

\* The durations are natural numbers.
LEMMA StopTypes ==
  /\ ShutdownTimeout \in Nat /\ HttpShutdownTimeout \in Nat
  /\ GracefulStopTimeout \in Nat /\ DrainDelay \in Nat /\ Drain \in Nat
  BY ServiceAssumption DEF R!RunnerConfig, G!GrpcConfig, H!HttpConfig, Drain

\* A step of the gRPC server preserves StopInv.
LEMMA ServerGrpcStop ==
  ASSUME StopInv, GrpcInv, G!ServerNext, UNCHANGED <<runnerVars, httpVars>>
  PROVE  StopInv'
<1> USE DEF StopInv, G!serverVars, runnerVars, httpVars
<1>1. CASE G!Listen \/ G!ListenFails
  BY <1>1 DEF G!Listen, G!ListenFails
<1>2. CASE G!BeginStop \/ G!DrainOver
  BY <1>2 DEF G!BeginStop, G!DrainOver, G!CallGracefulStop
<1>3. CASE G!GracefulOver \/ G!Return
  BY <1>3 DEF G!GracefulOver, G!Return
<1>4. CASE G!ForceStop
  <2>1. \A c \in Calls : call'[c] # "active"
    BY <1>4 DEF G!ForceStop
  <2> QED BY <1>4, <2>1 DEF G!ForceStop
<1>5. CASE G!LibraryStep \/ G!ServeFails
  BY <1>5 DEF G!LibraryStep, G!ServeBegins, G!ServeEnds, G!GracefulStopReturns,
     G!ServeFails
<1>6. ASSUME NEW c \in Calls, G!CallArrives(c) PROVE StopInv'
  <2>1. gRun = "forced" => ~G!Listening
    BY DEF G!Listening, GrpcInv
  <2>2. gRun = "forced" => \A d \in Calls : call'[d] # "active"
    BY <1>6, <2>1 DEF G!CallArrives, GrpcInv
  <2> QED BY <1>6, <2>2 DEF G!CallArrives
<1>7. ASSUME NEW c \in Calls, G!HandlerReturns(c) PROVE StopInv'
  BY <1>7 DEF G!HandlerReturns, GrpcInv
<1>8. CASE G!Probe
  BY <1>8 DEF G!Probe
<1> QED BY <1>1, <1>2, <1>3, <1>4, <1>5, <1>6, <1>7, <1>8
        DEF G!ServerNext, G!RunStep

\* A step of the HTTP server preserves StopInv.
LEMMA ServerHttpStop ==
  ASSUME StopInv, H!ServerNext, UNCHANGED <<runnerVars, grpcVars>>
  PROVE  StopInv'
<1> USE DEF StopInv, H!serverVars, runnerVars, grpcVars
<1>1. CASE H!Listen \/ H!ListenFails \/ H!BeginShutdown
  BY <1>1 DEF H!Listen, H!ListenFails, H!BeginShutdown
<1>2. CASE H!ShutdownReturns \/ H!ShutdownExpires \/ H!Return
  BY <1>2 DEF H!ShutdownReturns, H!ShutdownExpires, H!Return
<1>3. CASE H!LibraryStep \/ H!ServeFails
  BY <1>3 DEF H!LibraryStep, H!ServeBegins, H!ServeEnds, H!ServeFails, H!ServeReturns
<1>4. ASSUME NEW r \in Requests, H!RequestArrives(r) \/ H!RequestDone(r)
      PROVE  StopInv'
  BY <1>4 DEF H!RequestArrives, H!RequestDone
<1> QED BY <1>1, <1>2, <1>3, <1>4 DEF H!ServerNext, H!RunStep

\* What the steps of the Runner, of SignalContext and of main may change: the group
\* is done for good, Run goes on to wait with the whole timeout, or returns.
RunnerEffect ==
    /\ groupDone' \in BOOLEAN /\ (groupDone => groupDone')
    /\ \/ UNCHANGED <<run, result, timer>>
       \/ /\ run = "select" /\ groupDone
          /\ run' = "shutdown" /\ timer' = ShutdownTimeout /\ result' = result
       \/ /\ run' = "returned" /\ timer' = 0
          /\ result' = "timeout" => run = "shutdown" /\ timer = 0

\* They change nothing else that a stop depends on.
LEMMA RunnerEffects ==
  ASSUME groupDone \in BOOLEAN,
         RunnerMoves \/ GrpcReturns \/ OpsReturns \/ WorkerReturns
  PROVE  RunnerEffect
<1> USE DEF RunnerEffect
<1>1. CASE R!Done
  BY <1>1 DEF R!Done, R!RunReturns
<1>2. CASE R!BeginShutdown
  BY <1>2 DEF R!BeginShutdown
<1>3. CASE R!TimesOut
  BY <1>3 DEF R!TimesOut, R!RunReturns
<1>4. CASE R!HandlerStep \/ R!HandlerEnds \/ R!MainStep \/ R!Signal
  BY <1>4 DEF R!HandlerStep, R!FirstSignal, R!SecondSignal, R!HandlerEnds,
     R!MainStep, R!Stop, R!Exit, R!Signal, R!runVars
<1>5. CASE GrpcReturns \/ OpsReturns \/ WorkerReturns
  BY <1>5 DEF GrpcReturns, OpsReturns, WorkerReturns, R!ComponentReturns
<1> QED BY <1>1, <1>2, <1>3, <1>4, <1>5 DEF RunnerMoves, R!RunStep

\* Every step preserves StopInv.
LEMMA StepStop == StopInv /\ GrpcInv /\ [Next]_vars => StopInv'
<1> SUFFICES ASSUME StopInv, GrpcInv, [Next]_vars PROVE StopInv'
  OBVIOUS
<1>1. CASE RunnerEffect /\ UNCHANGED <<grpcVars, httpVars>>
  BY <1>1 DEF RunnerEffect, StopInv, grpcVars, httpVars
<1>2. CASE Tick
  BY <1>2 DEF Tick, StopInv
<1>3. CASE UNCHANGED <<runnerVars, grpcVars, httpVars>>
  BY <1>3 DEF runnerVars, grpcVars, httpVars, StopInv
<1>4. groupDone \in BOOLEAN
  BY DEF StopInv
<1> QED BY <1>1, <1>2, <1>3, <1>4, ServerGrpcStop, ServerHttpStop, RunnerEffects,
           OnePartMoves DEF vars, GrpcReturns, OpsReturns, WorkerReturns, SendHangs

\* A call that was made stays made, and a Send that ignored the end of the group has
\* done so: who is stuck stays so.
LEMMA StuckStays ==
  ASSUME GrpcInv, [Next]_vars, Stuck
  PROVE  Stuck'
<1>0. CASE hanging
  BY <1>0, OnePartMoves DEF Stuck, vars, GrpcReturns, OpsReturns, WorkerReturns,
     SendHangs, Tick
<1> SUFFICES ASSUME ~hanging PROVE Stuck'
  BY <1>0
<1>1. PICK c \in StuckCalls : call[c] # "none"
  BY DEF Stuck
<1>2. c \in Calls
  BY ServiceAssumption DEF G!GrpcConfig
<1>3. CASE G!ServerNext
  <2>1. CASE G!ForceStop
    BY <1>1, <1>2, <2>1 DEF G!ForceStop, Stuck
  <2>2. ASSUME NEW d \in Calls, G!CallArrives(d) \/ G!HandlerReturns(d) PROVE Stuck'
    BY <1>1, <1>2, <2>2 DEF G!CallArrives, G!HandlerReturns, GrpcInv, Stuck
  <2>3. CASE UNCHANGED call
    BY <1>1, <2>3 DEF Stuck
  <2> QED BY <1>3, <2>1, <2>2, <2>3 DEF G!ServerNext, G!RunStep, G!LibraryStep,
             G!Listen, G!ListenFails, G!BeginStop, G!DrainOver, G!GracefulOver,
             G!Return, G!ServeBegins, G!ServeEnds, G!GracefulStopReturns,
             G!ServeFails, G!Probe
<1>4. CASE UNCHANGED call
  BY <1>1, <1>4 DEF Stuck
<1> QED BY <1>3, <1>4, OnePartMoves DEF vars, grpcVars, GrpcReturns, OpsReturns,
           WorkerReturns, SendHangs, Tick

\* If time passes while the Runner waits and nobody is stuck, the gRPC server is in
\* its drain, in GracefulStop with time left, or back; the HTTP server likewise; and
\* one of them is not back.  In every other place a goroutine could go on.
LEMMA TickWaits ==
  ASSUME StopInv, GrpcInv, HttpInv, RunnerInv, Tick, ~Stuck, groupDone,
         run # "returned"
  PROVE  /\ run = "shutdown" /\ timer # 0
         /\ (gRun \in {"drain", "graceful"} /\ gTimer # 0) \/ gRun = "returned"
         /\ (hRun = "shutdown" /\ hTimer # 0) \/ hRun = "returned"
         /\ gRun # "returned" \/ hRun # "returned"
<1>0. ~R!Ready /\ ~G!Ready /\ ~H!Ready
      /\ ~(gRun = "returned" /\ comp["grpc"] = "running")
      /\ ~(hRun = "returned" /\ comp["ops"] = "running")
      /\ comp["worker"] # "running"
      /\ \A c \in Calls \ StuckCalls : call[c] # "cut"
  BY DEF Tick, Ready, Stuck
<1>1. run = "shutdown" /\ timer # 0 /\ ~R!AllReturned
  BY <1>0 DEF R!Ready, StopInv
<1>2. gRun # "forced"
  <2> SUFFICES ASSUME gRun = "forced" PROVE FALSE
    OBVIOUS
  <2>1. graceful = "waiting" /\ G!Handling # {}
    BY <1>0 DEF G!Ready, StopInv, GrpcInv
  <2>2. PICK c \in Calls : call[c] \in {"active", "cut"}
    BY <2>1 DEF G!Handling
  <2>3. call[c] = "cut"
    BY <2>2 DEF StopInv
  <2>4. c \in StuckCalls
    BY <1>0, <2>3
  <2> QED BY <2>3, <2>4 DEF Stuck
<1>3. gRun # "await"
  BY <1>0 DEF G!Ready, StopInv, GrpcInv
<1>4. (gRun \in {"drain", "graceful"} /\ gTimer # 0) \/ gRun = "returned"
  BY <1>0, <1>2, <1>3 DEF G!Ready, StopInv
<1>5. hRun # "await"
  BY <1>0 DEF H!Ready, StopInv, HttpInv
<1>6. (hRun = "shutdown" /\ hTimer # 0) \/ hRun = "returned"
  BY <1>0, <1>5 DEF H!Ready, StopInv
<1>7. gRun # "returned" \/ hRun # "returned"
  BY <1>0, <1>1 DEF R!AllReturned, Components
<1> QED BY <1>1, <1>4, <1>6, <1>7

\* Time keeps the timetable: what the Runner has waited grows as what a server has
\* left shrinks.
LEMMA TickPace ==
  ASSUME PaceInv, StopInv, GrpcInv, HttpInv, RunnerInv, Tick
  PROVE  PaceInv'
<1> USE StopTypes
<1>1. timer' \in 0..ShutdownTimeout /\ gTimer' \in Nat /\ hTimer' \in Nat
  BY DEF PaceInv, Tick, Down
<1>2. TimeoutMeansStuck' /\ Stuck' = Stuck
  BY DEF PaceInv, TimeoutMeansStuck, Tick, Stuck
<1>3. ASSUME run # "returned", ~Stuck PROVE Timetable'
  <2>1. Timetable
    BY <1>3 DEF PaceInv
  <2>2. CASE ~groupDone
    <3>1. run = "select" /\ gRun \in {"listen", "select", "returned"}
          /\ hRun \in {"listen", "select", "returned"}
      BY <1>3, <2>2 DEF StopInv
    <3> QED BY <3>1 DEF Timetable, Waited, Tick
  <2>3. CASE groupDone
    <3>1. /\ run = "shutdown" /\ timer # 0
          /\ (gRun \in {"drain", "graceful"} /\ gTimer # 0) \/ gRun = "returned"
          /\ (hRun = "shutdown" /\ hTimer # 0) \/ hRun = "returned"
          /\ gRun # "returned" \/ hRun # "returned"
      BY <1>3, <2>3, TickWaits
    <3>2. Waited' = Waited + 1 /\ Waited \in Nat
      BY <3>1 DEF PaceInv, Waited, Tick, Down
    <3>3. /\ gRun' = gRun /\ hRun' = hRun
          /\ gRun # "returned" => gTimer \in Nat /\ gTimer > 0 /\ gTimer' = gTimer - 1
          /\ hRun # "returned" => hTimer \in Nat /\ hTimer > 0 /\ hTimer' = hTimer - 1
      BY <3>1 DEF PaceInv, Tick, Down
    <3>4. gRun = "drain" => Waited' + gTimer' <= Drain
      BY <2>1, <3>2, <3>3 DEF Timetable
    <3>5. gRun = "graceful" => Waited' + gTimer' <= Drain + GracefulStopTimeout
      BY <2>1, <3>2, <3>3 DEF Timetable
    <3>6. hRun = "shutdown" => Waited' + hTimer' <= HttpShutdownTimeout
      BY <2>1, <3>2, <3>3 DEF Timetable
    <3>7. Waited' <= Drain + GracefulStopTimeout \/ Waited' <= HttpShutdownTimeout
      <4>1. \A w, d, g, l \in Nat : l > 0 /\ w + l <= d => w + 1 <= d /\ w + 1 <= d + g
        OBVIOUS
      <4>2. CASE gRun \in {"drain", "graceful"}
        <5>1. Waited + 1 <= Drain + GracefulStopTimeout
          BY <2>1, <3>2, <3>3, <4>1, <4>2 DEF Timetable
        <5> QED BY <3>2, <5>1
      <4>3. CASE hRun = "shutdown"
        <5>1. Waited + 1 <= HttpShutdownTimeout
          BY <2>1, <3>2, <3>3, <4>1, <4>3 DEF Timetable
        <5> QED BY <3>2, <5>1
      <4> QED BY <3>1, <4>2, <4>3
    <3>8. Drain' = Drain
      BY DEF Drain
    <3> QED BY <3>1, <3>3, <3>4, <3>5, <3>6, <3>7, <3>8 DEF Timetable
  <2> QED BY <2>2, <2>3 DEF StopInv
<1>4. run' = run
  BY DEF Tick
<1> QED BY <1>1, <1>2, <1>3, <1>4 DEF PaceInv

\* A step of the Runner keeps the timetable, and Run times out only late.
LEMMA RunnerPace ==
  ASSUME TimeoutsFit, PaceInv, StopInv, RunnerEffect,
         UNCHANGED <<grpcVars, httpVars, hanging>>
  PROVE  PaceInv'
<1> USE StopTypes
<1>1. UNCHANGED <<gRun, hRun, gTimer, hTimer, call>> /\ Stuck' = Stuck /\ Drain' = Drain
  BY DEF grpcVars, httpVars, Stuck, Drain
<1>2. CASE UNCHANGED <<run, result, timer>>
  <2>1. Waited' = Waited
    BY <1>2 DEF Waited
  <2> QED BY <1>1, <1>2, <2>1 DEF PaceInv, Timetable, TimeoutMeansStuck, Stuck
<1>3. CASE run = "select" /\ run' = "shutdown" /\ timer' = ShutdownTimeout
           /\ result' = result
  <2>1. Waited' = Waited
    BY <1>3 DEF Waited
  <2> QED BY <1>1, <1>3, <2>1 DEF PaceInv, Timetable, TimeoutMeansStuck, Stuck
<1>4. CASE /\ run' = "returned" /\ timer' = 0
           /\ result' = "timeout" => run = "shutdown" /\ timer = 0
  <2>1. result' = "timeout" => Stuck
    <3> SUFFICES ASSUME run = "shutdown", timer = 0, ~Stuck PROVE FALSE
      BY <1>4
    <3>1. Waited = ShutdownTimeout
      BY DEF Waited
    <3> QED BY <3>1 DEF PaceInv, Timetable, TimeoutsFit
  <2> QED BY <1>1, <1>4, <2>1 DEF PaceInv, TimeoutMeansStuck, Stuck
<1> QED BY <1>2, <1>3, <1>4 DEF RunnerEffect

\* A step of a server keeps the timetable: it begins a wait only when the one before
\* it is over.
LEMMA ServerPace ==
  ASSUME PaceInv, StopInv, GrpcInv, [Next]_vars,
         \/ G!ServerNext /\ UNCHANGED <<runnerVars, httpVars, hanging>>
         \/ H!ServerNext /\ UNCHANGED <<runnerVars, grpcVars, hanging>>
  PROVE  PaceInv'
<1> USE StopTypes
<1>1. UNCHANGED <<run, result, timer>> /\ Waited' = Waited /\ Drain' = Drain
  BY DEF runnerVars, Waited, Drain
<1>2. Stuck => Stuck'
  BY StuckStays
<1>3. Waited \in Int
  BY DEF Waited, PaceInv
<1>4. CASE G!ServerNext /\ UNCHANGED <<runnerVars, httpVars>>
  <2>0. hRun' = hRun /\ hTimer' = hTimer
    BY <1>4 DEF httpVars
  <2>1. gTimer' \in Nat
    BY <1>4 DEF PaceInv, G!ServerNext, G!RunStep, G!LibraryStep, G!Listen,
       G!ListenFails, G!BeginStop, G!CallGracefulStop, G!DrainOver, G!GracefulOver,
       G!ForceStop, G!Return, G!ServeBegins, G!ServeEnds, G!GracefulStopReturns,
       G!ServeFails, G!CallArrives, G!HandlerReturns, G!Probe, G!serverVars
  <2>2. ASSUME Timetable PROVE Timetable'
    <3>1. CASE G!BeginStop
      <4>1. CASE EnableHealth /\ DrainDelay > 0
        BY <1>1, <1>3, <2>0, <2>2, <3>1, <4>1 DEF G!BeginStop, Timetable, Drain
      <4>2. CASE ~(EnableHealth /\ DrainDelay > 0)
        BY <1>1, <1>3, <2>0, <2>2, <3>1, <4>2
           DEF G!BeginStop, G!CallGracefulStop, Timetable
      <4> QED BY <4>1, <4>2
    <3>2. CASE G!DrainOver
      BY <1>1, <1>3, <2>0, <2>2, <3>2 DEF G!DrainOver, G!CallGracefulStop, Timetable
    <3>3. CASE G!Listen \/ G!ListenFails \/ G!GracefulOver \/ G!ForceStop \/ G!Return
      BY <1>1, <2>0, <2>2, <3>3 DEF G!Listen, G!ListenFails, G!GracefulOver,
         G!ForceStop, G!Return, Timetable
    <3>4. CASE UNCHANGED <<gRun, gTimer>>
      BY <1>1, <2>0, <2>2, <3>4 DEF Timetable
    <3> QED BY <1>4, <3>1, <3>2, <3>3, <3>4 DEF G!ServerNext, G!RunStep,
               G!LibraryStep, G!ServeBegins, G!ServeEnds, G!GracefulStopReturns,
               G!ServeFails, G!CallArrives, G!HandlerReturns, G!Probe, G!serverVars
  <2> QED BY <1>1, <1>2, <2>0, <2>1, <2>2 DEF PaceInv, TimeoutMeansStuck, Stuck
<1>5. CASE H!ServerNext /\ UNCHANGED <<runnerVars, grpcVars>>
  <2>0. gRun' = gRun /\ gTimer' = gTimer
    BY <1>5 DEF grpcVars
  <2>1. hTimer' \in Nat
    BY <1>5 DEF PaceInv, H!ServerNext, H!RunStep, H!LibraryStep, H!Listen,
       H!ListenFails, H!BeginShutdown, H!ShutdownReturns, H!ShutdownExpires,
       H!Return, H!ServeBegins, H!ServeEnds, H!ServeReturns, H!ServeFails,
       H!RequestArrives, H!RequestDone, H!serverVars
  <2>2. ASSUME Timetable PROVE Timetable'
    <3>1. CASE H!BeginShutdown
      BY <1>1, <1>3, <2>0, <2>2, <3>1 DEF H!BeginShutdown, Timetable
    <3>2. CASE H!Listen \/ H!ListenFails \/ H!ShutdownReturns \/ H!ShutdownExpires
               \/ H!Return
      BY <1>1, <2>0, <2>2, <3>2 DEF H!Listen, H!ListenFails, H!ShutdownReturns,
         H!ShutdownExpires, H!Return, Timetable
    <3>3. CASE UNCHANGED <<hRun, hTimer>>
      BY <1>1, <2>0, <2>2, <3>3 DEF Timetable
    <3> QED BY <1>5, <3>1, <3>2, <3>3 DEF H!ServerNext, H!RunStep, H!LibraryStep,
               H!ServeBegins, H!ServeEnds, H!ServeReturns, H!ServeFails,
               H!RequestArrives, H!RequestDone, H!serverVars
  <2> QED BY <1>1, <1>2, <2>0, <2>1, <2>2 DEF PaceInv, TimeoutMeansStuck, Stuck
<1> QED BY <1>4, <1>5

\* If the timeouts of the servers fit in the shutdown timeout, Run of the Runner
\* times out only if a handler or a Send of the worker ignores its context: the drain,
\* GracefulStop and Stop of one server and the Shutdown of the other end in time, in
\* whatever order their goroutines, the signals and the clients move.
THEOREM OnlyStuckCallsTimeOut ==
  ASSUME TimeoutsFit
  PROVE  Spec => []TimeoutMeansStuck
<1> DEFINE Inv == RunnerInv /\ GrpcInv /\ HttpInv /\ StopInv /\ PaceInv
<1>1. Init => Inv
  <2> SUFFICES ASSUME Init PROVE Inv
    OBVIOUS
  <2>1. GrpcInv
    BY DEF Init, G!ServerInit, GrpcInv, G!Handling
  <2>2. StopInv
    BY DEF Init, R!Init, G!ServerInit, H!ServerInit, StopInv
  <2>3. PaceInv
    BY StopTypes DEF Init, R!Init, G!ServerInit, H!ServerInit, PaceInv, Timetable,
       Waited, TimeoutMeansStuck
  <2> QED BY <2>1, <2>2, <2>3, InitRunner, InitHttp
<1>2. Inv /\ [Next]_vars => Inv'
  <2> SUFFICES ASSUME Inv, [Next]_vars PROVE Inv'
    OBVIOUS
  <2>1. RunnerInv' /\ GrpcInv' /\ HttpInv' /\ StopInv'
    BY StepRunner, StepGrpc, StepHttp, StepStop
  <2>2. PaceInv'
    <3>1. CASE Tick
      BY <3>1, TickPace
    <3>2. CASE UNCHANGED <<runnerVars, grpcVars, httpVars>> /\ (hanging => hanging')
      BY <3>2 DEF runnerVars, grpcVars, httpVars, PaceInv, Timetable, Waited, Drain,
         TimeoutMeansStuck, Stuck
    <3>3. groupDone \in BOOLEAN
      BY DEF StopInv
    <3>4. CASE RunnerEffect /\ UNCHANGED <<grpcVars, httpVars, hanging>>
      BY <3>4, RunnerPace
    <3>5. CASE SendHangs \/ UNCHANGED vars
      BY <3>2, <3>5 DEF vars, SendHangs
    <3> QED BY <3>1, <3>3, <3>4, <3>5, ServerPace, RunnerEffects, OnePartMoves
            DEF GrpcReturns, OpsReturns, WorkerReturns
  <2> QED BY <2>1, <2>2
<1>3. Inv => TimeoutMeansStuck
  BY DEF PaceInv
<1> QED BY <1>1, <1>2, <1>3, PTL DEF Spec

\* A shutdown of the HTTP server that is under way has its whole time before it, or
\* the Runner's clock has run since: the two together have never less than the
\* ShutdownTimeout of the server.
PatienceInv ==
    /\ timer \in 0..ShutdownTimeout
    /\ hRun = "shutdown" =>
        /\ hTimer \in Nat
        /\ \/ run = "select" /\ hTimer = HttpShutdownTimeout
           \/ run = "shutdown" /\ ShutdownTimeout - timer + hTimer >= HttpShutdownTimeout
           \/ result = "timeout"

\* Time takes as much from one clock as from the other, and passes only when the
\* Runner waits.
LEMMA TickPatience == PatienceInv /\ StopInv /\ Tick => PatienceInv'
<1> SUFFICES ASSUME PatienceInv, StopInv, Tick PROVE PatienceInv'
  OBVIOUS
<1> USE StopTypes DEF PatienceInv
<1>1. timer' \in 0..ShutdownTimeout
  BY DEF Tick, Down
<1>2. CASE hRun = "shutdown"
  <2>1. groupDone /\ ~R!Ready /\ ~H!Ready
    BY <1>2 DEF StopInv, Tick, Ready
  <2>2. run # "select" /\ (run = "shutdown" => timer # 0) /\ hTimer # 0
    BY <1>2, <2>1 DEF R!Ready, H!Ready
  <2>3. hTimer \in Nat /\ hTimer' = hTimer - 1
    BY <1>2, <2>2 DEF Tick, Down
  <2>4. CASE run = "shutdown" /\ ShutdownTimeout - timer + hTimer >= HttpShutdownTimeout
    <3>1. timer' = timer - 1
      BY <2>2, <2>4 DEF Tick, Down
    <3> QED BY <1>1, <2>2, <2>3, <2>4, <3>1 DEF Tick
  <2>5. CASE result = "timeout"
    BY <1>1, <2>2, <2>3, <2>5 DEF Tick
  <2> QED BY <1>2, <2>2, <2>4, <2>5
<1> QED BY <1>1, <1>2 DEF Tick

\* Every step preserves it.
LEMMA StepPatience ==
  ASSUME BackInv, StopInv, PatienceInv, [Next]_vars
  PROVE  PatienceInv'
<1> USE StopTypes DEF PatienceInv
<1>1. CASE G!ServerNext /\ UNCHANGED <<runnerVars, httpVars>>
  BY <1>1 DEF runnerVars, httpVars
<1>2. CASE H!ServerNext /\ UNCHANGED <<runnerVars, grpcVars>>
  <2>1. CASE H!BeginShutdown
    <3>1. run = "returned" => result = "timeout"
      BY <2>1 DEF H!BeginShutdown, BackInv, RunnerInv, ReturnsInv, Components
    <3> QED BY <1>2, <2>1, <3>1 DEF H!BeginShutdown, StopInv, runnerVars
  <2>2. CASE UNCHANGED <<hRun, hTimer>> \/ hRun' # "shutdown"
    BY <1>2, <2>2 DEF runnerVars
  <2> QED BY <1>2, <2>1, <2>2 DEF H!ServerNext, H!RunStep, H!LibraryStep, H!Listen,
             H!ListenFails, H!ShutdownReturns, H!ShutdownExpires, H!Return,
             H!ServeBegins, H!ServeEnds, H!ServeFails, H!ServeReturns,
             H!RequestArrives, H!RequestDone, H!serverVars
<1>3. CASE RunnerEffect /\ UNCHANGED httpVars
  <2>1. BackInv'
    BY StepBack
  <2>2. run' = "returned" /\ hRun' = "shutdown" => result' = "timeout"
    BY <2>1 DEF BackInv, RunnerInv, ReturnsInv, Components
  <2>3. hRun' = hRun /\ hTimer' = hTimer
    BY <1>3 DEF httpVars
  <2> QED BY <1>3, <2>2, <2>3 DEF RunnerEffect
<1>4. CASE Tick
  BY <1>4, TickPatience
<1>5. CASE UNCHANGED <<runnerVars, httpVars>>
  BY <1>5 DEF runnerVars, httpVars
<1>6. groupDone \in BOOLEAN
  BY DEF StopInv
<1> QED BY <1>1, <1>2, <1>3, <1>4, <1>5, <1>6, RunnerEffects, OnePartMoves
        DEF vars, GrpcReturns, OpsReturns, WorkerReturns, SendHangs

\* A request that is being served when the group ends keeps its connection for the
\* whole ShutdownTimeout of the HTTP server, measured by the clock of the Runner and
\* not by the one Shutdown itself uses, whatever the other parts do meanwhile.
THEOREM RequestsAreGivenTheirTime == Spec => RequestGetsItsTime
<1> DEFINE Inv == BackInv /\ StopInv /\ PatienceInv
<1>1. Init => Inv
  <2> SUFFICES ASSUME Init PROVE Inv
    OBVIOUS
  <2>1. StopInv
    BY DEF Init, R!Init, G!ServerInit, H!ServerInit, StopInv
  <2>2. PatienceInv
    BY StopTypes DEF Init, R!Init, H!ServerInit, PatienceInv
  <2> QED BY <2>1, <2>2, InitBack
<1>2. Inv /\ [Next]_vars => Inv'
  BY StepBack, StepStop, StepPatience DEF BackInv
<1>3. Inv /\ [Next]_vars =>
        [\A r \in Requests :
            request[r] = "active" /\ request'[r] = "cut" =>
              \/ run = "shutdown" /\ ShutdownTimeout - timer >= HttpShutdownTimeout
              \/ result = "timeout"]_vars
  <2> SUFFICES ASSUME Inv, [Next]_vars, NEW r \in Requests,
                      request[r] = "active", request'[r] = "cut"
               PROVE  \/ run = "shutdown"
                         /\ ShutdownTimeout - timer >= HttpShutdownTimeout
                      \/ result = "timeout"
    OBVIOUS
  <2>1. H!ServerNext
    BY OnePartMoves DEF vars, httpVars, GrpcReturns, OpsReturns, WorkerReturns,
       SendHangs, Tick
  <2>2. CASE H!ShutdownExpires
    <3>1. hRun = "shutdown" /\ hTimer = 0
      BY <2>2 DEF H!ShutdownExpires
    <3>2. HttpShutdownTimeout # 0
      BY ServiceAssumption DEF H!HttpConfig
    <3> QED BY <3>1, <3>2, StopTypes DEF PatienceInv
  <2>3. ASSUME NEW q \in Requests, H!RequestArrives(q) \/ H!RequestDone(q) PROVE FALSE
    BY <2>3 DEF H!RequestArrives, H!RequestDone, BackInv, HttpInv
  <2> QED BY <2>1, <2>2, <2>3 DEF H!ServerNext, H!RunStep, H!LibraryStep, H!Listen,
             H!ListenFails, H!BeginShutdown, H!ShutdownReturns, H!Return,
             H!ServeBegins, H!ServeEnds, H!ServeFails, H!ServeReturns
<1> QED BY <1>1, <1>2, <1>3, PTL DEF Spec, RequestGetsItsTime

-------------------------------------------------------------------------------
(* The parts in the company of the others *)

\* The clock of the Runner runs only while Run waits, and those of the servers are
\* never below zero.
ClockInv ==
    /\ groupDone \in BOOLEAN
    /\ timer \in Nat /\ (timer > 0 => run = "shutdown")
    /\ hTimer \in Nat

\* Every step preserves it.
LEMMA StepClock == ClockInv /\ [Next]_vars => ClockInv'
<1> SUFFICES ASSUME ClockInv, [Next]_vars PROVE ClockInv'
  OBVIOUS
<1> USE StopTypes DEF ClockInv
<1>1. CASE G!ServerNext /\ UNCHANGED <<runnerVars, httpVars>>
  BY <1>1 DEF runnerVars, httpVars
<1>2. CASE H!ServerNext /\ UNCHANGED <<runnerVars, grpcVars>>
  <2>1. hTimer' \in {hTimer, 0, HttpShutdownTimeout}
    BY <1>2 DEF H!ServerNext, H!RunStep, H!LibraryStep, H!Listen, H!ListenFails,
       H!BeginShutdown, H!ShutdownReturns, H!ShutdownExpires, H!Return,
       H!ServeBegins, H!ServeEnds, H!ServeReturns, H!ServeFails,
       H!RequestArrives, H!RequestDone, H!serverVars
  <2> QED BY <1>2, <2>1 DEF runnerVars
<1>3. CASE RunnerEffect /\ UNCHANGED <<grpcVars, httpVars>>
  BY <1>3 DEF RunnerEffect, httpVars
<1>4. CASE Tick
  BY <1>4 DEF Tick, Down
<1>5. CASE UNCHANGED <<runnerVars, httpVars>>
  BY <1>5 DEF runnerVars, httpVars
<1> QED BY <1>1, <1>2, <1>3, <1>4, <1>5, RunnerEffects, OnePartMoves
        DEF vars, GrpcReturns, OpsReturns, WorkerReturns, SendHangs

\* A step of the service is one of the Runner, or none.
LEMMA RunnerFollows == ClockInv /\ [Next]_vars => [R!Next]_(R!vars)
<1> SUFFICES ASSUME ClockInv, [Next]_vars PROVE [R!Next]_(R!vars)
  OBVIOUS
<1>1. CASE UNCHANGED runnerVars
  BY <1>1 DEF runnerVars, R!vars, R!runVars, R!sigVars
<1>2. CASE RunnerMoves
  BY <1>2 DEF RunnerMoves, R!Next
<1>3. CASE GrpcReturns \/ OpsReturns \/ WorkerReturns
  <2>1. \A res : Outcome(res) \in {"ok", "error"}
    BY DEF Outcome
  <2> QED BY <1>3, <2>1 DEF GrpcReturns, OpsReturns, WorkerReturns, R!Next, Components
<1>4. CASE Tick
  <2>1. CASE timer > 0
    BY <1>4, <2>1 DEF Tick, Down, ClockInv, R!Next, R!Tick, R!sigVars
  <2>2. CASE timer = 0
    BY <1>4, <2>2 DEF Tick, Down, R!vars, R!runVars, R!sigVars
  <2> QED BY <2>1, <2>2 DEF ClockInv
<1> QED BY <1>1, <1>2, <1>3, <1>4, OnePartMoves DEF vars, SendHangs

\* To a server the end of the group is the end of its context.
LEMMA GroupEnds ==
  ASSUME ClockInv, RunnerMoves \/ GrpcReturns \/ OpsReturns \/ WorkerReturns,
         UNCHANGED <<grpcVars, httpVars>>
  PROVE  [G!Next]_(G!vars) /\ [H!Next]_(H!vars)
<1>1. groupDone \in BOOLEAN /\ groupDone' \in BOOLEAN /\ (groupDone => groupDone')
  BY RunnerEffects DEF ClockInv, RunnerEffect
<1>2. CASE groupDone' = groupDone
  BY <1>2 DEF G!vars, G!serverVars, H!vars, H!serverVars, grpcVars, httpVars
<1>3. CASE ~groupDone /\ groupDone' = TRUE
  <2>1. G!Cancel
    BY <1>3 DEF G!Cancel, G!serverVars, grpcVars
  <2>2. H!Cancel
    BY <1>3 DEF H!Cancel, H!serverVars, httpVars
  <2> QED BY <2>1, <2>2 DEF G!Next, H!Next
<1> QED BY <1>1, <1>2, <1>3

\* A step of the service is one of the gRPC server, or none.
LEMMA GrpcFollows == ClockInv /\ [Next]_vars => [G!Next]_(G!vars)
<1> SUFFICES ASSUME ClockInv, [Next]_vars PROVE [G!Next]_(G!vars)
  OBVIOUS
<1>1. CASE G!ServerNext
  BY <1>1 DEF G!Next
<1>2. CASE UNCHANGED <<runnerVars, grpcVars>>
  BY <1>2 DEF runnerVars, grpcVars, G!vars, G!serverVars
<1>3. CASE Tick
  BY <1>3 DEF Tick, Down, G!Next, G!Tick
<1> QED BY <1>1, <1>2, <1>3, GroupEnds, OnePartMoves
        DEF vars, GrpcReturns, OpsReturns, WorkerReturns, SendHangs

\* A step of the service is one of the HTTP server, or none.
LEMMA HttpFollows == ClockInv /\ [Next]_vars => [H!Next]_(H!vars)
<1> SUFFICES ASSUME ClockInv, [Next]_vars PROVE [H!Next]_(H!vars)
  OBVIOUS
<1>1. CASE H!ServerNext
  BY <1>1 DEF H!Next
<1>2. CASE UNCHANGED <<runnerVars, httpVars>>
  BY <1>2 DEF runnerVars, httpVars, H!vars, H!serverVars
<1>3. CASE Tick
  <2>1. CASE hTimer > 0
    BY <1>3, <2>1 DEF Tick, Down, H!Next, H!Tick
  <2>2. CASE hTimer = 0
    BY <1>3, <2>2 DEF Tick, Down, H!vars, H!serverVars
  <2> QED BY <2>1, <2>2 DEF ClockInv
<1> QED BY <1>1, <1>2, <1>3, GroupEnds, OnePartMoves
        DEF vars, GrpcReturns, OpsReturns, WorkerReturns, SendHangs

\* In the service, where they share a context, a clock and a process that may end
\* under them, the Runner and the two servers do nothing that they would not do
\* alone: what holds of the specification of a part holds of it in the service.
THEOREM PartsKeepTheirSpecifications == Spec => R!Spec /\ G!Spec /\ H!Spec
<1>1. Init => R!Init /\ G!Init /\ H!Init /\ ClockInv
  <2> SUFFICES ASSUME Init PROVE R!Init /\ G!Init /\ H!Init /\ ClockInv
    OBVIOUS
  <2>1. R!Init /\ G!ServerInit /\ H!ServerInit
    BY Zenon DEF Init
  <2>2. groupDone = FALSE /\ timer = 0
    BY <2>1, Zenon DEF R!Init
  <2>3. hTimer = 0
    BY <2>1, Zenon DEF H!ServerInit
  <2>4. G!Init /\ H!Init
    BY <2>1, <2>2, Zenon DEF G!Init, H!Init
  <2>5. ClockInv
    <3>1. groupDone \in BOOLEAN
      BY <2>2, Zenon
    <3>2. timer \in Nat /\ hTimer \in Nat /\ ~(timer > 0)
      BY <2>2, <2>3, SMT
    <3> QED BY <3>1, <3>2, Zenon DEF ClockInv
  <2> QED BY <2>1, <2>4, <2>5
<1>2. ClockInv /\ [Next]_vars =>
        ClockInv' /\ [R!Next]_(R!vars) /\ [G!Next]_(G!vars) /\ [H!Next]_(H!vars)
  BY StepClock, RunnerFollows, GrpcFollows, HttpFollows
<1> QED BY <1>1, <1>2, PTL DEF Spec, R!Spec, G!Spec, H!Spec

GP == INSTANCE GrpcServerProofs WITH
        ctxDone <- groupDone, run <- gRun, serve <- gServe, errCh <- gErrCh,
        timer <- gTimer, result <- gResult

\* The proofs about the gRPC server are about the one in the service.
LEMMA SameServer == G!Spec => GP!Spec
<1>1. G!Init => GP!Init
  BY DEF G!Init, G!ServerInit, GP!Init, GP!ServerInit
<1>2. [G!Next]_(G!vars) => [GP!Next]_(GP!vars)
  BY DEF G!vars, GP!vars, G!serverVars, GP!serverVars, G!Next, GP!Next,
     G!ServerNext, GP!ServerNext, G!RunStep, GP!RunStep, G!LibraryStep,
     GP!LibraryStep, G!Listen, GP!Listen, G!ListenFails, GP!ListenFails,
     G!BeginStop, GP!BeginStop, G!CallGracefulStop, GP!CallGracefulStop,
     G!DrainOver, GP!DrainOver, G!GracefulOver, GP!GracefulOver, G!ForceStop,
     GP!ForceStop, G!Return, GP!Return, G!ServeBegins, GP!ServeBegins,
     G!ServeFails, GP!ServeFails, G!ServeEnds, GP!ServeEnds,
     G!GracefulStopReturns, GP!GracefulStopReturns, G!Handling, GP!Handling,
     G!Listening, GP!Listening, G!CallArrives, GP!CallArrives,
     G!HandlerReturns, GP!HandlerReturns, G!Probe, GP!Probe, G!Cancel,
     GP!Cancel, G!Tick, GP!Tick
<1> QED BY <1>1, <1>2, PTL DEF G!Spec, GP!Spec

\* In the service too a stop that was asked for reports no error, even if the other
\* parts end the group before the goroutine of Serve has begun.
THEOREM StopIsCleanInCompany == Spec => []G!PlannedStopIsClean
<1>1. G!PlannedStopIsClean <=> GP!PlannedStopIsClean
  BY DEF G!PlannedStopIsClean, GP!PlannedStopIsClean
<1> QED BY <1>1, PartsKeepTheirSpecifications, SameServer, GP!StopIsClean, PTL

===============================================================================
