--------------------------- MODULE GrpcServerProofs ---------------------------
(***************************************************************************)
(* Proofs about GrpcServer, for any calls, timeouts and period of the      *)
(* probe.                                                                  *)
(***************************************************************************)
EXTENDS GrpcServer, TLAPS

\* The strengthening: nothing is returned or served before net.Listen, and the
\* channel holds what Serve returned, once Serve has returned.
CleanInv ==
    /\ run = "listen" => serve = "none" /\ result = "none"
    /\ serve # "over" => errCh = "empty"
    /\ PlannedStopIsClean

\* It holds before Run is called.
LEMMA InitClean == Init => CleanInv
  BY DEF Init, ServerInit, CleanInv, PlannedStopIsClean

\* Every step of Run, of the library and of the environment keeps the invariant.
LEMMA StepClean == CleanInv /\ [Next]_vars => CleanInv'
<1> SUFFICES ASSUME CleanInv, [Next]_vars PROVE CleanInv'
  OBVIOUS
<1> USE DEF CleanInv, PlannedStopIsClean, serverVars
<1>1. CASE Listen
  BY <1>1 DEF Listen
<1>2. CASE ListenFails
  BY <1>2 DEF ListenFails
<1>3. CASE BeginStop
  BY <1>3 DEF BeginStop, CallGracefulStop
<1>4. CASE DrainOver
  BY <1>4 DEF DrainOver, CallGracefulStop
<1>5. CASE GracefulOver
  BY <1>5 DEF GracefulOver
<1>6. CASE ForceStop
  BY <1>6 DEF ForceStop
<1>7. CASE Return
  BY <1>7 DEF Return
<1>8. CASE LibraryStep
  BY <1>8 DEF LibraryStep, ServeBegins, ServeEnds, GracefulStopReturns
<1>9. CASE ServeFails
  BY <1>9 DEF ServeFails
<1>10. CASE \E c \in Calls : CallArrives(c) \/ HandlerReturns(c)
  BY <1>10 DEF CallArrives, HandlerReturns
<1>11. CASE Probe \/ Cancel \/ Tick
  BY <1>11 DEF Probe, Cancel, Tick
<1>12. CASE UNCHANGED vars
  BY <1>12 DEF vars
<1> QED
  BY <1>1, <1>2, <1>3, <1>4, <1>5, <1>6, <1>7, <1>8, <1>9, <1>10, <1>11, <1>12
  DEF Next, ServerNext, RunStep

\* A stop that was asked for reports no error, even if the context is done
\* before Serve begins and Serve finds its server stopped: Run fails only if
\* net.Listen or Accept did.
THEOREM StopIsClean == Spec => []PlannedStopIsClean
<1>1. Init => CleanInv
  BY InitClean
<1>2. CleanInv /\ [Next]_vars => CleanInv'
  BY StepClean
<1>3. CleanInv => PlannedStopIsClean
  BY DEF CleanInv
<1> QED BY <1>1, <1>2, <1>3, PTL DEF Spec

===============================================================================
