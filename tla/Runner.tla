-------------------------------- MODULE Runner --------------------------------
(***************************************************************************)
(* Package runner: Runner.Run starts the components of a service in an     *)
(* errgroup, stops all of them as soon as one returns or the context is    *)
(* done, and waits for them no longer than the shutdown timeout.           *)
(* SignalContext turns the first signal into the cancellation of the       *)
(* context and the second one into the exit of the process.                *)
(*                                                                         *)
(* What a component does until it returns is not modelled here; a stubborn *)
(* component is one that may never return, told to stop or not.            *)
(***************************************************************************)
EXTENDS Integers, FiniteSets

CONSTANTS
    Components,       \* the names given to Add
    Stubborn,         \* the components that may ignore their context
    ShutdownTimeout,  \* in clock units
    MaxSignals        \* bound: signals sent to the process

\* What New and the defaults of the package see to.
RunnerConfig ==
    /\ Components # {}
    /\ Stubborn \subseteq Components
    /\ ShutdownTimeout \in Nat \ {0}
    /\ MaxSignals \in Nat

VARIABLES
    comp,      \* [Components -> {"running", "ok", "error"}]
    groupDone, \* groupCtx is done
    run,       \* {"select", "shutdown", "returned"}, where Run is
    result,    \* {"none", "ok", "error", "timeout"}, what Run returned
    timer,     \* what is left of the shutdown timeout
    sigs,      \* the buffer of the channel signals: 0..2
    sent,      \* signals sent to the process so far
    handler,   \* {"first", "second", "gone"}, the goroutine of SignalContext
    stopped,   \* the channel stopped is closed
    process    \* {"up", "exit", "exit130", "killed"}

runVars == <<comp, groupDone, run, result, timer>>
sigVars == <<sigs, sent, handler, stopped>>
vars == <<runVars, sigVars, process>>

TypeOK ==
    /\ comp \in [Components -> {"running", "ok", "error"}]
    /\ groupDone \in BOOLEAN
    /\ run \in {"select", "shutdown", "returned"}
    /\ result \in {"none", "ok", "error", "timeout"}
    /\ timer \in 0..ShutdownTimeout
    /\ sigs \in 0..2
    /\ sent \in 0..MaxSignals
    /\ handler \in {"first", "second", "gone"}
    /\ stopped \in BOOLEAN
    /\ process \in {"up", "exit", "exit130", "killed"}

Init ==
    /\ comp = [c \in Components |-> "running"]
    /\ groupDone = FALSE
    /\ run = "select"
    /\ result = "none"
    /\ timer = 0
    /\ sigs = 0
    /\ sent = 0
    /\ handler = "first"
    /\ stopped = FALSE
    /\ process = "up"

-------------------------------------------------------------------------------
(* Run *)

\* group.Wait has returned: the channel done is ready.
AllReturned == \A c \in Components : comp[c] # "running"

Failed == {c \in Components : comp[c] = "error"}

\* Slip: a component that returns nil leaves the others running.
ReturnsQuietly(c, outcome) ==
    /\ process = "up"
    /\ comp[c] = "running"
    /\ comp' = [comp EXCEPT ![c] = outcome]
    /\ groupDone' = (groupDone \/ outcome = "error")
    /\ UNCHANGED <<run, result, timer, sigVars, process>>

\* A component returns, and cancel() of its goroutine ends the group.
ComponentReturns(c, outcome) ==
    /\ process = "up"
    /\ comp[c] = "running"
    /\ comp' = [comp EXCEPT ![c] = outcome]
    /\ groupDone' = TRUE
    /\ UNCHANGED <<run, result, timer, sigVars, process>>

\* Run returns; its deferred cancel() ends the group.
RunReturns(r) ==
    /\ run' = "returned"
    /\ result' = r
    /\ timer' = 0
    /\ groupDone' = TRUE
    /\ UNCHANGED <<comp, sigVars, process>>

\* Either select receives from done: the first error of the group.
Done ==
    /\ process = "up"
    /\ run \in {"select", "shutdown"}
    /\ AllReturned
    /\ RunReturns(IF Failed = {} THEN "ok" ELSE "error")

\* The first select receives from groupCtx.Done() and the timer starts.
BeginShutdown ==
    /\ process = "up"
    /\ run = "select"
    /\ groupDone
    /\ run' = "shutdown"
    /\ timer' = ShutdownTimeout
    /\ UNCHANGED <<comp, groupDone, result, sigVars, process>>

\* Slip: the wait has no timeout.
TimesOutNever == FALSE /\ UNCHANGED vars

\* The second select receives from timer.C.
TimesOut ==
    /\ process = "up"
    /\ run = "shutdown"
    /\ timer = 0
    /\ RunReturns("timeout")

-------------------------------------------------------------------------------
(* SignalContext and main *)

\* The system delivers SIGINT or SIGTERM.  It goes to the channel, which drops
\* it when both places are taken, or has its default effect once Notify is no
\* longer in force.
Signal ==
    /\ process = "up"
    /\ sent < MaxSignals
    /\ sent' = sent + 1
    /\ sigs' = IF handler # "gone" /\ sigs < 2 THEN sigs + 1 ELSE sigs
    /\ process' = IF handler = "gone" THEN "killed" ELSE process
    /\ UNCHANGED <<runVars, handler, stopped>>

\* Slip: the goroutine ends with the first signal, and signal.Stop with it.
FirstSignalEndsHandler ==
    /\ process = "up"
    /\ handler = "first"
    /\ sigs > 0
    /\ sigs' = sigs - 1
    /\ handler' = "gone"
    /\ groupDone' = TRUE
    /\ UNCHANGED <<comp, run, result, timer, sent, stopped, process>>

\* The first signal cancels the context and with it groupCtx.
FirstSignal ==
    /\ process = "up"
    /\ handler = "first"
    /\ sigs > 0
    /\ sigs' = sigs - 1
    /\ handler' = "second"
    /\ groupDone' = TRUE
    /\ UNCHANGED <<comp, run, result, timer, sent, stopped, process>>

\* The second signal ends the process at once.
SecondSignal ==
    /\ process = "up"
    /\ handler = "second"
    /\ sigs > 0
    /\ sigs' = sigs - 1
    /\ process' = "exit130"
    /\ UNCHANGED <<runVars, sent, handler, stopped>>

\* The goroutine of SignalContext sees stopped closed (a select that could
\* also receive a signal may choose either) and calls signal.Stop.
HandlerEnds ==
    /\ process = "up"
    /\ handler # "gone"
    /\ stopped
    /\ handler' = "gone"
    /\ UNCHANGED <<runVars, sigs, sent, stopped, process>>

\* main calls stop after Run has returned.
Stop ==
    /\ process = "up"
    /\ run = "returned"
    /\ ~stopped
    /\ stopped' = TRUE
    /\ UNCHANGED <<runVars, sigs, sent, handler, process>>

\* main returns.
Exit ==
    /\ process = "up"
    /\ stopped
    /\ process' = "exit"
    /\ UNCHANGED <<runVars, sigVars>>

-------------------------------------------------------------------------------
\* A unit of time passes while Run waits for its components.
Tick ==
    /\ process = "up"
    /\ run = "shutdown"
    /\ timer > 0
    /\ timer' = timer - 1
    /\ UNCHANGED <<comp, groupDone, run, result, sigVars, process>>

RunStep == Done \/ BeginShutdown \/ TimesOut

HandlerStep == FirstSignal \/ SecondSignal

\* A select of Run, or of the goroutine of SignalContext, has something to
\* receive: RunStep, HandlerStep or HandlerEnds can be taken.
Ready ==
    \/ run \in {"select", "shutdown"} /\ AllReturned
    \/ run = "select" /\ groupDone
    \/ run = "shutdown" /\ timer = 0
    \/ handler # "gone" /\ (sigs > 0 \/ stopped)

MainStep == Stop \/ Exit

Next ==
    \/ \E c \in Components, o \in {"ok", "error"} : ComponentReturns(c, o)
    \/ RunStep \/ HandlerStep \/ HandlerEnds \/ MainStep
    \/ Signal
    \/ Tick

Spec == Init /\ [][Next]_vars

-------------------------------------------------------------------------------
(* What the runner promises *)

\* Until Run has returned, nothing but a second signal ends the process: the
\* default effect of a signal never cuts the shutdown of the components short.
GracefulUnlessInsisted ==
    process # "up" /\ run # "returned" => process = "exit130" /\ sent >= 2

===============================================================================
