\* Of two handlers one has a connection of the pool and may never return,
\* a worker that may return early or wait for a Send that ignores its context, two
\* signals.  A process that has ended takes no step.
SPECIFICATION FairSpec
CONSTANTS
    ShutdownTimeout = 4
    MaxSignals = 2
    Calls = {"c1", "c2"}
    StuckCalls = {"c2"}
    EnableHealth = TRUE
    DrainDelay = 2
    GracefulStopTimeout = 1
    ProbePeriod = 1
    Requests = {"r1"}
    HttpShutdownTimeout = 1
    PoolUsers = {"c2"}
INVARIANTS
    FailureIsReported
    GracefulUnlessInsisted
    TimeoutMeansStuck
    ExitLeavesNoCall
    NoCallRefused
PROPERTIES
    RequestGetsItsTime
    SignalEndsProcess
    OneStopsAll
CHECK_DEADLOCK FALSE
