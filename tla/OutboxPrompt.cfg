\* Goroutines run promptly and the lease outlasts two waves of one send;
\* two faults.
SPECIFICATION Spec
CONSTANTS
    Ids = {m1, m2}
    Workers = {w1, w2}
    RequestedAttempts = 3
    SmallintMax = 7
    BatchSize = 2
    Concurrency = 1
    VisibilityTimeout = 3
    SendTimeout = 1
    BaseBackoff = 1
    MaxBackoff = 2
    ConflictBackoff = 1
    FailedRetention = 1
    UnitsPerSecond = 1
    Prompt = TRUE
    MaxFaults = 2
    MaxDuration = 12
    MaxAttempt = 6
    m1 = m1
    m2 = m2
    w1 = w1
    w2 = w2
SYMMETRY Symmetry
INVARIANTS
    NoTwoReplicasDeliver
    FailedIsAnnounced
    NoDuplicateWithoutFault
    AttemptsBudget
PROPERTIES
    FailedIsFinal
    ImplementsContract
