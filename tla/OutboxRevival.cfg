\* A goroutine paused past its lease, no faults.
SPECIFICATION Spec
CONSTANTS
    Ids = {m1}
    Workers = {w1, w2}
    RequestedAttempts = 3
    SmallintMax = 6
    BatchSize = 1
    Concurrency = 1
    VisibilityTimeout = 2
    SendTimeout = 1
    BaseBackoff = 1
    MaxBackoff = 2
    ConflictBackoff = 1
    FailedRetention = 1
    UnitsPerSecond = 1
    Prompt = FALSE
    MaxFaults = 0
    MaxDuration = 12
    MaxAttempt = 6
    m1 = m1
    w1 = w1
    w2 = w2
SYMMETRY Symmetry
PROPERTIES
    FailedIsFinal
