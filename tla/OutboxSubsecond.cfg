\* A lease of 5/3 s, which validate accepts for a send of 4/3 s.
SPECIFICATION Spec
CONSTANTS
    Ids = {m1}
    Workers = {w1, w2}
    RequestedAttempts = 2
    SmallintMax = 6
    BatchSize = 1
    Concurrency = 1
    VisibilityTimeout = 5
    SendTimeout = 4
    BaseBackoff = 1
    MaxBackoff = 2
    ConflictBackoff = 1
    FailedRetention = 1
    UnitsPerSecond = 3
    Prompt = TRUE
    MaxFaults = 0
    MaxDuration = 12
    MaxAttempt = 6
    m1 = m1
    w1 = w1
    w2 = w2
SYMMETRY Symmetry
INVARIANTS
    NoTwoReplicasDeliver
