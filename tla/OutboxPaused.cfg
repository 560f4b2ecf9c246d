\* Any goroutine may be paused past its lease; one message and three faults, or
\* two messages and one fault; max_attempts is the largest smallint, so that one
\* attempt whose outcome is lost leaves a row that no Claim can count up.
SPECIFICATION LoadSpec
CONSTANTS
    Ids = {m1, m2}
    Workers = {w1, w2}
    RequestedAttempts = 2
    SmallintMax = 2
    BatchSize = 1
    Concurrency = 1
    VisibilityTimeout = 1
    SendTimeout = 1
    BaseBackoff = 1
    MaxBackoff = 1
    ConflictBackoff = 1
    FailedRetention = 1
    UnitsPerSecond = 1
    Prompt = FALSE
    MaxFaults = 3
    MaxDuration = 12
    MaxAttempt = 6
    m1 = m1
    m2 = m2
    w1 = w1
    w2 = w2
INVARIANTS
    TypeOK
    NoSilentLoss
PROPERTIES
    EventuallySettled
    ShutdownCompletes
