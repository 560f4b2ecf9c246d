\* Three replicas and an operator; two faults.
SPECIFICATION Spec
CONSTANTS
    a1 = a1
    a2 = a2
    b1 = b1
    Replicas = {a1, a2, b1}
    Operator = op
    Migrators = {a1, a2, b1, op}
    NoOne = NoOne
    Ghost = Ghost
    DisableSessionLock = FALSE
    Versions <- MCVersions
    Needs <- MCNeeds
    CreateBucket = TRUE
    Staging = TRUE
    MaxFaults = 2
INVARIANTS
    AppliedOnce
    ReadyMeansUsable
PROPERTIES
    EventuallyReady
CHECK_DEADLOCK FALSE
