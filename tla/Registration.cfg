\* Two registrations of one key and a login; one slot, two connections.
SPECIFICATION Spec
CONSTANTS
    r1 = r1
    r2 = r2
    r3 = r3
    key = key
    Requests = {r1, r2, r3}
    Logins = {r3}
    Keys = {key}
    KeyOf <- MCKeyOf
    NoTx = NoTx
    MaxConcurrent = 0
    MaxProcs = 1
    RequestedConns = 2
    DefaultConns = 20
INVARIANTS
    AnswerMatchesDatabase
    HashesBounded
    NothingHeldOnReturn
PROPERTIES
    EveryRequestEnds
    MessageFollows
CHECK_DEADLOCK FALSE
