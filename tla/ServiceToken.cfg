\* Half-second units: a token of 2.5 s renewed 1 s before its end, calls of
\* 1.5 s, clocks half a second off either way, the least leeway for that.
SPECIFICATION FairSpec
CONSTANTS
    Calls = {c1, c2}
    RequestedTTL = 0
    DefaultServiceTokenTTL = 5
    RenewBefore = 2
    Leeway = 3
    CallTimeout = 3
    UnitsPerSecond = 2
    Skew = 1
    Free = Free
    c1 = c1
    c2 = c2
INVARIANTS
    NeverRefused
PROPERTIES
    EveryCallEnds
