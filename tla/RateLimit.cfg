\* A window of 2.25 s, which is 2 s in Redis; "front" joins x-forwarded-for, "back"
\* adds values to it.
SPECIFICATION Spec
CONSTANTS
  Clients = {"alice", "bob"}
  Proxies = {"front", "back"}
  Joins = {"front"}
  Limit = 2
  Window = 9
  MaxProxies = 2
  MaxWritten = 2
INVARIANTS
  BudgetHeld
  WaitIsEnough
PROPERTIES
  InnocentNotRefused
  EventuallyFreed
