SPECIFICATION Spec
CONSTANTS
  Configs <- MCUsual
  Requests <- MCRequests
  InnerMethods = {"profile", "send"}
  PublicMethods = {"login", "send"}
  InternalMethods = {"send"}
  LimitedMethods = {"profile"}
  LogSkipMethods = {"login"}
  RequiredRoles = {"admin", "service"}
  EdgeFailures <- MCEdgeFailures
  InnerFailures <- MCInnerFailures
  MaxAttempts = 2
INVARIANT OriginalInLog
