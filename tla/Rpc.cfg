SPECIFICATION Spec
CONSTANTS
  Configs <- MCConfigs
  Requests <- MCRequests
  InnerMethods = {"profile", "send"}
  PublicMethods = {"login", "send"}
  InternalMethods = {"send"}
  LimitedMethods = {"profile"}
  LogSkipMethods = {"login"}
  RequiredRoles = {"admin", "service"}
  EdgeFailures <- MCEdgeFailures
  InnerFailures <- MCInnerFailures
  MaxAttempts = 2
INVARIANTS
  OnlyEntitled
  IdentityFollows
  ServiceCallsAuthenticate
  CodesAgree
  CauseStaysInside
  GaugeExact
  OneRequestId
PROPERTY EventuallyAnswered
