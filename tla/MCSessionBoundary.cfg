SPECIFICATION Spec
CONSTANTS
  i1 = i1
  s1 = s1
  r1 = r1
  r2 = r2
  Instances <- MCInstances
  Sessions <- MCSessions
  Requests <- MCRequests
  Offered = {"login", "logout", "protected"}
  Shared = TRUE
  StableSecret = TRUE
  Lifetime = 2
  MaxSkew = 0
  MaxTime = 2
  MaxRestarts = 0
CHECK_DEADLOCK FALSE
INVARIANTS
  CapturedSessionIsDead
