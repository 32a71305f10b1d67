SPECIFICATION FairSpec
CONSTANTS
  i1 = i1
  i2 = i2
  s1 = s1
  s2 = s2
  r1 = r1
  r2 = r2
  Instances <- MCInstances
  Sessions <- MCSessions
  Requests <- MCRequests
  Offered = {"login", "logout", "protected", "health"}
  Shared = TRUE
  StableSecret = TRUE
  Lifetime = 1
  MaxSkew = 0
  MaxTime = 1
  MaxRestarts = 1
CHECK_DEADLOCK FALSE
INVARIANTS
  FailClosed
PROPERTIES
  EveryRequestEnds
