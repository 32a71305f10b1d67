SPECIFICATION FairSpec
CONSTANTS
  i1 = i1
  s1 = s1
  s2 = s2
  r1 = r1
  r2 = r2
  r3 = r3
  Instances <- MCInstances
  Sessions <- MCSessions
  Requests <- MCRequests
  Offered = {"login", "logout", "protected", "health"}
  Shared = FALSE
  StableSecret = FALSE
  Lifetime = 1
  MaxSkew = 0
  MaxTime = 2
  MaxRestarts = 1
CHECK_DEADLOCK FALSE
INVARIANTS
  RefusedOnlyWithCause
PROPERTIES
  ImplementsLifecycle
  EveryRequestEnds
