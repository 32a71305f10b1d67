SPECIFICATION Spec
CONSTANTS
  i1 = i1
  i2 = i2
  s1 = s1
  r1 = r1
  r2 = r2
  r3 = r3
  Instances <- MCInstances
  Sessions <- MCSessions
  Requests <- MCRequests
  Offered = {"login", "logout", "protected"}
  Shared = TRUE
  StableSecret = TRUE
  Lifetime = 2
  MaxSkew = 1
  MaxTime = 2
  MaxRestarts = 0
SYMMETRY Symmetry
CHECK_DEADLOCK FALSE
INVARIANTS
  TypeOK
  LogoutHolds
  ConfirmedIsRecorded
  RefusedOnlyWithCause
PROPERTIES
  ImplementsLifecycle
