SPECIFICATION Spec
CONSTANTS
  MaxEpoch = 3
  MaxLogins = 2
  MaxInFlight = 1
CHECK_DEADLOCK FALSE
INVARIANTS
  TypeOK
  ScreenFollowsSession
  SignedInIsTrue
  SignedOutIsTrue
