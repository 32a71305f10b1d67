SPECIFICATION Spec
CONSTANTS
  x = x
  y = y
  Count = 4
  Provider <- MCProvider
  Values <- MCValues
  Calls <- MCCalls
CHECK_DEADLOCK FALSE
INVARIANTS
  FailuresAreIdentified
