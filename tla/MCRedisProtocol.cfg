SPECIFICATION Spec
CONSTANTS
  c1 = c1
  c2 = c2
  d1 = d1
  Calls <- MCCalls
  Digests <- MCDigests
  Setups <- MCSetups
  MaxReply = 3
CHECK_DEADLOCK FALSE
INVARIANTS
  TypeOK
  CommandFollowsAuth
PROPERTIES
  ImplementsStore
  CallEnds
