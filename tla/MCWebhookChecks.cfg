SPECIFICATION Spec
CONSTANTS
  d1 = d1
  d2 = d2
  h1 = h1
  h2 = h2
  Deliveries <- MCDeliveries
  Requests <- MCRequests
  Worlds <- MCWorlds
  Manifests <- MCManifests
  Operators <- MCOperators
  Addresses <- MCAddresses
  PathCount = 2
  Ttl = 1
  MaxTracked = 1
  MaxTime = 1
  MaxRestarts = 1
CHECK_DEADLOCK FALSE
INVARIANTS
  TypeOK
  CheckTellsTheHead
  GreenIsEarned
  AnswerMatchesCheck
