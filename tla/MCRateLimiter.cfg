SPECIFICATION Spec
CONSTANTS
  a = a
  b = b
  c = c
  m = m
  n = n
  Devices <- MCDevices
  Networks <- MCNetworks
  NetworkOf <- MCNetworkOf
  Costs = {1, 3}
  Capacity <- MCCapacity
  Refill <- MCRefill
  SecondTicks = 1
  MaxTracked = 1
  MaxRequests = 4
  MaxTime = 1
  MaxBack = 1
  MaxAhead = 1
SYMMETRY Symmetry
CHECK_DEADLOCK FALSE
INVARIANTS
  TypeOK
  BudgetHolds
  RetryAfterSuffices
  MapsBounded
