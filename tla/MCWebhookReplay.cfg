SPECIFICATION Spec
CONSTANTS
  d1 = d1
  d2 = d2
  d3 = d3
  d4 = d4
  h1 = h1
  h2 = h2
  h3 = h3
  h4 = h4
  h5 = h5
  Deliveries <- MCDeliveries
  Requests <- MCRequests
  Worlds <- MCWorlds
  Manifests <- MCManifests
  Operators = {}
  Addresses = {}
  PathCount = 1
  Ttl = 1
  MaxTracked = 2
  MaxTime = 3
  MaxRestarts = 1
SYMMETRY Symmetry
CHECK_DEADLOCK FALSE
INVARIANTS
  ReplaySuppressed
  CacheInOrder
PROPERTIES
  DuplicateOnlyOfRecent
