SPECIFICATION Spec
CONSTANTS
  a1 = a1
  a2 = a2
  b1 = b1
  r1 = r1
  PathCount = 2
  Routes <- MCRoutes
  Operator <- MCOperator
  Attempts <- MCAttempts
  Readers <- MCReaders
  Limits = {1, 2}
  MaxRuns = 2
  Samples = {2}
CHECK_DEADLOCK FALSE
INVARIANTS
  TypeOK
  EvidenceIsEarned
  SupersededIsNotShown
  SourcesAccounted
  ExitIsTrue
