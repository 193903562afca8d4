CONSTANTS
  a = a
  r1 = r1
  r2 = r2
  r3 = r3
  r4 = r4
  NoCall = NoCall
  Calls <- MCCalls
  Costs = {1}
  LoopThreshold = 2
  RetryThreshold = 2
  CeilingSet = TRUE
  CostCeiling = 0
  Ids = {r1, r3, r4}
  MaxSessions = 2
  Ttl = 1
  Runs = {r1, r2, r3, r4}
  SessionOf <- Shared
  Spans <- CostlySteps
  Sampling = {TRUE, FALSE}
  MaxSteps = 1
  MaxLate = 1
  MaxTime = 2
SPECIFICATION Spec
SYMMETRY SymmetricOthers
INVARIANTS
  BoundedMemory
  CostConserved
  OncePerScratchSpace
  OnlyInFlight
PROPERTIES
  EvictsOnlyIdleOrOldest
CHECK_DEADLOCK FALSE
