CONSTANTS
  a = a
  r1 = r1
  r2 = r2
  r3 = r3
  r4 = r4
  NoCall = NoCall
  Calls <- MCCalls
  Costs = {0, 1}
  LoopThreshold = 2
  RetryThreshold = 2
  CeilingSet = TRUE
  CostCeiling = 1
  Ids = {r1, r2}
  MaxSessions = 2
  Ttl = 1
  Runs = {r1, r2}
  SessionOf <- Unique
  Spans <- AllSteps
  Sampling = {TRUE, FALSE}
  MaxSteps = 4
  MaxLate = 0
  MaxTime = 0
SPECIFICATION Spec
SYMMETRY SymmetricRuns
PROPERTIES
  KeepsContract
CHECK_DEADLOCK FALSE
