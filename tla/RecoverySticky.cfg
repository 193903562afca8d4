CONSTANTS
  a = a
  b = b
  NoCall = NoCall
  Calls <- MCCalls
  Spans <- MCSpans
  Costs = {0, 1}
  LoopThreshold = 2
  RetryThreshold = 2
  CeilingSet = TRUE
  CostCeiling = 1
  MaxTrace = 5
SPECIFICATION TraceSpec
INVARIANT EveryUnrecoveredFailureReported
CHECK_DEADLOCK FALSE
