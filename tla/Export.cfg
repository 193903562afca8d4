CONSTANTS
  MaxQueue = 2
  MaxBatch = 2
  MaxSpans = 3
  Faults = {"server_error", "malformed"}
  Exceptions <- SomeExceptions
  Endpoints <- SomeEndpoints
SPECIFICATION Spec
INVARIANTS
  FailuresCounted
  RejectedForCause
  LastFlushUnshown
PROPERTIES
  KeepsPromise
  EverySpanLeaves
  CountGetsOut
