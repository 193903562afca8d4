CONSTANTS
  Calls <- AllCalls
  NoCall = NoCall
  Costs <- AllCosts
  LoopThreshold = 3
  RetryThreshold = 5
  CeilingSet = FALSE
  CostCeiling = 0
  InputPrice = 59
  OutputPrice = 79
  Services = {"host"}
  Ceilings = {0, 100000}
  NoCeiling = 0
  CorpusSessions <- SomeCosts
SPECIFICATION Spec
INVARIANTS
  ReplaysAreFaithful
  HostIsWatched
  DemonstrationsShowIt
