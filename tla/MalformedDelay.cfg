CONSTANTS
  Calls = {"lookup_scheme"}
  NoCall = NoCall
  Costs <- SomeCosts
  LoopThreshold = 3
  RetryThreshold = 2
  CeilingSet = TRUE
  CostCeiling = 2
  Absent = Absent
  Unreadable = Unreadable
  NaN = NaN
  Inf = Inf
  Forever = 9
  Quotas = {"gemini"}
  TotalAware = {"gemini"}
  ListPrices <- Prices
  Requests = {"r1", "r2", "r3"}
  Setting <- Settings
  Replies <- SomeReplies
  ToolFails <- SomePrompts
  DefaultCooldown = 1
  MaxAttempts = 3
  MaxWait = 1
SPECIFICATION Spec
INVARIANTS
  RateLimitIsTransient
CHECK_DEADLOCK FALSE
