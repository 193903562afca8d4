CONSTANTS
  Tasks = {t1, t2, t3}
  Traced = {t1, t2}
  Chosen = {chosen}
  None = None
  MaxIds = 3
  MaxDepth = 2
  MaxCalls = 2
SYMMETRY SameService
SPECIFICATION Spec
INVARIANTS
  RunIsWhole
  RunsStayApart
  SampledWhole
  StampedAsItsParent
CHECK_DEADLOCK FALSE
