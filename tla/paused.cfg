SPECIFICATION Spec
CONSTANTS
  Plan = {p1, p2}
  Broken = {}
  Run = {r1}
  Step = 1
  None = None
  Foreign = Foreign
  LastDay = 0
  MaxNumber = 2
  MaxSaves = 3
PROPERTIES PausedPlanRests
CHECK_DEADLOCK FALSE

