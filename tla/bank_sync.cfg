SPECIFICATION Spec
CONSTANTS
  Tx = {t1, t2}
  Incoming = {t1}
  Token = {k1, k2}
  Setting = {x}
  Run = {r1, r2}
  None = None
  Overlap = 1
  MaxWindow = 2
  Delay = 1
  LastDay = 2
  MaxSaves = 3
SYMMETRY Symmetry
INVARIANTS NoDuplicateInsert NothingSkipped NoBackfill
PROPERTIES OnlyConfiguredStored
CHECK_DEADLOCK FALSE
