SPECIFICATION Spec
CONSTANTS
  Plan = {p1}
  Broken = {}
  Run = {r1, r2}
  Step = 1
  None = None
  Foreign = Foreign
  LastDay = 1
  MaxNumber = 2
  MaxSaves = 2
SYMMETRY Symmetry
CONSTRAINT Bounded
INVARIANTS OncePerDate MailedExists
CHECK_DEADLOCK FALSE
