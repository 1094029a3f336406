SPECIFICATION Spec
CONSTANTS
  Invoice = {i1, i2}
  Payment = {p1, p2}
  Tx = {t1}
  Request = {r1, r2}
  Fits <- FitsAll
  Named <- FitsAll
  None = None
  MaxOverlaps = 1
SYMMETRY Symmetry
PROPERTIES PairingKept
