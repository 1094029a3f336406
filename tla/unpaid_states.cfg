SPECIFICATION Spec
CONSTANTS
  Invoice = {i1}
  Payment = {p1, p2}
  Tx = {t1}
  Request = {r1}
  Fits <- FitsAll
  Named <- FitsAll
  None = None
  MaxOverlaps = 1
SYMMETRY Symmetry
PROPERTIES OnlyIssuedGetsPaid
