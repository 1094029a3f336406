SPECIFICATION MCSpec
CONSTANTS
  Invoice = {i1, i2}
  Request = {r1, r2}
  Series = {s1, s2}
  Prefix <- SharedPrefix
  Spelled <- OneSpelled
  Year = {2025, 2026}
  MaxCounter = 2
  MaxImported = 2
  MaxTries = 2
  Absent = Absent
  Nobody = Nobody
SYMMETRY Symmetry
INVARIANTS TypeOK NumbersUnique Gapless
PROPERTIES RegistrySpec ReplacedBehindItsBack
CHECK_DEADLOCK FALSE
