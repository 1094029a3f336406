SPECIFICATION MCSpec
CONSTANTS
  None = None
  Tx = {t1}
  Incoming = {t1}
  Token = {k1}
  Setting = {x}
  Run = {r1, r2}
  Overlap = 1
  MaxWindow = 1
  Delay = 1
  LastDay = 1
  MaxSaves = 2
  AlertRun = {r1, r2}
  AlertYears = {1, 2}
  Turnover = {0, 9}
  FirstLimit = 10
  SecondLimit = 13
  FlatLimits = {9}
  MaxTurnovers = 2
  MaxProfiles = 0
  Invoice = {i1, i2}
  Series = {s1}
  Prefix <- SharedPrefix
  Year = {2026}
  Spelled <- Spelling
  MaxCounter = 1
  MaxImported = 2
  MaxTries = 2
  Absent = Absent
  Nobody = Nobody
  Pair = {s1, s2}
  Calls = 3
  Plan = {p1, p2}
  Broken = {p2}
  Job = {r1}
  Step = 1
  Foreign = Foreign
  LastPlanDay = 0
  MaxNumber = 2
  MaxPlanSaves = 2
PROPERTIES EventuallyStored VatAnnounced RequestsEnd DueIsServed
CHECK_DEADLOCK FALSE
