SPECIFICATION MCSpec
CONSTANTS
  None = None
  ImportSource = {"contacts_csv", "catalog_csv", "native_v1", "native_v2", "native_v3", "fakturoid"}
  ImportFile = {"f1", "f2", "f3"}
  RowId = {"a", "b"}
  RecordKey = {"k", "l"}
  FileRows <- Rows
  KeyOfRow <- Keys
  MaxImports = 2
  MaxRecords = 3
  MaxWrites = 2
  FileFormat = {"contacts_csv", "catalog_csv", "backup_v1", "backup_v2", "backup_v3"}
  AccountKey = {k1, k2}
  SeriesName = {"a", "A", "b"}
  StorageKeyOf <- StorageKey
  RowLimit = 2
  AlertRun = {r1, r2}
  AlertYears = {1, 2}
  Turnover = {0, 13}
  FirstLimit = 10
  SecondLimit = 13
  FlatLimits = {9}
  MaxTurnovers = 1
  MaxProfiles = 1
  Device = {r1, r2}
  Confirmer = {w1}
  AgeChoices = {1}
  LinkAge = 1
  LastTime = 2
  MaxPasswords = 3
  Person = {u1, u2, u3}
  SubjectId = {1, 2}
  Roles = {"owner", "manager"}
  MaxAccesses = 4
  Caller = {r1, r2}
  ApiToken = {a1}
  IdemKey = {"i1", "i2", "i3"}
  KindOf <- Kinds
  Body = {k1, k2}
  Quota = 3
  MaxEffects = 2
  MaxGrants = 1
  Client = {k1, k2, u3}
  Checker = {r1, r2}
  Hits = 2
  Window = 2
  SweepEvery = 2
  TableSize = 2
  Lag = 1
  LastTick = 4
  MaxChecks = 4
SYMMETRY Symmetry
CONSTRAINTS OneKey FewWrites
INVARIANTS ImportedOnce ReadAsStored WrittenIsReadable AlertBacked OnlyCurrentPassword SubjectHasOwner WindowLimit
PROPERTIES EffectRegisterSpec RefusedForCause NoSecondRecord OwnersMakeOwners
CHECK_DEADLOCK FALSE
