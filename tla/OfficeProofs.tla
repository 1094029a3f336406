---------------------------- MODULE OfficeProofs ----------------------------
(***************************************************************************)
(* Proofs about ImportRuns, for all sets of files and rows, TaxAlerts, for *)
(* every number of overlapping runs and every years and turnovers, and     *)
(* BackupFiles, for every set of accounts and series and every row limit.  *)
(***************************************************************************)
EXTENDS ImportRuns, TaxAlerts, BackupFiles, FiniteSetTheorems, WellFoundedInduction, TLAPS

-----------------------------------------------------------------------------
(***************************************************************************)
(* ImportRuns: a row of a file becomes one record, and a careful import    *)
(* makes none that exists.  ImportsInv ties the records to the maps and    *)
(* says what the plan of a job knows of both, from the claim to the commit.*)
(***************************************************************************)

(* Maps and plans speak of records that were made, living or not. *)
MapsTo(map) == map \in [RowId -> 0 .. Len(records)]

(* A record that was made from a row is what the map says about the row; foreign
   imports do not repair a map, but know the record by its identity. *)
IdentityOK ==
  \A i \in Alive : records[i].row # None =>
    \/ rowMap[records[i].row] = i
    \/ importSource = "fakturoid" /\ rowMap[records[i].row] \notin Alive \cup {0}

(* A plan uses the record of a row again, and what the map says of it if it lives. *)
PlanKnows(rows, plan) ==
  /\ \A i \in Alive : records[i].row \in Distinct(rows) => plan[records[i].row] = i
  /\ \A r \in Distinct(rows) : Mapped(r) => plan[r] = rowMap[r]

(* Another row of the file has the business key of r. *)
SharesKey(rows, r) == \E q \in Distinct(rows) \ {r} : KeyOfRow[q] = KeyOfRow[r]

(* A careful import makes a record of r when none had its key. *)
Promises(rows, plan, keys) ==
  \A r \in Distinct(rows) : plan[r] = 0 =>
    SharesKey(rows, r) \/ \A i \in DOMAIN keys : keys[i] # KeyOfRow[r]

Careful == Rechecks /\ (Overwrites => JobMode # "create_new")

JobOK ==
  importJob # NoJob =>
    /\ importJob.run \in DOMAIN importRuns
    /\ importJob.phase \in {"claimed", "applied"}
    /\ MapsTo(importJob.plan)
    /\ PlansAhead \/ importJob.phase = "applied" => PlanKnows(JobRows, importJob.plan)
    /\ Careful /\ importJob.phase = "claimed" => Promises(JobRows, importJob.plan, importJob.seen)
    /\ Careful /\ importJob.phase = "applied" => Promises(JobRows, importJob.plan, Seen)

ImportsInv == ImportRunsTypeOK /\ MapsTo(rowMap) /\ IdentityOK /\ JobOK /\ ImportedOnce

-----------------------------------------------------------------------------
(* The least of a set of naturals. *)
LEMMA LeastExists ==
  ASSUME NEW S, S \subseteq Nat, S # {}
  PROVE  \E x \in S : \A y \in S : x <= y
<1>1. PICK m \in S : \A n \in S : ~(<<n, m>> \in OpToRel(<, Nat))
  BY NatLessThanWellFounded, WFMin
<1>2. ASSUME NEW y \in S PROVE m <= y
  <2>1. ~(y < m)
    BY <1>1 DEF OpToRel
  <2> QED
    BY <2>1
<1> QED
  BY <1>2

LEMMA OldestIs ==
  ASSUME NEW S, S \subseteq Nat, S # {}
  PROVE  Oldest(S) \in S
<1>1. \E x \in S : \A y \in S : x <= y
  BY LeastExists
<1> QED
  BY <1>1 DEF Oldest

(* The first row with a digest. *)
LEMMA FirstIs ==
  ASSUME NEW rows \in Seq(RowId), NEW r \in Distinct(rows)
  PROVE  /\ First(rows, r) \in DOMAIN rows
         /\ rows[First(rows, r)] = r
         /\ \A m \in 1 .. First(rows, r) - 1 : rows[m] # r
<1>1. PICK S : S = {n \in DOMAIN rows : rows[n] = r}
  OBVIOUS
<1>2. S \subseteq Nat /\ S # {} /\ DOMAIN rows = 1 .. Len(rows) /\ Len(rows) \in Nat
  BY <1>1 DEF Distinct
<1>3. PICK n \in S : \A m \in S : n <= m
  BY <1>2, LeastExists
<1>4. \A m \in 1 .. n - 1 : rows[m] # r
  BY <1>1, <1>2, <1>3
<1>5. \E k \in DOMAIN rows : rows[k] = r /\ \A m \in 1 .. k - 1 : rows[m] # r
  BY <1>1, <1>3, <1>4
<1> QED
  BY <1>5 DEF First

LEMMA RecordsShape ==
  ASSUME ImportRunsTypeOK
  PROVE  /\ Len(records) \in Nat /\ DOMAIN records = 1 .. Len(records)
         /\ Len(records) <= MaxRecords /\ MaxRecords \in Nat
         /\ Alive \subseteq 1 .. Len(records)
         /\ \A i \in Alive : records[i] \in RecordRow
BY ImportAssumption DEF ImportRunsTypeOK, Alive

LEMMA JobRowsType ==
  ASSUME ImportRunsTypeOK, importJob.run \in DOMAIN importRuns
  PROVE  JobRows \in Seq(RowId) /\ Distinct(JobRows) \subseteq RowId
<1>0. importRuns[importJob.run] \in ImportRunRow
  BY DEF ImportRunsTypeOK
<1>1. importRuns[importJob.run].file \in ImportFile
  BY <1>0 DEF ImportRunRow
<1>2. RowsOf(importJob.run) \in Seq(RowId) \cup {None}
  BY <1>1, ImportAssumption DEF RowsOf
<1>3. JobRows \in Seq(RowId)
  BY <1>2 DEF JobRows
<1> QED
  BY <1>3 DEF Distinct

-----------------------------------------------------------------------------
(* Plans *)
LEMMA MatchIs ==
  ASSUME NEW rows, NEW mode, NEW r, ~Mapped(r)
  PROVE  /\ importSource \in Backup => Match(rows, mode, r) = BackupMatch(rows, mode, r)
         /\ importSource \in Csv => Match(rows, mode, r) = CsvMatch(r)
         /\ importSource = "fakturoid" => Match(rows, mode, r) = ForeignMatch(mode, r)
<1>1. CASE importSource \in Backup
  <2>1. importSource \notin Csv /\ importSource # "fakturoid"
    BY <1>1 DEF Csv, Backup
  <2> QED
    BY <1>1, <2>1 DEF Match
<1>2. CASE importSource \in Csv
  <2>1. importSource \notin Backup /\ importSource # "fakturoid"
    BY <1>2 DEF Csv, Backup
  <2> QED
    BY <1>2, <2>1 DEF Match
<1>3. CASE importSource = "fakturoid"
  <2>1. importSource \notin Backup /\ importSource \notin Csv
    BY <1>3 DEF Csv, Backup
  <2> QED
    BY <1>3, <2>1 DEF Match
<1> QED
  BY <1>1, <1>2, <1>3

LEMMA MatchIsAlive ==
  ASSUME ImportRunsTypeOK, NEW rows, NEW mode, NEW r
  PROVE  Match(rows, mode, r) \subseteq Alive
<1>1. importSource \in Csv \cup Backup \cup {"fakturoid"}
  BY ImportAssumption DEF ImportRunsTypeOK, AllImportSources
<1>2. CASE Mapped(r)
  BY <1>2 DEF Match, Mapped
<1>3. CASE ~Mapped(r) /\ importSource \in Backup
  BY <1>3, MatchIs DEF BackupMatch, Candidates
<1>4. CASE ~Mapped(r) /\ importSource \in Csv
  BY <1>4, MatchIs DEF CsvMatch, Candidates
<1>5. CASE ~Mapped(r) /\ importSource = "fakturoid"
  BY <1>5, MatchIs DEF ForeignMatch, Candidates
<1> QED
  BY <1>1, <1>2, <1>3, <1>4, <1>5

LEMMA TargetIs ==
  ASSUME ImportRunsTypeOK, NEW rows, NEW mode, NEW r
  PROVE  /\ TargetOf(rows, mode, r) \in 0 .. Len(records)
         /\ TargetOf(rows, mode, r) # 0 => TargetOf(rows, mode, r) \in Match(rows, mode, r)
         /\ TargetOf(rows, mode, r) = 0 => Match(rows, mode, r) = {}
<1>1. PICK S : S = Match(rows, mode, r)
  OBVIOUS
<1>2. S \subseteq 1 .. Len(records) /\ S \subseteq Nat /\ Len(records) \in Nat
  BY <1>1, MatchIsAlive, RecordsShape
<1>3. S # {} => Oldest(S) \in S
  BY <1>2, OldestIs
<1>4. TargetOf(rows, mode, r) = IF S = {} THEN 0 ELSE Oldest(S)
  BY <1>1 DEF TargetOf
<1> QED
  BY <1>1, <1>2, <1>3, <1>4

LEMMA TargetOfKnown ==
  ASSUME ImportRunsTypeOK, IdentityOK, ImportedOnce, NEW rows, NEW mode,
         NEW i \in Alive, records[i].row # None
  PROVE  TargetOf(rows, mode, records[i].row) = i
<1>1. PICK r : r = records[i].row
  OBVIOUS
<1>2. CASE Mapped(r)
  <2>1. rowMap[r] = i
    BY <1>1, <1>2 DEF IdentityOK, Mapped
  <2>2. Match(rows, mode, r) = {i}
    BY <1>2, <2>1 DEF Match
  <2> QED
    BY <1>1, <2>2, TargetIs
<1>3. CASE ~Mapped(r)
  <2>1. importSource = "fakturoid"
    BY <1>1, <1>3 DEF IdentityOK, Mapped
  <2>3. Match(rows, mode, r) = ForeignMatch(mode, r)
    BY <1>3, <2>1, MatchIs
  <2>4. {j \in Alive : records[j].row = r} = {i}
    BY <1>1 DEF ImportedOnce
  <2>5. Match(rows, mode, r) = {i}
    BY <2>3, <2>4 DEF ForeignMatch
  <2>6. TargetOf(rows, mode, r) # 0
    BY <2>5, TargetIs
  <2> QED
    BY <1>1, <2>5, <2>6, TargetIs
<1> QED
  BY <1>2, <1>3

(* A new plan reuses what was made from its rows. *)
LEMMA PlanIsGood ==
  ASSUME ImportRunsTypeOK, IdentityOK, ImportedOnce, NEW rows \in Seq(RowId), NEW mode
  PROVE  MapsTo(PlanOf(rows, mode)) /\ PlanKnows(rows, PlanOf(rows, mode))
<1>1. Distinct(rows) \subseteq RowId /\ None \notin RowId
  BY ImportAssumption DEF Distinct
<1>2. PICK plan : plan = PlanOf(rows, mode)
  OBVIOUS
<1>3. plan = [r \in RowId |-> IF r \in Distinct(rows) THEN TargetOf(rows, mode, r) ELSE 0]
  BY <1>2 DEF PlanOf
<1>4. \A r \in RowId : plan[r] \in 0 .. Len(records)
  <2>1. Len(records) \in Nat
    BY RecordsShape
  <2> QED
    BY <1>3, <2>1, TargetIs
<1>5. MapsTo(plan)
  BY <1>3, <1>4 DEF MapsTo
<1>6. ASSUME NEW i \in Alive, records[i].row \in Distinct(rows) PROVE plan[records[i].row] = i
  BY <1>1, <1>3, <1>6, TargetOfKnown
<1>7. ASSUME NEW r \in Distinct(rows), Mapped(r) PROVE plan[r] = rowMap[r]
  <2>1. Match(rows, mode, r) = {rowMap[r]}
    BY <1>7 DEF Match
  <2>2. TargetOf(rows, mode, r) = rowMap[r]
    BY <2>1, TargetIs
  <2> QED
    BY <1>1, <1>3, <2>2
<1> QED
  BY <1>2, <1>5, <1>6, <1>7 DEF PlanKnows

(* The careful sources make a record when there is none with the key. *)
LEMMA PlanPromises ==
  ASSUME ImportRunsTypeOK, NEW rows \in Seq(RowId), NEW mode, Rechecks,
         Overwrites => mode # "create_new"
  PROVE  Promises(rows, PlanOf(rows, mode), Seen)
<1>1. ASSUME NEW r \in Distinct(rows), PlanOf(rows, mode)[r] = 0, ~SharesKey(rows, r)
      PROVE  \A i \in DOMAIN Seen : Seen[i] # KeyOfRow[r]
  <2>1. r \in RowId
    BY DEF Distinct
  <2>2. TargetOf(rows, mode, r) = 0
    BY <1>1, <2>1 DEF PlanOf
  <2>3. Match(rows, mode, r) = {}
    BY <2>2, TargetIs
  <2>4. ~Mapped(r)
    BY <2>3 DEF Match
  <2>5. Unmapped(rows, r) = {}
    <3>1. SUFFICES ASSUME NEW n \in Unmapped(rows, r) PROVE FALSE
      OBVIOUS
    <3>2. /\ First(rows, r) \in DOMAIN rows /\ n \in 1 .. First(rows, r) - 1
          /\ KeyOfRow[rows[n]] = KeyOfRow[r]
      BY <3>1, FirstIs DEF Unmapped
    <3>3. rows[n] # r
      BY <3>2, FirstIs
    <3>4. n \in DOMAIN rows
      BY <3>2
    <3> QED
      BY <1>1, <3>2, <3>3, <3>4 DEF SharesKey, Distinct
  <2>6. Candidates(KeyOfRow[r]) = {}
    <3>1. CASE importSource = "contacts_csv"
      <4>1. importSource \in Csv /\ importSource \notin Backup
        BY <3>1 DEF Csv, Backup
      <4> QED
        BY <2>3, <2>4, <4>1, MatchIs DEF CsvMatch
    <3>2. CASE importSource = "native_v3"
      <4>1. importSource \in Backup /\ importSource \notin Csv /\ mode # "create_new"
        BY <3>2 DEF Csv, Backup, Overwrites
      <4>2. BackupMatch(rows, mode, r) = {}
        BY <2>3, <2>4, <4>1, MatchIs
      <4> QED
        BY <2>5, <4>1, <4>2 DEF BackupMatch
    <3> QED
      BY <3>1, <3>2 DEF Rechecks
  <2> QED
    BY <2>6 DEF Candidates, Seen
<1> QED
  BY <1>1 DEF Promises

-----------------------------------------------------------------------------
(* What a commit makes *)
LEMMA LeadIs ==
  ASSUME ImportRunsTypeOK, importJob.run \in DOMAIN importRuns, NEW plan, NEW r \in Created(plan)
  PROVE  /\ Lead(plan, r) \in Created(plan)
         /\ Lead(plan, Lead(plan, r)) = Lead(plan, r)
         /\ importSource # "fakturoid" => Lead(plan, r) = r
<1>1. CASE importSource = "fakturoid" /\ JobMode # "create_new"
  <2> DEFINE same(q) == {n \in DOMAIN JobRows : JobRows[n] \in Created(plan)
                                                /\ KeyOfRow[JobRows[n]] = KeyOfRow[q]}
             least(q) == CHOOSE n \in same(q) : \A m \in same(q) : n <= m
  <2>1. \A q : Lead(plan, q) = JobRows[least(q)]
    BY <1>1 DEF Lead
  <2>2. JobRows \in Seq(RowId)
    BY JobRowsType
  <2>3. PICK k \in DOMAIN JobRows : JobRows[k] = r
    BY DEF Created, Distinct
  <2>4. k \in same(r) /\ same(r) \subseteq Nat
    BY <2>2, <2>3
  <2>5. least(r) \in same(r)
    <3>1. \E n \in same(r) : \A m \in same(r) : n <= m
      BY <2>4, LeastExists
    <3> QED
      BY <3>1
  <2>6. PICK q : q = JobRows[least(r)]
    OBVIOUS
  <2>7. q \in Created(plan) /\ KeyOfRow[q] = KeyOfRow[r]
    BY <2>5, <2>6
  <2>8. same(q) = same(r)
    BY <2>7
  <2>9. least(q) = least(r)
    BY <2>8
  <2> QED
    BY <1>1, <2>1, <2>6, <2>7, <2>9
<1>2. CASE ~(importSource = "fakturoid" /\ JobMode # "create_new")
  BY <1>2 DEF Lead
<1> QED
  BY <1>1, <1>2

LEMMA FreshIs ==
  ASSUME ImportRunsTypeOK, importJob.run \in DOMAIN importRuns, NEW plan, NEW fresh \in NewRecords(plan)
  PROVE  /\ fresh \in Seq(RecordRow)
         /\ \A k \in DOMAIN fresh : fresh[k].row \in Created(plan)
                                    /\ fresh[k].row = Lead(plan, fresh[k].row)
                                    /\ fresh[k].key = KeyOfRow[fresh[k].row]
         /\ \A j, k \in DOMAIN fresh : fresh[j].row = fresh[k].row => j = k
         /\ \A r \in Created(plan) : \E k \in DOMAIN fresh : fresh[k].row = Lead(plan, r)
<1>1. PICK S : S = {First(JobRows, Lead(plan, r)) : r \in Created(plan)}
  OBVIOUS
<1>2. PICK order \in Ascending(S) :
        fresh = [k \in DOMAIN order |->
                   [key |-> KeyOfRow[JobRows[order[k]]], field |-> "imported", row |-> JobRows[order[k]]]]
  BY <1>1 DEF NewRecords
<1>3. order \in Bijection(1 .. Cardinality(S), S)
  BY DEF Ascending
<1>4. /\ order \in [1 .. Cardinality(S) -> S]
      /\ \A j, k \in 1 .. Cardinality(S) : order[j] = order[k] => j = k
      /\ \A n \in S : \E k \in 1 .. Cardinality(S) : order[k] = n
  BY <1>3 DEF Bijection, Injection, Surjection, IsInjective
<1>5. JobRows \in Seq(RowId) /\ Distinct(JobRows) \subseteq RowId
  BY JobRowsType
<1>6. Created(plan) \subseteq Distinct(JobRows)
  BY DEF Created
<1>7. \A r \in Created(plan) : /\ First(JobRows, Lead(plan, r)) \in DOMAIN JobRows
                               /\ JobRows[First(JobRows, Lead(plan, r))] = Lead(plan, r)
  BY <1>5, <1>6, LeadIs, FirstIs
<1>8. S \subseteq DOMAIN JobRows
  BY <1>1, <1>7
<1>9. IsFiniteSet(S) /\ Cardinality(S) \in Nat
  <2>1. DOMAIN JobRows = 1 .. Len(JobRows) /\ Len(JobRows) \in Nat
    BY <1>5
  <2>2. IsFiniteSet(1 .. Len(JobRows))
    BY <2>1, FS_Interval
  <2> QED
    BY <1>8, <2>1, <2>2, FS_Subset, FS_CardinalityType
<1>10. DOMAIN fresh = 1 .. Cardinality(S) /\ DOMAIN order = 1 .. Cardinality(S)
  BY <1>2, <1>4
<1>11. ASSUME NEW k \in DOMAIN fresh
       PROVE  /\ fresh[k] \in RecordRow
              /\ fresh[k].row = JobRows[order[k]] /\ fresh[k].key = KeyOfRow[fresh[k].row]
              /\ order[k] \in S
  <2>1. order[k] \in S /\ JobRows[order[k]] \in RowId
    BY <1>4, <1>5, <1>8, <1>10
  <2> QED
    BY <1>2, <1>10, <2>1, ImportAssumption DEF RecordRow, Field
<1>12. ASSUME NEW k \in DOMAIN fresh
       PROVE  fresh[k].row \in Created(plan) /\ fresh[k].row = Lead(plan, fresh[k].row)
  <2>1. PICK r \in Created(plan) : order[k] = First(JobRows, Lead(plan, r))
    BY <1>1, <1>11
  <2>2. fresh[k].row = Lead(plan, r)
    BY <1>7, <1>11, <2>1
  <2> QED
    BY <2>2, LeadIs
<1>13. ASSUME NEW j \in DOMAIN fresh, NEW k \in DOMAIN fresh, fresh[j].row = fresh[k].row
       PROVE  j = k
  <2>1. \A n \in S : First(JobRows, JobRows[n]) = n
    BY <1>1, <1>7
  <2>2. order[j] = order[k]
    BY <1>11, <1>13, <2>1
  <2> QED
    BY <1>4, <1>10, <2>2
<1>14. ASSUME NEW r \in Created(plan) PROVE \E k \in DOMAIN fresh : fresh[k].row = Lead(plan, r)
  <2>1. PICK k \in 1 .. Cardinality(S) : order[k] = First(JobRows, Lead(plan, r))
    BY <1>1, <1>4
  <2> QED
    BY <1>7, <1>10, <1>11, <2>1
<1>15. fresh \in Seq(RecordRow)
  <2>1. fresh \in [1 .. Cardinality(S) -> RecordRow]
    BY <1>2, <1>10, <1>11
  <2> QED
    BY <1>9, <2>1
<1> QED
  BY <1>11, <1>12, <1>13, <1>14, <1>15

(* A record that stays keeps where it is from; foreign ones may learn it. *)
LEMMA MergedIs ==
  ASSUME ImportRunsTypeOK, importJob.run \in DOMAIN importRuns, NEW plan, NEW i \in Alive
  PROVE  /\ Merged(plan, i) \in RecordRow
         /\ \/ Merged(plan, i).row = records[i].row
            \/ importSource = "fakturoid" /\ Merged(plan, i).row \in Reused(plan)
               /\ plan[Merged(plan, i).row] = i
<1>1. records[i] \in RecordRow
  BY RecordsShape
<1>2. JobRows \in Seq(RowId) /\ Distinct(JobRows) \subseteq RowId
  BY JobRowsType
<1>3. PICK rows : rows = {r \in Reused(plan) : plan[r] = i}
  OBVIOUS
<1>4. PICK p : p = WithIdentity(plan, i)
  OBVIOUS
<1>5. /\ p \in RecordRow
      /\ \/ p.row = records[i].row
         \/ importSource = "fakturoid" /\ p.row \in Reused(plan) /\ plan[p.row] = i
  <2>1. CASE importSource = "fakturoid" /\ Filling /\ records[i].row = None /\ rows # {}
    <3>1. PICK S : S = {n \in DOMAIN JobRows : JobRows[n] \in rows}
      OBVIOUS
    <3>2. S \subseteq Nat /\ S # {} /\ DOMAIN JobRows = 1 .. Len(JobRows) /\ Len(JobRows) \in Nat
      BY <1>2, <1>3, <2>1, <3>1 DEF Reused, Distinct
    <3>3. PICK n \in S : \A m \in S : n <= m
      BY <3>2, LeastExists
    <3>4. \A m \in 1 .. n - 1 : JobRows[m] \notin rows
      BY <3>1, <3>2, <3>3
    <3>5. \E m \in DOMAIN JobRows : JobRows[m] \in rows /\ \A l \in 1 .. m - 1 : JobRows[l] \notin rows
      BY <3>1, <3>3, <3>4
    <3>6. PICK m \in DOMAIN JobRows :
            /\ JobRows[m] \in rows
            /\ p = [records[i] EXCEPT !.row = JobRows[m]]
      BY <1>3, <1>4, <2>1, <3>5 DEF WithIdentity
    <3>7. JobRows[m] \in RowId
      BY <1>2
    <3>8. p \in RecordRow /\ p.row = JobRows[m]
      BY <1>1, <3>6, <3>7 DEF RecordRow
    <3> QED
      BY <1>3, <2>1, <3>6, <3>8
  <2>2. CASE ~(importSource = "fakturoid" /\ Filling /\ records[i].row = None /\ rows # {})
    <3>1. p = records[i]
      BY <1>3, <1>4, <2>2 DEF WithIdentity
    <3> QED
      BY <1>1, <3>1
  <2> QED
    BY <2>1, <2>2
<1>6. Merged(plan, i) = p \/ Merged(plan, i) = [p EXCEPT !.field = "imported"]
  BY <1>4 DEF Merged
<1>7. [p EXCEPT !.field = "imported"] \in RecordRow /\ [p EXCEPT !.field = "imported"].row = p.row
  BY <1>5 DEF RecordRow, Field
<1> QED
  BY <1>5, <1>6, <1>7

LEMMA StatusType ==
  ASSUME ImportRunsTypeOK, NEW i \in DOMAIN importRuns,
         NEW s \in {"uploaded", "running", "finished", "error"}
  PROVE  /\ WithStatus(i, s) \in Seq(ImportRunRow) /\ Len(WithStatus(i, s)) = Len(importRuns)
         /\ WithStatus(i, s)[i].file = importRuns[i].file
         /\ WithStatus(i, s)[i].mode = importRuns[i].mode
<1>1. importRuns \in Seq(ImportRunRow) /\ importRuns[i] \in ImportRunRow
  BY DEF ImportRunsTypeOK
<1>2. PICK row : row = [importRuns[i] EXCEPT !.status = s]
  OBVIOUS
<1>3. row \in ImportRunRow /\ row.file = importRuns[i].file /\ row.mode = importRuns[i].mode
  BY <1>1, <1>2 DEF ImportRunRow
<1>4. WithStatus(i, s) = [importRuns EXCEPT ![i] = row]
  BY <1>2 DEF WithStatus
<1> QED
  BY <1>1, <1>3, <1>4

-----------------------------------------------------------------------------
(* What a commit leaves behind *)
LEMMA CommitRecords ==
  ASSUME ImportsInv, importJob # NoJob, importJob.phase = "applied", NEW fresh \in NewRecords(importJob.plan),
         Len(records) + Len(fresh) <= MaxRecords,
         records' = [i \in DOMAIN records |->
                      IF i \in Alive THEN Merged(importJob.plan, i) ELSE None] \o fresh
  PROVE  /\ records' \in Seq(RecordRow \cup {None})
         /\ Len(records') = Len(records) + Len(fresh) /\ Len(fresh) \in Nat
         /\ \A i \in 1 .. Len(records) :
              records'[i] = IF i \in Alive THEN Merged(importJob.plan, i) ELSE None
         /\ DOMAIN fresh = 1 .. Len(fresh)
         /\ \A k \in DOMAIN fresh : records'[Len(records) + k] = fresh[k]
<1>1. ImportRunsTypeOK /\ importJob.run \in DOMAIN importRuns
  BY DEF ImportsInv, JobOK
<1>2. PICK old : old = [i \in DOMAIN records |-> IF i \in Alive THEN Merged(importJob.plan, i) ELSE None]
  OBVIOUS
<1>3. Len(records) \in Nat /\ DOMAIN records = 1 .. Len(records)
  BY <1>1, RecordsShape
<1>4. old \in [1 .. Len(records) -> RecordRow \cup {None}]
  BY <1>1, <1>2, <1>3, MergedIs
<1>5. old \in Seq(RecordRow \cup {None}) /\ Len(old) = Len(records)
  BY <1>3, <1>4
<1>6. fresh \in Seq(RecordRow \cup {None})
  <2>1. fresh \in Seq(RecordRow)
    BY <1>1, FreshIs
  <2> QED
    BY <2>1
<1>7. Len(fresh) \in Nat /\ DOMAIN fresh = 1 .. Len(fresh)
  BY <1>6
<1>8. records' = old \o fresh
  BY <1>2
<1>9. records' \in Seq(RecordRow \cup {None}) /\ Len(records') = Len(records) + Len(fresh)
  <2>1. PICK T : T = RecordRow \cup {None}
    OBVIOUS
  <2>2. old \in Seq(T) /\ fresh \in Seq(T)
    BY <1>5, <1>6, <2>1
  <2>3. old \o fresh \in Seq(T) /\ Len(old \o fresh) = Len(old) + Len(fresh)
    BY <2>2
  <2> QED
    BY <1>5, <1>8, <2>1, <2>3
<1>10. ASSUME NEW i \in 1 .. Len(records) PROVE records'[i] = old[i]
  <2>1. i \in 1 .. Len(old)
    BY <1>5
  <2>2. (old \o fresh)[i] = old[i]
    BY <1>5, <1>6, <2>1
  <2> QED
    BY <1>8, <2>2
<1>11. ASSUME NEW k \in 1 .. Len(fresh) PROVE records'[Len(records) + k] = fresh[k]
  <2>1. Len(old) + k \in Len(old) + 1 .. Len(old) + Len(fresh) /\ (Len(old) + k) - Len(old) = k
    BY <1>3, <1>5, <1>7
  <2>2. (old \o fresh)[Len(old) + k] = fresh[(Len(old) + k) - Len(old)]
    BY <1>5, <1>6, <2>1
  <2> QED
    BY <1>5, <1>8, <2>1, <2>2
<1> QED
  BY <1>2, <1>3, <1>7, <1>9, <1>10, <1>11

LEMMA CommitStep ==
  ASSUME ImportsInv, CommitImport
  PROVE  /\ ImportsInv'
         /\ \A i \in DOMAIN records' \ DOMAIN records :
              /\ records'[i].row \in Created(importJob.plan)
              /\ records'[i].key = KeyOfRow[records'[i].row]
<1>1. /\ ImportRunsTypeOK /\ MapsTo(rowMap) /\ IdentityOK /\ ImportedOnce
      /\ importJob # NoJob /\ importJob.phase = "applied" /\ importJob.run \in DOMAIN importRuns
      /\ MapsTo(importJob.plan) /\ PlanKnows(JobRows, importJob.plan)
  BY DEF ImportsInv, CommitImport, JobOK
<1>2. PICK plan : plan = importJob.plan
  OBVIOUS
<1>3. PICK fresh \in NewRecords(plan) :
        /\ Len(records) + Len(fresh) <= MaxRecords
        /\ records' = [i \in DOMAIN records |->
                         IF i \in Alive THEN Merged(plan, i) ELSE None] \o fresh
        /\ rowMap' = NewMap(plan, fresh)
  BY <1>2 DEF CommitImport
<1>4. PICK n \in Nat : n = Len(records)
  BY <1>1, RecordsShape
<1>5. PICK m \in Nat : m = Len(fresh)
  BY <1>1, FreshIs
<1>6. /\ records' \in Seq(RecordRow \cup {None}) /\ Len(records') = n + m
      /\ \A i \in 1 .. n : records'[i] = IF i \in Alive THEN Merged(plan, i) ELSE None
      /\ DOMAIN fresh = 1 .. m
      /\ \A k \in 1 .. m : records'[n + k] = fresh[k]
  BY <1>1, <1>2, <1>3, <1>4, <1>5, CommitRecords
<1>7. DOMAIN records = 1 .. n /\ DOMAIN records' = 1 .. n + m /\ Alive \subseteq 1 .. n
      /\ n <= MaxRecords /\ n + m <= MaxRecords /\ MaxRecords \in Nat
  <2>1. DOMAIN records' = 1 .. Len(records')
    BY <1>6
  <2> QED
    BY <1>1, <1>3, <1>4, <1>5, <1>6, <2>1, RecordsShape
<1>8. /\ \A k \in 1 .. m : /\ fresh[k].row \in Created(plan)
                           /\ fresh[k].row = Lead(plan, fresh[k].row)
                           /\ fresh[k].key = KeyOfRow[fresh[k].row]
      /\ \A j, k \in 1 .. m : fresh[j].row = fresh[k].row => j = k
      /\ \A r \in Created(plan) : \E k \in 1 .. m : fresh[k].row = Lead(plan, r)
  BY <1>1, <1>6, FreshIs
<1>9. \A i \in Alive : \/ Merged(plan, i).row = records[i].row
                       \/ importSource = "fakturoid" /\ Merged(plan, i).row \in Reused(plan)
                          /\ plan[Merged(plan, i).row] = i
  BY <1>1, MergedIs
<1>10. PICK idOf : idOf = [r \in Created(plan) |-> n + CHOOSE k \in DOMAIN fresh : fresh[k].row = Lead(plan, r)]
  OBVIOUS
<1>11. \A r \in Created(plan) : /\ idOf[r] \in n + 1 .. n + m
                                /\ \A k \in 1 .. m : fresh[k].row = r => idOf[r] = n + k
  <2>1. ASSUME NEW r \in Created(plan)
        PROVE  /\ idOf[r] \in n + 1 .. n + m
               /\ \A k \in 1 .. m : fresh[k].row = r => idOf[r] = n + k
    <3>1. PICK c : c = CHOOSE k \in DOMAIN fresh : fresh[k].row = Lead(plan, r)
      OBVIOUS
    <3>2. c \in 1 .. m /\ fresh[c].row = Lead(plan, r)
      BY <1>6, <1>8, <3>1
    <3>3. idOf[r] = n + c
      BY <1>10, <3>1
    <3>4. ASSUME NEW k \in 1 .. m, fresh[k].row = r PROVE k = c
      BY <1>8, <3>2, <3>4
    <3> QED
      BY <3>2, <3>3, <3>4
  <2> QED
    BY <2>1
<1>12. \A r \in RowId :
         rowMap'[r] = IF r \notin Distinct(JobRows) \/ (importSource = "fakturoid" /\ rowMap[r] # 0)
                      THEN rowMap[r]
                      ELSE IF r \in Created(plan) THEN idOf[r] ELSE plan[r]
  BY <1>3, <1>4, <1>10 DEF NewMap
<1>13. /\ Distinct(JobRows) \subseteq RowId /\ Created(plan) \subseteq Distinct(JobRows)
       /\ Reused(plan) \subseteq Distinct(JobRows)
       /\ \A r \in Created(plan) : plan[r] = 0
       /\ \A r \in Reused(plan) : plan[r] # 0
  BY <1>1, JobRowsType DEF Created, Reused
<1>14. MapsTo(rowMap)'
  <2>1. \A r \in RowId : rowMap[r] \in 0 .. n /\ plan[r] \in 0 .. n
    BY <1>1, <1>2, <1>4 DEF MapsTo
  <2>2. \A r \in RowId : rowMap'[r] \in 0 .. n + m
    BY <1>11, <1>12, <2>1
  <2>3. DOMAIN rowMap' = RowId /\ rowMap' = [r \in DOMAIN rowMap' |-> rowMap'[r]]
    BY <1>3 DEF NewMap
  <2> QED
    BY <1>6, <2>2, <2>3 DEF MapsTo
<1>15. importRuns' = WithStatus(importJob.run, "finished") /\ importJob' = NoJob
       /\ UNCHANGED <<importSource, recordWrites>>
  BY DEF CommitImport
<1>16. ImportRunsTypeOK'
  <2>1. importRuns' \in Seq(ImportRunRow) /\ Len(importRuns') = Len(importRuns)
    BY <1>1, <1>15, StatusType
  <2>2. importJob'.run = 0
    BY <1>15 DEF NoJob
  <2>3. rowMap' \in [RowId -> 0 .. MaxRecords]
    BY <1>6, <1>7, <1>14 DEF MapsTo
  <2> QED
    BY <1>1, <1>6, <1>7, <1>15, <2>1, <2>2, <2>3 DEF ImportRunsTypeOK
<1>17. \A i \in Alive' : \/ i \in Alive /\ i <= n /\ records'[i] = Merged(plan, i)
                         \/ \E k \in 1 .. m : i = n + k /\ records'[i] = fresh[k]
  <2>1. ASSUME NEW i \in Alive', i <= n PROVE i \in Alive /\ records'[i] = Merged(plan, i)
    BY <1>6, <1>7, <2>1 DEF Alive
  <2>2. ASSUME NEW i \in Alive', ~(i <= n) PROVE \E k \in 1 .. m : i = n + k /\ records'[i] = fresh[k]
    <3>1. i \in 1 .. n + m /\ i - n \in 1 .. m /\ i = n + (i - n)
      BY <1>7, <2>2 DEF Alive
    <3>2. records'[n + (i - n)] = fresh[i - n]
      BY <1>6, <3>1
    <3> QED
      BY <3>1, <3>2
  <2>3. \A i \in Alive' : i \in 1 .. n + m
    BY <1>7 DEF Alive
  <2> QED
    BY <2>1, <2>2, <2>3
<1>18. \A i \in Alive' : i \in 1 .. n => i \in Alive
  BY <1>17
(* Where a living record is from: it was before, or it was found, or it is new. *)
<1>19. ASSUME NEW i \in Alive', NEW r, r = records'[i].row, r # None
       PROVE  \/ i \in Alive /\ records[i].row = r
              \/ i \in Alive /\ importSource = "fakturoid" /\ r \in Reused(plan) /\ plan[r] = i
              \/ r \in Created(plan) /\ idOf[r] = i /\ i \in n + 1 .. n + m
  <2>1. CASE i \in Alive /\ records'[i] = Merged(plan, i)
    BY <1>9, <1>19, <2>1
  <2>2. ASSUME NEW k \in 1 .. m, i = n + k, records'[i] = fresh[k]
        PROVE  r \in Created(plan) /\ idOf[r] = i /\ i \in n + 1 .. n + m
    BY <1>8, <1>11, <1>19, <2>2
  <2> QED
    BY <1>17, <2>1, <2>2
<1>20. \A i \in Alive : records[i].row \in Distinct(JobRows) => plan[records[i].row] = i
  BY <1>1, <1>2 DEF PlanKnows
<1>21. \A r \in Distinct(JobRows) : rowMap[r] \in Alive => plan[r] = rowMap[r]
  BY <1>1, <1>2 DEF PlanKnows, Mapped
<1>22. \A i \in Alive : i # 0 /\ (records[i].row # None => records[i].row \in RowId)
  BY <1>1, <1>4, <1>7, RecordsShape DEF RecordRow
<1>23. ASSUME NEW i \in Alive', NEW r \in Distinct(JobRows), r = records'[i].row, r # None
       PROVE  IF r \in Created(plan) THEN idOf[r] = i ELSE plan[r] = i
  <2>1. CASE i \in Alive /\ records[i].row = r
    BY <1>13, <1>20, <1>22, <2>1
  <2>2. CASE ~(i \in Alive /\ records[i].row = r)
    BY <1>13, <1>19, <1>22, <1>23, <2>2
  <2> QED
    BY <2>1, <2>2
<1>24. ImportedOnce'
  <2>1. ASSUME NEW i \in Alive', NEW j \in Alive', NEW r, r = records'[i].row, r = records'[j].row, r # None
        PROVE  i = j
    <3>1. CASE r \in Distinct(JobRows)
      BY <1>23, <2>1, <3>1
    <3>2. CASE r \notin Distinct(JobRows)
      <4>1. i \in Alive /\ records[i].row = r /\ j \in Alive /\ records[j].row = r
        BY <1>13, <1>19, <2>1, <3>2
      <4> QED
        BY <1>1, <2>1, <4>1 DEF ImportedOnce
    <3> QED
      BY <3>1, <3>2
  <2> QED
    BY <2>1 DEF ImportedOnce
<1>25. IdentityOK'
  <2>1. ASSUME NEW i \in Alive', NEW r, r = records'[i].row, r # None
        PROVE  \/ rowMap'[r] = i
               \/ importSource = "fakturoid" /\ rowMap'[r] \notin Alive' \cup {0}
    <3>1. r \in RowId /\ rowMap[r] \in 0 .. n
      BY <1>1, <1>4, <1>13, <1>19, <1>22, <2>1 DEF MapsTo
    <3>2. rowMap[r] \notin Alive \cup {0} => rowMap[r] \notin Alive' \cup {0}
      BY <1>18, <3>1
    <3>3. CASE i \in Alive /\ records[i].row = r
      <4>1. \/ rowMap[r] = i
            \/ importSource = "fakturoid" /\ rowMap[r] \notin Alive \cup {0}
        BY <1>1, <2>1, <3>3 DEF IdentityOK
      <4>2. r \in Distinct(JobRows) => plan[r] = i /\ r \notin Created(plan)
        BY <1>13, <1>20, <1>22, <3>3
      <4> QED
        BY <1>12, <3>1, <3>2, <4>1, <4>2
    <3>4. CASE i \in Alive /\ importSource = "fakturoid" /\ r \in Reused(plan) /\ plan[r] = i
      <4>1. rowMap[r] \in Alive => rowMap[r] = i
        BY <1>13, <1>21, <3>4
      <4>2. rowMap[r] = 0 => rowMap'[r] = i
        BY <1>12, <1>13, <3>1, <3>4
      <4>3. rowMap[r] # 0 => rowMap'[r] = rowMap[r]
        BY <1>12, <3>1, <3>4
      <4> QED
        BY <3>2, <3>4, <4>1, <4>2, <4>3
    <3>5. CASE r \in Created(plan) /\ idOf[r] = i
      <4>1. rowMap[r] \notin Alive
        BY <1>13, <1>21, <1>22, <3>5
      <4>2. CASE importSource = "fakturoid" /\ rowMap[r] # 0
        BY <1>12, <3>1, <3>2, <4>1, <4>2
      <4>3. CASE ~(importSource = "fakturoid" /\ rowMap[r] # 0)
        BY <1>12, <1>13, <3>1, <3>5, <4>3
      <4> QED
        BY <4>2, <4>3
    <3> QED
      BY <1>19, <2>1, <3>3, <3>4, <3>5
  <2> QED
    BY <1>15, <2>1 DEF IdentityOK
<1>26. JobOK'
  BY <1>15 DEF JobOK
<1>27. ASSUME NEW i \in DOMAIN records' \ DOMAIN records
       PROVE  /\ records'[i].row \in Created(importJob.plan)
              /\ records'[i].key = KeyOfRow[records'[i].row]
  <2>1. i - n \in 1 .. m /\ i = n + (i - n)
    BY <1>7
  <2>2. records'[n + (i - n)] = fresh[i - n]
    BY <1>6, <2>1
  <2> QED
    BY <1>2, <1>8, <2>1, <2>2
<1> QED
  BY <1>14, <1>16, <1>24, <1>25, <1>26, <1>27 DEF ImportsInv

-----------------------------------------------------------------------------
(* The other steps *)

(* Records may go or be made by hand, and keep where they are from. *)
RecordsKept ==
  /\ Len(records) <= Len(records') /\ Len(records') \in Nat
  /\ \A i \in Alive' : i \in 1 .. Len(records) => i \in Alive
  /\ \A i \in Alive' : i \in 1 .. Len(records')
                       /\ (records'[i].row # None => i \in Alive /\ records'[i].row = records[i].row)

LEMMA NothingMoves == ASSUME ImportRunsTypeOK, UNCHANGED records PROVE RecordsKept
<1>1. Len(records) \in Nat /\ Alive \subseteq 1 .. Len(records)
  BY RecordsShape
<1> QED
  BY <1>1 DEF RecordsKept, Alive

LEMMA KeptStays ==
  ASSUME ImportRunsTypeOK, MapsTo(rowMap), IdentityOK, ImportedOnce, RecordsKept,
         UNCHANGED <<importSource, rowMap>>
  PROVE  /\ MapsTo(rowMap)' /\ IdentityOK' /\ ImportedOnce'
         /\ \A plan : MapsTo(plan) => plan \in [RowId -> 0 .. Len(records')]
<1>1. Len(records) \in Nat /\ Len(records) <= Len(records') /\ Len(records') \in Nat
  BY RecordsShape DEF RecordsKept
<1>2. 0 .. Len(records) \subseteq 0 .. Len(records')
  BY <1>1
<1>3. \A plan : MapsTo(plan) => plan \in [RowId -> 0 .. Len(records')]
  BY <1>2 DEF MapsTo
<1>4. MapsTo(rowMap)'
  BY <1>3 DEF MapsTo
<1>5. ImportedOnce'
  BY DEF ImportedOnce, RecordsKept
<1>6. IdentityOK'
  <2>1. ASSUME NEW i \in Alive', records'[i].row # None
        PROVE  \/ rowMap[records'[i].row] = i
               \/ importSource = "fakturoid" /\ rowMap[records'[i].row] \notin Alive' \cup {0}
    <3>1. PICK r : r = records'[i].row
      OBVIOUS
    <3>2. i \in Alive /\ r = records[i].row /\ r # None
      BY <2>1, <3>1 DEF RecordsKept
    <3>3. r \in RowId
      BY <3>2, RecordsShape DEF RecordRow
    <3>4. rowMap[r] \in 0 .. Len(records)
      BY <3>3 DEF MapsTo
    <3>5. \/ rowMap[r] = i
          \/ importSource = "fakturoid" /\ rowMap[r] \notin Alive \cup {0}
      BY <3>2 DEF IdentityOK
    <3>6. rowMap[r] \notin Alive \cup {0} => rowMap[r] \notin Alive' \cup {0}
      BY <1>1, <3>4 DEF RecordsKept
    <3> QED
      BY <3>1, <3>5, <3>6
  <2> QED
    BY <2>1 DEF IdentityOK
<1> QED
  BY <1>3, <1>4, <1>5, <1>6

LEMMA PlanStays ==
  ASSUME ImportRunsTypeOK, MapsTo(rowMap), RecordsKept, UNCHANGED <<importSource, rowMap>>,
         NEW rows, Distinct(rows) \subseteq RowId, NEW plan, PlanKnows(rows, plan)
  PROVE  /\ \A i \in Alive' : records'[i].row \in Distinct(rows) => plan[records'[i].row] = i
         /\ \A r \in Distinct(rows) : rowMap[r] \in Alive' => plan[r] = rowMap[r]
<1>1. ASSUME NEW i \in Alive', records'[i].row \in Distinct(rows) PROVE plan[records'[i].row] = i
  <2>1. records'[i].row # None
    BY <1>1, ImportAssumption
  <2> QED
    BY <1>1, <2>1 DEF RecordsKept, PlanKnows
<1>2. ASSUME NEW r \in Distinct(rows), rowMap[r] \in Alive' PROVE plan[r] = rowMap[r]
  <2>1. rowMap[r] \in 0 .. Len(records) /\ rowMap[r] \in 1 .. Len(records') /\ Len(records) \in Nat
    BY <1>2, RecordsShape DEF MapsTo, RecordsKept
  <2>2. rowMap[r] \in Alive
    BY <1>2, <2>1 DEF RecordsKept
  <2> QED
    BY <2>2 DEF PlanKnows, Mapped
<1> QED
  BY <1>1, <1>2

(* The file and the mode of a run stay while it is processed. *)
RunKept ==
  importJob.run \in DOMAIN importRuns =>
    /\ importJob.run \in DOMAIN importRuns'
    /\ importRuns'[importJob.run].file = importRuns[importJob.run].file
    /\ importRuns'[importJob.run].mode = importRuns[importJob.run].mode

(* A job that goes on as it was, or is none. *)
LEMMA JobStays ==
  ASSUME ImportsInv, RecordsKept, RunKept, UNCHANGED <<importSource, rowMap, importJob>>,
         importJob # NoJob /\ importJob.phase = "applied" /\ Rechecks => UNCHANGED records
  PROVE  JobOK'
<1>1. CASE importJob = NoJob
  BY <1>1 DEF JobOK
<1>2. CASE importJob # NoJob
  <2>1. /\ ImportRunsTypeOK /\ MapsTo(rowMap) /\ IdentityOK /\ ImportedOnce
        /\ importJob.run \in DOMAIN importRuns
        /\ importJob.phase \in {"claimed", "applied"}
        /\ MapsTo(importJob.plan)
    BY <1>2 DEF ImportsInv, JobOK
  <2>2. JobRows' = JobRows /\ JobMode' = JobMode /\ importJob.run \in DOMAIN importRuns'
    BY <2>1 DEF RunKept, JobRows, RowsOf, JobMode
  <2>3. PICK rows, plan : rows = JobRows /\ plan = importJob.plan
    OBVIOUS
  <2>4. Distinct(rows) \subseteq RowId
    BY <2>1, <2>3, JobRowsType
  <2>5. MapsTo(importJob.plan)'
    BY <2>1, KeptStays DEF MapsTo
  <2>6. ASSUME PlansAhead' \/ importJob'.phase = "applied" PROVE PlanKnows(JobRows, importJob.plan)'
    <3>1. PlanKnows(rows, plan)
      BY <1>2, <2>3, <2>6 DEF ImportsInv, JobOK, PlansAhead
    <3>2. /\ \A i \in Alive' : records'[i].row \in Distinct(rows) => plan[records'[i].row] = i
          /\ \A r \in Distinct(rows) : rowMap[r] \in Alive' => plan[r] = rowMap[r]
      BY <2>1, <2>4, <3>1, PlanStays
    <3> QED
      BY <2>2, <2>3, <3>2 DEF PlanKnows, Mapped, Distinct
  <2>7. Careful' = Careful
    BY <2>2 DEF Careful, Rechecks, Overwrites
  <2>8. ASSUME Careful, importJob.phase = "claimed"
        PROVE  Promises(JobRows, importJob.plan, importJob.seen)'
    <3>1. Promises(JobRows, importJob.plan, importJob.seen)
      BY <1>2, <2>8 DEF ImportsInv, JobOK
    <3> QED
      BY <2>2, <3>1 DEF Promises, SharesKey, Distinct
  <2>9. ASSUME Careful, importJob.phase = "applied"
        PROVE  Promises(JobRows, importJob.plan, Seen)'
    <3>1. Promises(JobRows, importJob.plan, Seen)
      BY <1>2, <2>9 DEF ImportsInv, JobOK
    <3>2. Seen' = Seen
      BY <1>2, <2>9 DEF Careful, Seen, Alive
    <3> QED
      BY <2>2, <3>1, <3>2 DEF Promises, SharesKey, Distinct
  <2> QED
    BY <2>1, <2>2, <2>5, <2>6, <2>7, <2>8, <2>9 DEF JobOK
<1> QED
  BY <1>1, <1>2

(* A step that only writes a run. *)
LEMMA RunsStep ==
  ASSUME ImportsInv, UNCHANGED <<importSource, records, rowMap, recordWrites>>,
         importRuns' \in Seq(ImportRunRow), Len(importRuns') <= MaxImports,
         Len(importRuns) <= Len(importRuns'),
         importJob' = NoJob \/ (importJob' = importJob /\ RunKept)
  PROVE  ImportsInv'
<1>1. /\ ImportRunsTypeOK /\ MapsTo(rowMap) /\ IdentityOK /\ ImportedOnce
  BY DEF ImportsInv
<1>2. RecordsKept
  BY <1>1, NothingMoves
<1>3. MapsTo(rowMap)' /\ IdentityOK' /\ ImportedOnce'
  BY <1>1, <1>2, KeptStays
<1>4. ImportRunsTypeOK'
  <2>1. importRuns \in Seq(ImportRunRow) /\ importJob.run \in 0 .. Len(importRuns)
    BY <1>1 DEF ImportRunsTypeOK
  <2>2. importJob'.run \in 0 .. Len(importRuns')
    <3>1. Len(importRuns) \in Nat /\ Len(importRuns') \in Nat
      BY <2>1
    <3>2. NoJob.run = 0
      BY DEF NoJob
    <3> QED
      BY <2>1, <3>1, <3>2
  <2> QED
    BY <1>1, <2>2 DEF ImportRunsTypeOK
<1>5. JobOK'
  <2>1. CASE importJob' = NoJob
    BY <2>1 DEF JobOK
  <2>2. CASE importJob' = importJob /\ RunKept
    BY <1>2, <2>2, JobStays
  <2> QED
    BY <2>1, <2>2
<1> QED
  BY <1>3, <1>4, <1>5 DEF ImportsInv

LEMMA UploadStep ==
  ASSUME ImportsInv, NEW f \in ImportFile, Upload(f)
  PROVE  ImportsInv'
<1>1. ImportRunsTypeOK /\ importRuns \in Seq(ImportRunRow) /\ MaxImports \in Nat
      /\ Len(importRuns) < MaxImports
      /\ UNCHANGED <<importSource, importJob, records, rowMap, recordWrites>>
  BY ImportAssumption DEF ImportsInv, ImportRunsTypeOK, Upload
<1>2. PICK runs : runs = Released(f)
  OBVIOUS
<1>3. runs \in Seq(ImportRunRow) /\ Len(runs) = Len(importRuns)
      /\ \A i \in DOMAIN importRuns : runs[i].file = importRuns[i].file /\ runs[i].mode = importRuns[i].mode
  <2>1. CASE Releases(f) /\ Latest(ImportsOf(f)) \in DOMAIN importRuns
    <3>1. PICK n \in DOMAIN importRuns : n = Latest(ImportsOf(f))
      BY <2>1
    <3>2. PICK row : row = [importRuns[n] EXCEPT !.dedupe = None]
      OBVIOUS
    <3>3. importRuns[n] \in ImportRunRow
      BY <1>1
    <3>4. row \in ImportRunRow /\ row.file = importRuns[n].file /\ row.mode = importRuns[n].mode
      BY <3>2, <3>3 DEF ImportRunRow
    <3>5. runs = [importRuns EXCEPT ![n] = row]
      BY <1>2, <2>1, <3>1, <3>2 DEF Released
    <3> QED
      BY <1>1, <3>4, <3>5
  <2>2. CASE Releases(f) /\ Latest(ImportsOf(f)) \notin DOMAIN importRuns
    <3>1. runs = importRuns
      BY <1>1, <1>2, <2>2 DEF Released
    <3> QED
      BY <1>1, <3>1
  <2>3. CASE ~Releases(f)
    BY <1>1, <1>2, <2>3 DEF Released
  <2> QED
    BY <2>1, <2>2, <2>3
<1>4. NewImport(f) \in ImportRunRow
  BY DEF NewImport, ImportRunRow, ImportMode
<1>5. importRuns' = Append(runs, NewImport(f)) \/ importRuns' = runs
  BY <1>2 DEF Upload
<1>6. /\ importRuns' \in Seq(ImportRunRow) /\ Len(importRuns') <= MaxImports
      /\ Len(importRuns) <= Len(importRuns')
      /\ \A i \in DOMAIN importRuns : i \in DOMAIN importRuns' /\ importRuns'[i] = runs[i]
  <2>1. CASE importRuns' = Append(runs, NewImport(f))
    BY <1>1, <1>3, <1>4, <2>1
  <2>2. CASE importRuns' = runs
    BY <1>1, <1>3, <2>2
  <2> QED
    BY <1>5, <2>1, <2>2
<1>7. RunKept
  BY <1>3, <1>6 DEF RunKept
<1> QED
  BY <1>1, <1>6, <1>7, RunsStep

LEMMA UpdateConfigStep ==
  ASSUME ImportsInv, NEW i \in DOMAIN importRuns, UpdateConfig(i)
  PROVE  ImportsInv'
<1>1. PICK mode \in ImportMode : importRuns' = [importRuns EXCEPT ![i] = [@ EXCEPT !.mode = mode]]
  BY DEF UpdateConfig
<1>2. PICK row : row = [importRuns[i] EXCEPT !.mode = mode]
  OBVIOUS
<1>3. importRuns \in Seq(ImportRunRow) /\ importRuns[i] \in ImportRunRow
      /\ Len(importRuns) <= MaxImports /\ MaxImports \in Nat
  BY ImportAssumption DEF ImportsInv, ImportRunsTypeOK
<1>4. row \in ImportRunRow
  BY <1>2, <1>3 DEF ImportRunRow
<1>5. importRuns' = [importRuns EXCEPT ![i] = row]
  BY <1>1, <1>2
<1>6. importRuns' \in Seq(ImportRunRow) /\ Len(importRuns') = Len(importRuns) /\ Len(importRuns) \in Nat
  BY <1>3, <1>4, <1>5
<1>7. importJob' = NoJob /\ UNCHANGED <<importSource, records, rowMap, recordWrites>>
  BY DEF UpdateConfig
<1> QED
  BY <1>3, <1>6, <1>7, RunsStep

(* The run is marked, and nobody works on it. *)
LEMMA MarkedStep ==
  ASSUME ImportsInv, NEW i \in DOMAIN importRuns,
         NEW s \in {"uploaded", "running", "finished", "error"},
         importRuns' = WithStatus(i, s) \/ importRuns' = importRuns,
         importJob' = NoJob, UNCHANGED <<importSource, records, rowMap, recordWrites>>
  PROVE  ImportsInv'
<1>1. ImportRunsTypeOK /\ importRuns \in Seq(ImportRunRow) /\ Len(importRuns) <= MaxImports
      /\ MaxImports \in Nat
  BY ImportAssumption DEF ImportsInv, ImportRunsTypeOK
<1>2. importRuns' \in Seq(ImportRunRow) /\ Len(importRuns') = Len(importRuns) /\ Len(importRuns) \in Nat
  BY <1>1, StatusType
<1> QED
  BY <1>1, <1>2, RunsStep

LEMMA FailSteps ==
  ASSUME ImportsInv, (\E i \in DOMAIN importRuns : PlanFails(i)) \/ ImportFails \/ ImportCrash
  PROVE  ImportsInv'
<1>1. ASSUME NEW i \in DOMAIN importRuns, PlanFails(i) PROVE ImportsInv'
  BY <1>1, MarkedStep DEF PlanFails
<1>2. importJob # NoJob => importJob.run \in DOMAIN importRuns
  BY DEF ImportsInv, JobOK
<1>3. ASSUME ImportFails PROVE ImportsInv'
  BY <1>2, <1>3, MarkedStep DEF ImportFails
<1>4. ASSUME ImportCrash PROVE ImportsInv'
  BY <1>2, <1>4, MarkedStep DEF ImportCrash
<1> QED
  BY <1>1, <1>3, <1>4

(* The plan of a claim is good for what the run has seen. *)
LEMMA ClaimStep ==
  ASSUME ImportsInv, NEW i \in DOMAIN importRuns, Claim(i)
  PROVE  ImportsInv'
<1>1. ImportRunsTypeOK /\ MapsTo(rowMap) /\ IdentityOK /\ ImportedOnce
  BY DEF ImportsInv
<1>2. PICK plan : plan = IF PlansAhead THEN PlanOf(RowsOf(i), importRuns[i].mode) ELSE rowMap
  OBVIOUS
<1>3. /\ importRuns' = WithStatus(i, "running")
      /\ importJob' = [run |-> i, phase |-> "claimed", seen |-> Seen, maps |-> rowMap, plan |-> plan]
      /\ PlansAhead => Plannable(RowsOf(i))
      /\ UNCHANGED <<importSource, records, rowMap, recordWrites>>
  BY <1>2 DEF Claim
<1>4. /\ importRuns' \in Seq(ImportRunRow) /\ Len(importRuns') = Len(importRuns)
      /\ importRuns'[i].file = importRuns[i].file /\ importRuns'[i].mode = importRuns[i].mode
  BY <1>1, <1>3, StatusType
<1>5. i \in DOMAIN importRuns' /\ i \in 0 .. Len(importRuns)
  BY <1>1, <1>4 DEF ImportRunsTypeOK
<1>6. ImportRunsTypeOK'
  BY <1>1, <1>3, <1>4, <1>5 DEF ImportRunsTypeOK
<1>7. RecordsKept
  BY <1>1, <1>3, NothingMoves
<1>8. MapsTo(rowMap)' /\ IdentityOK' /\ ImportedOnce'
  BY <1>1, <1>3, <1>7, KeptStays
<1>9. PICK rows, mode : rows = JobRows' /\ mode = JobMode'
  OBVIOUS
<1>10. rows = IF RowsOf(i) = None THEN <<>> ELSE RowsOf(i)
  BY <1>3, <1>4, <1>9 DEF JobRows, RowsOf
<1>11. mode = importRuns[i].mode
  BY <1>3, <1>4, <1>9 DEF JobMode
<1>12. rows \in Seq(RowId)
  <2>1. importRuns[i] \in ImportRunRow
    BY <1>1 DEF ImportRunsTypeOK
  <2>2. importRuns[i].file \in ImportFile
    BY <2>1 DEF ImportRunRow
  <2> QED
    BY <1>10, <2>2, ImportAssumption DEF RowsOf
<1>13. PlansAhead => plan = PlanOf(rows, mode)
  BY <1>2, <1>3, <1>10, <1>11 DEF Plannable
<1>14. PlansAhead' = PlansAhead /\ Rechecks' = Rechecks /\ Overwrites' = Overwrites /\ Seen' = Seen
  BY <1>3 DEF PlansAhead, Rechecks, Overwrites, Seen, Alive
<1>15. MapsTo(plan)
  BY <1>1, <1>2, <1>12, <1>13, PlanIsGood
<1>16. PlansAhead => PlanKnows(rows, plan)
  BY <1>1, <1>12, <1>13, PlanIsGood
<1>17. Rechecks => PlansAhead
  BY DEF Rechecks, PlansAhead
<1>18. Rechecks /\ (Overwrites => mode # "create_new") => Promises(rows, plan, Seen)
  BY <1>1, <1>12, <1>13, <1>17, PlanPromises
<1>19. JobOK'
  <2>1. MapsTo(plan)'
    BY <1>3, <1>15 DEF MapsTo
  <2>2. PlansAhead => PlanKnows(rows, plan)'
    BY <1>3, <1>16 DEF PlanKnows, Mapped, Alive
  <2>3. Careful' => Promises(rows, plan, Seen)
    BY <1>9, <1>14, <1>18 DEF Careful
  <2>4. PlansAhead' \/ importJob'.phase = "applied" => PlanKnows(JobRows, importJob.plan)'
    BY <1>3, <1>9, <1>14, <2>2
  <2>5. Careful' /\ importJob'.phase = "claimed" => Promises(JobRows, importJob.plan, importJob.seen)'
    BY <1>3, <1>9, <2>3 DEF Promises, SharesKey
  <2> QED
    BY <1>3, <1>5, <2>1, <2>4, <2>5 DEF JobOK
<1> QED
  BY <1>6, <1>8, <1>19 DEF ImportsInv

(* What the preview has seen still holds, or nobody looked ahead. *)
LEMMA ApplyStep ==
  ASSUME ImportsInv, Apply
  PROVE  ImportsInv'
<1>1. /\ ImportRunsTypeOK /\ MapsTo(rowMap) /\ IdentityOK /\ ImportedOnce /\ JobOK
      /\ importJob # NoJob /\ importJob.phase = "claimed" /\ importJob.run \in DOMAIN importRuns
      /\ MapsTo(importJob.plan)
  BY DEF ImportsInv, JobOK, Apply
<1>2. PICK plan : plan = IF PlansAhead THEN importJob.plan ELSE PlanOf(JobRows, JobMode)
  OBVIOUS
<1>3. PICK blank : importJob' = [run |-> importJob.run, phase |-> "applied", plan |-> plan, blank |-> blank]
  BY <1>2 DEF Apply
<1>4. Applicable(plan) /\ UNCHANGED <<importSource, importRuns, records, rowMap, recordWrites>>
  BY <1>2 DEF Apply
<1>5. RecordsKept
  BY <1>1, <1>4, NothingMoves
<1>6. MapsTo(rowMap)' /\ IdentityOK' /\ ImportedOnce'
  BY <1>1, <1>4, <1>5, KeptStays
<1>7. ImportRunsTypeOK'
  BY <1>1, <1>3, <1>4 DEF ImportRunsTypeOK
<1>8. PICK rows, mode : rows = JobRows /\ mode = JobMode
  OBVIOUS
<1>9. rows = JobRows' /\ mode = JobMode' /\ rows \in Seq(RowId)
  BY <1>1, <1>3, <1>4, <1>8, JobRowsType DEF JobRows, RowsOf, JobMode
<1>10. MapsTo(plan) /\ PlanKnows(rows, plan)
  BY <1>1, <1>2, <1>8, <1>9, PlanIsGood DEF JobOK
<1>11. Careful => Promises(rows, plan, Seen)
  <2>1. Careful => PlansAhead /\ Seen = importJob.seen
    BY <1>4 DEF Careful, Rechecks, PlansAhead, Applicable
  <2> QED
    BY <1>1, <1>2, <1>8, <2>1 DEF JobOK
<1>12. Careful' = Careful /\ Seen' = Seen
  BY <1>4, <1>8, <1>9 DEF Careful, Rechecks, Overwrites, Seen, Alive
<1>13. JobOK'
  <2>1. MapsTo(plan)'
    BY <1>4, <1>10 DEF MapsTo
  <2>2. PlanKnows(rows, plan)'
    BY <1>4, <1>10 DEF PlanKnows, Mapped, Alive
  <2>3. PlanKnows(JobRows, importJob.plan)'
    BY <1>3, <1>9, <2>2
  <2>4. Careful' => Promises(JobRows, importJob.plan, Seen)'
    BY <1>3, <1>9, <1>11, <1>12 DEF Promises, SharesKey
  <2> QED
    BY <1>1, <1>3, <1>4, <2>1, <2>3, <2>4 DEF JobOK
<1> QED
  BY <1>6, <1>7, <1>13 DEF ImportsInv

(* The other handlers. *)
LEMMA WriteStep ==
  ASSUME ImportsInv,
         \/ \E k \in RecordKey : CreateRecord(k)
         \/ \E i \in Alive : PatchRecord(i) \/ DeleteRecord(i)
  PROVE  ImportsInv'
<1>1. /\ ImportRunsTypeOK /\ MapsTo(rowMap) /\ IdentityOK /\ ImportedOnce
      /\ records \in Seq(RecordRow \cup {None}) /\ Len(records) \in Nat /\ DOMAIN records = 1 .. Len(records)
      /\ MaxRecords \in Nat /\ MaxWrites \in Nat
  BY RecordsShape, ImportAssumption DEF ImportsInv, ImportRunsTypeOK
<1>2. OtherWrite /\ UNCHANGED <<importSource, importRuns, importJob, rowMap>>
  BY DEF CreateRecord, PatchRecord, DeleteRecord
<1>3. RecordsKept /\ records' \in Seq(RecordRow \cup {None}) /\ Len(records') <= MaxRecords
  <2>0. PICK T : T = RecordRow \cup {None}
    OBVIOUS
  <2>1. ASSUME NEW k \in RecordKey, CreateRecord(k)
        PROVE  RecordsKept /\ records' \in Seq(T) /\ Len(records') <= MaxRecords
    <3>1. PICK row : row = [key |-> k, field |-> "blank", row |-> None]
      OBVIOUS
    <3>2. row \in T /\ row.row = None
      BY <2>0, <3>1 DEF RecordRow, Field
    <3>3. records' = Append(records, row) /\ Len(records) < MaxRecords
      BY <2>1, <3>1 DEF CreateRecord
    <3>4. /\ records' \in Seq(T) /\ Len(records') = Len(records) + 1
          /\ \A i \in 1 .. Len(records) : records'[i] = records[i]
          /\ records'[Len(records) + 1] = row
      BY <1>1, <2>0, <3>2, <3>3
    <3>5. DOMAIN records' = 1 .. Len(records) + 1
      BY <3>4
    <3>6. ASSUME NEW i \in Alive'
          PROVE  /\ i \in 1 .. Len(records')
                 /\ i \in 1 .. Len(records) => i \in Alive
                 /\ records'[i].row # None => i \in Alive /\ records'[i].row = records[i].row
      <4>1. CASE i \in 1 .. Len(records)
        BY <1>1, <3>4, <3>5, <4>1 DEF Alive
      <4>2. CASE i = Len(records) + 1
        BY <1>1, <3>2, <3>4, <4>2
      <4> QED
        BY <1>1, <3>5, <4>1, <4>2 DEF Alive
    <3> QED
      BY <1>1, <3>3, <3>4, <3>6 DEF RecordsKept
  <2>2. ASSUME NEW i \in Alive, NEW v \in T, v # None => v.row = records[i].row,
               records' = [records EXCEPT ![i] = v]
        PROVE  RecordsKept /\ records' \in Seq(T) /\ Len(records') <= MaxRecords
    <3>0. i \in DOMAIN records /\ records \in Seq(T)
      BY <1>1, <2>0 DEF Alive
    <3>1. records' \in Seq(T) /\ Len(records') = Len(records) /\ DOMAIN records' = DOMAIN records
          /\ \A j \in DOMAIN records : records'[j] = IF j = i THEN v ELSE records[j]
      BY <2>2, <3>0
    <3>2. Len(records) <= MaxRecords
      BY <1>1, RecordsShape
    <3> QED
      BY <1>1, <2>2, <3>1, <3>2 DEF RecordsKept, Alive
  <2>3. ASSUME NEW i \in Alive, PatchRecord(i)
        PROVE  RecordsKept /\ records' \in Seq(T) /\ Len(records') <= MaxRecords
    <3>1. PICK k \in RecordKey : records' = [records EXCEPT ![i] = [@ EXCEPT !.key = k, !.field = "typed"]]
      BY <2>3 DEF PatchRecord
    <3>2. PICK v : v = [records[i] EXCEPT !.key = k, !.field = "typed"]
      OBVIOUS
    <3>3. records[i] \in RecordRow
      BY <1>1, RecordsShape
    <3>4. v \in RecordRow /\ v.row = records[i].row
      BY <3>2, <3>3 DEF RecordRow, Field
    <3>5. records' = [records EXCEPT ![i] = v]
      BY <3>1, <3>2
    <3> QED
      BY <2>0, <2>2, <3>4, <3>5
  <2>4. ASSUME NEW i \in Alive, DeleteRecord(i)
        PROVE  RecordsKept /\ records' \in Seq(T) /\ Len(records') <= MaxRecords
    BY <2>0, <2>2, <2>4 DEF DeleteRecord
  <2> QED
    BY <2>0, <2>1, <2>3, <2>4
<1>4. MapsTo(rowMap)' /\ IdentityOK' /\ ImportedOnce'
  BY <1>1, <1>2, <1>3, KeptStays
<1>5. ImportRunsTypeOK'
  <2>1. recordWrites' \in 0 .. MaxWrites
    BY <1>1, <1>2 DEF ImportRunsTypeOK, OtherWrite
  <2> QED
    BY <1>1, <1>2, <1>3, <2>1 DEF ImportRunsTypeOK
<1>6. JobOK'
  <2>1. RunKept
    BY <1>2 DEF RunKept
  <2>2. ~(importJob # NoJob /\ importJob.phase = "applied" /\ Rechecks)
    BY <1>2 DEF OtherWrite, LockedByImport
  <2> QED
    BY <1>2, <1>3, <2>1, <2>2, JobStays
<1> QED
  BY <1>4, <1>5, <1>6 DEF ImportsInv

LEMMA ImportStart == ImportInit => ImportsInv
<1> SUFFICES ASSUME ImportInit PROVE ImportsInv
  OBVIOUS
<1>1. records = <<>> /\ importRuns = <<>> /\ importJob = NoJob /\ importSource \in ImportSource
      /\ rowMap = [r \in RowId |-> 0] /\ recordWrites = 0
  BY DEF ImportInit
<1>2. records \in Seq(RecordRow \cup {None}) /\ Len(records) = 0 /\ DOMAIN records = {}
      /\ importRuns \in Seq(ImportRunRow) /\ Len(importRuns) = 0
  BY <1>1
<1>3. Alive = {}
  BY <1>2 DEF Alive
<1>4. importJob.run = 0
  BY <1>1 DEF NoJob
<1>5. ImportRunsTypeOK
  BY <1>1, <1>2, <1>4, ImportAssumption DEF ImportRunsTypeOK
<1>6. MapsTo(rowMap)
  BY <1>1, <1>2 DEF MapsTo
<1> QED
  BY <1>1, <1>3, <1>5, <1>6 DEF ImportsInv, IdentityOK, JobOK, ImportedOnce

LEMMA ImportStep == ImportsInv /\ [ImportNext]_importVars => ImportsInv'
<1> SUFFICES ASSUME ImportsInv, [ImportNext]_importVars PROVE ImportsInv'
  OBVIOUS
<1>1. CASE UNCHANGED importVars
  <2>1. importRuns' \in Seq(ImportRunRow) /\ Len(importRuns') <= MaxImports
        /\ Len(importRuns) <= Len(importRuns')
    <3>1. importRuns \in Seq(ImportRunRow) /\ Len(importRuns) <= MaxImports /\ Len(importRuns) \in Nat
      BY DEF ImportsInv, ImportRunsTypeOK
    <3> QED
      BY <1>1, <3>1 DEF importVars
  <2>2. RunKept
    BY <1>1 DEF importVars, RunKept
  <2> QED
    BY <1>1, <2>1, <2>2, RunsStep DEF importVars
<1>2. CASE ImportNext
  BY <1>2, UploadStep, UpdateConfigStep, FailSteps, ClaimStep, ApplyStep, CommitStep, WriteStep
     DEF ImportNext
<1> QED
  BY <1>1, <1>2

LEMMA ImportInvariant == ImportSpec => []ImportsInv
BY ImportStart, ImportStep, PTL DEF ImportSpec

(* Only a commit makes records of rows. *)
LEMMA NewFromCommit ==
  ASSUME ImportsInv, [ImportNext]_importVars, NEW i \in DOMAIN records' \ DOMAIN records,
         records'[i].row # None
  PROVE  CommitImport
<1>1. UNCHANGED records => FALSE
  OBVIOUS
<1>2. ASSUME NEW k \in RecordKey, CreateRecord(k) PROVE FALSE
  <2>1. records \in Seq(RecordRow \cup {None})
    BY DEF ImportsInv, ImportRunsTypeOK
  <2>2. PICK row : row = [key |-> k, field |-> "blank", row |-> None]
    OBVIOUS
  <2>3. records' = Append(records, row) /\ row.row = None
    BY <1>2, <2>2 DEF CreateRecord
  <2>4. i = Len(records) + 1 /\ records'[Len(records) + 1] = row
    BY <2>1, <2>3
  <2> QED
    BY <2>3, <2>4
<1>3. ASSUME NEW j \in Alive, PatchRecord(j) \/ DeleteRecord(j) PROVE FALSE
  <2>1. DOMAIN records' = DOMAIN records
    BY <1>3 DEF PatchRecord, DeleteRecord
  <2> QED
    BY <2>1
<1> QED
  BY <1>1, <1>2, <1>3
     DEF ImportNext, importVars, Upload, UpdateConfig, PlanFails, Claim, Apply, ImportFails, ImportCrash

LEMMA NoSecondStep ==
  ASSUME ImportsInv, [ImportNext]_importVars,
         Rechecks, importJob # NoJob, Overwrites => JobMode # "create_new",
         NEW i \in DOMAIN records' \ DOMAIN records,
         records'[i].row # None, Candidates(records'[i].key) # {}
  PROVE  \E r \in Distinct(JobRows) \ {records'[i].row} : KeyOfRow[r] = records'[i].key
<1>1. CommitImport
  BY NewFromCommit
<1>2. PICK r : r = records'[i].row
  OBVIOUS
<1>3. r \in Created(importJob.plan) /\ records'[i].key = KeyOfRow[r]
  BY <1>1, <1>2, CommitStep
<1>4. Promises(JobRows, importJob.plan, Seen)
  BY <1>1 DEF ImportsInv, JobOK, CommitImport, Careful
<1>5. SharesKey(JobRows, r) \/ \A j \in DOMAIN Seen : Seen[j] # KeyOfRow[r]
  BY <1>3, <1>4 DEF Promises, Created
<1>6. SharesKey(JobRows, r)
  BY <1>3, <1>5 DEF Candidates, Seen
<1> QED
  BY <1>2, <1>3, <1>6 DEF SharesKey

-----------------------------------------------------------------------------
(* The type invariant of the imports: a job works on a run that exists, the maps
   point at records that were made. *)
THEOREM ImportRunsTypeCorrect == ImportSpec => []ImportRunsTypeOK
<1>1. ImportsInv => ImportRunsTypeOK
  BY DEF ImportsInv
<1> QED
  BY <1>1, ImportInvariant, PTL

(* Of one row of a file at most one living record was made, however often it is
   uploaded, retried and processed, whatever crashes and is deleted in between. *)
THEOREM RowsImportedOnce == ImportSpec => []ImportedOnce
<1>1. ImportsInv => ImportedOnce
  BY DEF ImportsInv
<1> QED
  BY <1>1, ImportInvariant, PTL

(* A careful import makes no second record of what exists when it commits: what
   its preview has promised was compared under the row locks and cannot change. *)
THEOREM PreviewsAreKept == ImportSpec => NoSecondRecord
<1>1. ImportsInv /\ [ImportNext]_importVars =>
        [ Rechecks /\ importJob # NoJob /\ (Overwrites => JobMode # "create_new") =>
            \A i \in DOMAIN records' \ DOMAIN records :
              records'[i].row # None /\ Candidates(records'[i].key) # {}
                => \E r \in Distinct(JobRows) \ {records'[i].row} : KeyOfRow[r] = records'[i].key
        ]_importVars
  BY NoSecondStep
<1> QED
  BY <1>1, ImportInvariant, PTL DEF ImportSpec, NoSecondRecord

-----------------------------------------------------------------------------
(***************************************************************************)
(* TaxAlerts: what a subject remembers was mailed.                         *)
(***************************************************************************)

(* What a run that has mailed knows *)

\* It has no mail in hand that did not leave.
MailedRun(run) == run.step = "mailed" => run.mails \subseteq alertMails

RunsOK ==
  /\ DOMAIN alertRun = AlertRun
  /\ \A r \in AlertRun : MailedRun(alertRun[r])

\* A stage that is remembered is that of a mail.
Backed(a, k) ==
  a.stage > 0 => \E m \in alertMails : m.kind = k /\ m.stage = a.stage /\ m.year = a.year

Inv == RunsOK /\ AlertBacked

LEMMA InitInv == TaxAlertsInit => Inv
BY DEF TaxAlertsInit, Inv, RunsOK, MailedRun, AlertBacked, IdleRun

\* What is remembered of the mails of a run is one of them, and the rest is kept.
LEMMA RememberedBacked ==
  ASSUME AlertBacked, NEW mails, mails \subseteq alertMails, NEW k \in AlertKind
  PROVE  Backed(Remembered(mails)[k], k)
<1>1. CASE \E m \in mails : m.kind = k
  <2> DEFINE m == CHOOSE x \in mails : x.kind = k
  <2>1. m \in mails /\ m.kind = k
    BY <1>1
  <2>2. Remembered(mails)[k] = [stage |-> m.stage, year |-> m.year]
    BY <1>1 DEF Remembered
  <2> HIDE DEF m
  <2> QED
    BY <2>1, <2>2 DEF Backed
<1>2. CASE ~\E m \in mails : m.kind = k
  <2>1. Remembered(mails)[k] = alerted[k]
    BY <1>2 DEF Remembered
  <2> QED
    BY <2>1 DEF Backed, AlertBacked
<1> QED
  BY <1>1, <1>2

\* A run that ends leaves the others as they are.
LEMMA FinishedRuns ==
  ASSUME RunsOK, NEW r \in AlertRun, Finished(r), UNCHANGED alertMails
  PROVE  RunsOK'
BY DEF RunsOK, MailedRun, Finished, IdleRun

LEMMA NextInv == Inv /\ [TaxAlertsNext]_alertVars => Inv'
<1> SUFFICES ASSUME Inv, [TaxAlertsNext]_alertVars PROVE Inv'
  OBVIOUS
<1>1. CASE UNCHANGED <<alerted, alertRun, alertMails>>
  BY <1>1 DEF Inv, RunsOK, MailedRun, AlertBacked
<1>2. ASSUME NEW r \in AlertRun, ReadSubject(r) \/ Summed(r) PROVE Inv'
  BY <1>2 DEF ReadSubject, Summed, Inv, RunsOK, MailedRun, AlertBacked
<1>3. ASSUME NEW r \in AlertRun, NothingToMail(r) \/ SmtpFails(r) \/ AlertRunEnds(r) PROVE Inv'
  <2>1. Finished(r) /\ UNCHANGED <<alerted, alertMails>>
    BY <1>3 DEF NothingToMail, SmtpFails, AlertRunEnds
  <2> QED
    BY <2>1, FinishedRuns DEF Inv, AlertBacked
<1>4. ASSUME NEW r \in AlertRun, SendAlert(r) PROVE Inv'
  <2> DEFINE mails == {MailOf(r, k) : k \in Pending(r)}
  <2>1. /\ alertMails' = alertMails \cup mails
        /\ alertRun' = [alertRun EXCEPT ![r] = [step |-> "mailed", mails |-> mails]]
        /\ UNCHANGED alerted
    BY <1>4 DEF SendAlert
  <2> HIDE DEF mails
  <2> QED
    BY <2>1 DEF Inv, RunsOK, MailedRun, AlertBacked
<1>5. ASSUME NEW r \in AlertRun, CommitAlert(r) PROVE Inv'
  <2>1. alertRun[r].mails \subseteq alertMails
    BY <1>5 DEF CommitAlert, Inv, RunsOK, MailedRun
  <2>2. \A k \in AlertKind : Backed(Remembered(alertRun[r].mails)[k], k)
    BY <2>1, RememberedBacked DEF Inv
  <2>3. alerted' = Remembered(alertRun[r].mails) /\ UNCHANGED alertMails
    BY <1>5 DEF CommitAlert
  <2>4. AlertBacked'
    BY <2>2, <2>3 DEF AlertBacked, Backed
  <2> QED
    BY <1>5, <2>4, FinishedRuns DEF CommitAlert, Inv
<1> QED
  BY <1>1, <1>2, <1>3, <1>4, <1>5
  DEF TaxAlertsNext, alertVars, YearPasses, SaveProfile, TurnoverChanges

\* What the subject remembers was mailed, whatever fails after the mail and however
\* runs of the job overlap: the stages are committed after the mail was accepted
\* (main.py:7366).
THEOREM RememberedWasMailed == TaxAlertsSpec => []AlertBacked
<1>1. TaxAlertsInit => Inv
  BY InitInv
<1>2. Inv /\ [TaxAlertsNext]_alertVars => Inv'
  BY NextInv
<1>3. Inv => AlertBacked
  BY DEF Inv
<1> QED
  BY <1>1, <1>2, <1>3, PTL DEF TaxAlertsSpec

LEMMA ReachedType == \A r \in AlertRun, k \in AlertKind : Reached(r, k) \in Stage
<1>1. \A t, limit : StageOf(t, limit) \in Stage
  BY DEF StageOf, Stage
<1>2. \A t : VatStage(t) \in Stage
  BY <1>1 DEF VatStage, Stage
<1> QED
  BY <1>1, <1>2 DEF Reached, StageFor

LEMMA RememberedType ==
  ASSUME alerted \in Alerted, NEW mails, mails \subseteq AlertMail
  PROVE  Remembered(mails) \in Alerted
<1>1. ASSUME NEW k \in AlertKind PROVE Remembered(mails)[k] \in [stage : Stage, year : AlertYears \cup {0}]
  <2>1. CASE \E m \in mails : m.kind = k
    <3> DEFINE m == CHOOSE x \in mails : x.kind = k
    <3>1. m \in AlertMail
      BY <2>1
    <3>2. Remembered(mails)[k] = [stage |-> m.stage, year |-> m.year]
      BY <2>1 DEF Remembered
    <3> HIDE DEF m
    <3> QED
      BY <3>1, <3>2 DEF AlertMail
  <2>2. CASE ~\E m \in mails : m.kind = k
    BY <2>2 DEF Remembered, Alerted
  <2> QED
    BY <2>1, <2>2
<1>2. DOMAIN Remembered(mails) = AlertKind
  BY DEF Remembered
<1>3. Remembered(mails) = [k \in AlertKind |-> Remembered(mails)[k]]
  BY DEF Remembered
<1> QED
  BY <1>1, <1>3 DEF Alerted

LEMMA TaxAlertsTypeStep == TaxAlertsTypeOK /\ [TaxAlertsNext]_alertVars => TaxAlertsTypeOK'
<1> SUFFICES ASSUME TaxAlertsTypeOK, [TaxAlertsNext]_alertVars PROVE TaxAlertsTypeOK'
  OBVIOUS
<1> USE DEF TaxAlertsTypeOK
<1>1. CASE UNCHANGED alertVars
  BY <1>1 DEF alertVars
<1>2. CASE YearPasses
  BY <1>2 DEF YearPasses
<1>3. CASE SaveProfile
  BY <1>3, AlertAssumption DEF SaveProfile
<1>4. ASSUME NEW y \in AlertYears, TurnoverChanges(y) PROVE TaxAlertsTypeOK'
  <2>1. turnover' \in [AlertYears -> Turnover]
    BY <1>4 DEF TurnoverChanges
  <2> QED
    BY <1>4, <2>1, AlertAssumption DEF TurnoverChanges
<1>5. ASSUME NEW r \in AlertRun, ReadSubject(r) PROVE TaxAlertsTypeOK'
  <2>1. [step |-> "read", profile |-> profile, alerted |-> alerted, turnover |-> turnover] \in AlertRunState
    BY DEF AlertRunState
  <2> QED
    BY <1>5, <2>1 DEF ReadSubject
<1>6. ASSUME NEW r \in AlertRun, Summed(r) PROVE TaxAlertsTypeOK'
  <2>1. alertRun[r] \in [step : {"read"}, profile : Profile, alerted : Alerted,
                         turnover : [AlertYears -> Turnover]]
    BY <1>6 DEF Summed, AlertRunState, IdleRun
  <2>2. [step |-> "summed", profile |-> alertRun[r].profile, alerted |-> alertRun[r].alerted,
         sum |-> alertRun[r].turnover[alertYear], summed |-> alertYear] \in AlertRunState
    BY <2>1 DEF AlertRunState
  <2> QED
    BY <1>6, <2>2 DEF Summed
<1>7. ASSUME NEW r \in AlertRun, Finished(r) PROVE alertRun' \in [AlertRun -> AlertRunState]
  BY <1>7 DEF Finished, AlertRunState
<1>8. ASSUME NEW r \in AlertRun, NothingToMail(r) \/ SmtpFails(r) \/ AlertRunEnds(r) PROVE TaxAlertsTypeOK'
  BY <1>7, <1>8 DEF NothingToMail, SmtpFails, AlertRunEnds
<1>9. ASSUME NEW r \in AlertRun, SendAlert(r) PROVE TaxAlertsTypeOK'
  <2> DEFINE mails == {MailOf(r, k) : k \in Pending(r)}
  <2>1. alertRun[r].summed \in AlertYears
    BY <1>9 DEF SendAlert, AlertRunState, IdleRun
  <2>2. ASSUME NEW k \in AlertKind PROVE MailOf(r, k) \in AlertMail
    BY <2>1, ReachedType DEF MailOf, AlertMail
  <2>3. mails \subseteq AlertMail
    BY <2>2 DEF Pending
  <2>4. /\ alertMails' = alertMails \cup mails
        /\ alertRun' = [alertRun EXCEPT ![r] = [step |-> "mailed", mails |-> mails]]
    BY <1>9 DEF SendAlert
  <2> HIDE DEF mails
  <2>5. [step |-> "mailed", mails |-> mails] \in AlertRunState
    BY <2>3 DEF AlertRunState
  <2> QED
    BY <1>9, <2>3, <2>4, <2>5 DEF SendAlert
<1>10. ASSUME NEW r \in AlertRun, CommitAlert(r) PROVE TaxAlertsTypeOK'
  <2>1. alertRun[r].mails \subseteq AlertMail
    BY <1>10 DEF CommitAlert, AlertRunState, IdleRun
  <2> QED
    BY <1>7, <1>10, <2>1, RememberedType DEF CommitAlert
<1> QED
  BY <1>1, <1>2, <1>3, <1>4, <1>5, <1>6, <1>8, <1>9, <1>10 DEF TaxAlertsNext

\* What the job reads, mails and remembers stays within its types: stages and years
\* that exist (_tax_alert_stage_for_turnover, fakturek/main.py).
THEOREM TaxAlertsTypeCorrect == TaxAlertsSpec => []TaxAlertsTypeOK
<1>1. TaxAlertsInit => TaxAlertsTypeOK
  <2> SUFFICES ASSUME TaxAlertsInit PROVE TaxAlertsTypeOK
    OBVIOUS
  <2>1. turnover \in [AlertYears -> Turnover] /\ alerted \in Alerted
    BY AlertAssumption DEF TaxAlertsInit, Alerted, Stage
  <2>2. alertRun \in [AlertRun -> AlertRunState]
    BY DEF TaxAlertsInit, AlertRunState
  <2> QED
    BY <2>1, <2>2, AlertAssumption DEF TaxAlertsInit, TaxAlertsTypeOK
<1> QED
  BY <1>1, TaxAlertsTypeStep, PTL DEF TaxAlertsSpec

-----------------------------------------------------------------------------
(***************************************************************************)
(* BackupFiles: a file reads back as it was stored, or not at all.  The    *)
(* invariant relates a file to what is stored, which the model does not    *)
(* change: a file nobody changed holds it, and one that was changed has    *)
(* the digests of the writer and shows it.                                 *)
(***************************************************************************)

(* What is written are texts, and the same ones in both datasets. *)
StoredOK ==
  /\ stored["contacts"] = stored["catalog_items"]
  /\ \A name \in AllDatasets : IsText(name) => stored[name] \in Seq(Text)
  /\ \A name \in AllDatasets : DOMAIN stored[name] = 1 .. Len(stored[name]) /\ Len(stored[name]) \in Nat

(* A file that nobody changed is what the writer wrote; one that was changed
   still has the digests of the writer, and is a backup. *)
FileOK ==
  backupFile # NoFile =>
    /\ backupFile.format \in FileFormat
    /\ \A format : ~damaged /\ backupFile.format = format =>
         backupFile = Written(format) /\ Exportable(format)
    /\ damaged =>
         /\ backupFile.format \in ZipFormat
         /\ \A format : backupFile.format = format => \A name \in Datasets(format) :
              backupFile.manifest[name].digest = NormalRows(format, name)

BackupInv ==
  /\ StoredOK /\ FileOK /\ ReadAsStored
  /\ readBack = Refused \/ readBack.ok
  /\ backupFile = NoFile => readBack = Refused /\ ~damaged

-----------------------------------------------------------------------------
LEMMA DatasetsKnown ==
  \A format \in CsvFormat \cup ZipFormat : Datasets(format) \subseteq AllDatasets
BY DEF Datasets, AllDatasets, CsvFormat, ZipFormat

LEMMA FormatsKnown == FileFormat \subseteq CsvFormat \cup ZipFormat
BY BackupFilesAssumption

LEMMA TextShape ==
  \A t \in Text : \E form, q, f : /\ t = [form |-> form, quotes |-> q, formula |-> f]
                                  /\ q \in Nat /\ f \in BOOLEAN
<1> SUFFICES ASSUME NEW t \in Text
             PROVE  \E form, q, f : /\ t = [form |-> form, quotes |-> q, formula |-> f]
                                   /\ q \in Nat /\ f \in BOOLEAN
  OBVIOUS
<1>1. CASE t \in [form : {"clean"}, quotes : 0 .. 2, formula : BOOLEAN]
  <2>1. t = [form |-> t.form, quotes |-> t.quotes, formula |-> t.formula]
    BY <1>1
  <2>2. t.quotes \in Nat /\ t.formula \in BOOLEAN
    BY <1>1
  <2> QED
    BY <2>1, <2>2
<1>2. CASE \E form \in {"padded", "split", "unfit"} : t = TextOf(form)
  <2>1. 0 \in Nat /\ FALSE \in BOOLEAN
    OBVIOUS
  <2> QED
    BY <1>2, <2>1 DEF TextOf
<1> QED
  BY <1>1, <1>2 DEF Text

LEMMA CleanIsText == TextOf("clean") \in Text
BY DEF TextOf, Text

(* No text is taken for an escaped one. *)
LEMMA EscapeComesBack ==
  \A t \in Text : FormulaImport(FormulaExport(t)) = t
<1> SUFFICES ASSUME NEW t \in Text PROVE FormulaImport(FormulaExport(t)) = t
  OBVIOUS
<1>1. PICK form, q, f : t = [form |-> form, quotes |-> q, formula |-> f] /\ q \in Nat /\ f \in BOOLEAN
  BY TextShape
<1>2. CASE q > 0 \/ f
  <2>1. FormulaExport(t) = [form |-> form, quotes |-> q + 1, formula |-> f]
    BY <1>1, <1>2 DEF FormulaExport
  <2>2. q + 1 >= 2 \/ (q + 1 = 1 /\ f)
    BY <1>1, <1>2
  <2>3. FormulaImport(FormulaExport(t)) = [form |-> form, quotes |-> (q + 1) - 1, formula |-> f]
    BY <2>1, <2>2 DEF FormulaImport
  <2>4. (q + 1) - 1 = q
    BY <1>1
  <2> QED
    BY <1>1, <2>3, <2>4
<1>3. CASE q = 0 /\ ~f
  BY <1>1, <1>3 DEF FormulaExport, FormulaImport
<1> QED
  BY <1>1, <1>2, <1>3

LEMMA NormalTwice ==
  \A format, name : \A t \in Text :
    /\ NormalRow(format, name, t) \in Text
    /\ NormalRow(format, name, NormalRow(format, name, t)) = NormalRow(format, name, t)
<1> SUFFICES ASSUME NEW format, NEW name, NEW t \in Text
             PROVE  /\ NormalRow(format, name, t) \in Text
                    /\ NormalRow(format, name, NormalRow(format, name, t)) = NormalRow(format, name, t)
  OBVIOUS
<1>1. TextOf("clean").form = "clean"
  BY DEF TextOf
<1>2. NormalText(format, name, t) = t \/ NormalText(format, name, t) = TextOf("clean")
  BY DEF NormalText
<1>3. NormalText(format, name, TextOf("clean")) = TextOf("clean")
  BY <1>1 DEF NormalText
<1>4. NormalText(format, name, NormalText(format, name, t)) = NormalText(format, name, t)
  BY <1>2, <1>3
<1> QED
  BY <1>2, <1>4, CleanIsText DEF NormalRow

LEMMA ElementIsText ==
  ASSUME StoredOK, NEW name \in AllDatasets, IsText(name), NEW k \in DOMAIN stored[name]
  PROVE  stored[name][k] \in Text
<1>1. stored[name] \in Seq(Text)
  BY DEF StoredOK
<1> QED
  BY <1>1

LEMMA RowNormalTwice ==
  ASSUME StoredOK, NEW name \in AllDatasets, NEW format, NEW k \in DOMAIN stored[name]
  PROVE  NormalRow(format, name, NormalRow(format, name, stored[name][k]))
           = NormalRow(format, name, stored[name][k])
<1>1. CASE IsText(name)
  BY <1>1, ElementIsText, NormalTwice
<1>2. CASE ~IsText(name)
  BY <1>2 DEF NormalRow
<1> QED
  BY <1>1, <1>2

(* The rows of a file as it was written are read as they were stored. *)
LEMMA ReadAsWritten ==
  ASSUME StoredOK, NEW format \in CsvFormat \cup ZipFormat, NEW name \in Datasets(format),
         backupFile.members[name] = Escaped(format, NormalRows(format, name))
  PROVE  RowsRead(format, name) = NormalRows(format, name)
<1>1. name \in AllDatasets
  BY DatasetsKnown
<1>2. PICK D : D = DOMAIN stored[name]
  OBVIOUS
<1>3. DOMAIN NormalRows(format, name) = D
      /\ \A k \in D : NormalRows(format, name)[k] = NormalRow(format, name, stored[name][k])
  BY <1>2 DEF NormalRows
<1>4. CASE format \in CsvFormat
  <2>1. IsText(name)
    BY <1>4 DEF Datasets, CsvFormat, IsText
  <2>2. \A k \in D : NormalRows(format, name)[k] \in Text
    BY <1>1, <1>2, <1>3, <2>1, ElementIsText, NormalTwice
  <2>3. backupFile.members[name] = [k \in D |-> FormulaExport(NormalRows(format, name)[k])]
    BY <1>3, <1>4 DEF Escaped
  <2>4. Unescaped(format, backupFile.members[name])
          = [k \in D |-> FormulaImport(FormulaExport(NormalRows(format, name)[k]))]
    BY <1>4, <2>3 DEF Unescaped
  <2>5. Unescaped(format, backupFile.members[name]) = [k \in D |-> NormalRows(format, name)[k]]
    BY <2>2, <2>4, EscapeComesBack
  <2>6. RowsRead(format, name) = [k \in D |-> NormalRow(format, name, NormalRows(format, name)[k])]
    BY <2>5 DEF RowsRead
  <2>7. RowsRead(format, name) = [k \in D |-> NormalRow(format, name, stored[name][k])]
    BY <1>1, <1>2, <1>3, <2>6, RowNormalTwice
  <2> QED
    BY <1>2, <2>7 DEF NormalRows
<1>5. CASE format \notin CsvFormat
  <2>1. backupFile.members[name] = NormalRows(format, name)
    BY <1>5 DEF Escaped
  <2>2. Unescaped(format, backupFile.members[name]) = [k \in D |-> NormalRows(format, name)[k]]
    BY <1>3, <1>5, <2>1 DEF Unescaped
  <2>3. RowsRead(format, name) = [k \in D |-> NormalRow(format, name, NormalRows(format, name)[k])]
    BY <2>2 DEF RowsRead
  <2>4. RowsRead(format, name) = [k \in D |-> NormalRow(format, name, stored[name][k])]
    BY <1>1, <1>2, <1>3, <2>3, RowNormalTwice
  <2> QED
    BY <1>2, <2>4 DEF NormalRows
<1> QED
  BY <1>4, <1>5

LEMMA WrittenIs ==
  ASSUME NEW format
  PROVE  /\ Written(format).format = format
         /\ DOMAIN Written(format).members = Datasets(format)
         /\ \A name \in Datasets(format) :
              Written(format).members[name] = Escaped(format, NormalRows(format, name))
         /\ format \notin CsvFormat => \A name \in Datasets(format) :
              /\ Written(format).manifest[name].digest = Written(format).members[name]
              /\ Written(format).manifest[name].count = Len(Written(format).members[name])
BY DEF Written

LEMMA ZipIsNoCsv == \A format \in ZipFormat : format \notin CsvFormat
BY DEF ZipFormat, CsvFormat

LEMMA SomeFile == ASSUME NEW format \in CsvFormat \cup ZipFormat PROVE format # None => Written(format) # NoFile
<1>1. NoFile.format = None
  BY DEF NoFile
<1> QED
  BY <1>1, WrittenIs

LEMMA ExportStep ==
  ASSUME BackupInv, NEW format \in FileFormat, ExportFile(format)
  PROVE  BackupInv'
<1>1. backupFile = NoFile /\ backupFile' = Written(format) /\ Exportable(format)
      /\ UNCHANGED <<stored, damaged, readBack>>
  BY DEF ExportFile
<1>2. readBack = Refused /\ ~readBack.ok
  BY <1>1 DEF BackupInv, Refused
<1>3. StoredOK'
  BY <1>1 DEF BackupInv, StoredOK
<1>4. backupFile'.format = format
  BY <1>1, WrittenIs
<1>5. ~damaged'
  BY <1>1 DEF BackupInv
<1>6. FileOK'
  <2>1. Written(format)' = Written(format) /\ (Exportable(format)' <=> Exportable(format))
    BY <1>1 DEF Written, Exportable, NormalRows
  <2> QED
    BY <1>1, <1>4, <1>5, <2>1 DEF FileOK
<1>7. ReadAsStored'
  BY <1>1, <1>2 DEF ReadAsStored
<1>8. format # None => backupFile' # NoFile
  BY <1>1, FormatsKnown, SomeFile
<1>9. format # None
  BY BackupFilesAssumption
<1> QED
  BY <1>1, <1>2, <1>3, <1>5, <1>6, <1>7, <1>8, <1>9 DEF BackupInv

(* What the writer of a backup made of the rows: their digests. *)
LEMMA BackupShape ==
  ASSUME NEW format \in ZipFormat
  PROVE  \E mem, man :
           /\ Written(format) = [format |-> format, members |-> mem, manifest |-> man]
           /\ DOMAIN mem = Datasets(format) /\ DOMAIN man = Datasets(format)
           /\ \A n \in Datasets(format) : \E c :
                man[n] = [count |-> c, digest |-> NormalRows(format, n)]
<1> DEFINE mem == [name \in Datasets(format) |-> Escaped(format, NormalRows(format, name))]
           man == [name \in Datasets(format) |-> [count |-> Len(mem[name]), digest |-> mem[name]]]
<1>1. format \notin CsvFormat
  BY ZipIsNoCsv
<1>2. Written(format) = [format |-> format, members |-> mem, manifest |-> man]
  BY <1>1 DEF Written
<1>3. \A n \in Datasets(format) : man[n] = [count |-> Len(mem[n]), digest |-> NormalRows(format, n)]
  BY <1>1 DEF Escaped
<1>4. DOMAIN mem = Datasets(format) /\ DOMAIN man = Datasets(format)
  OBVIOUS
<1> HIDE DEF mem, man
<1> QED
  BY <1>2, <1>3, <1>4

LEMMA DamageStep ==
  ASSUME BackupInv, Damage
  PROVE  BackupInv' /\ backupFile'.format = backupFile.format
<1>1. /\ backupFile.format \in ZipFormat /\ ~damaged /\ readBack = Refused /\ damaged'
      /\ UNCHANGED <<stored, readBack>>
  BY DEF Damage
<1>2. PICK format : format = backupFile.format
  OBVIOUS
<1>3. NoFile.format = None
  BY DEF NoFile
<1>4. format \in ZipFormat /\ format # None /\ format \in FileFormat /\ backupFile = Written(format)
  <2>2. backupFile # NoFile
    BY <1>1, <1>3, BackupFilesAssumption
  <2> QED
    BY <1>1, <1>2, <2>2, BackupFilesAssumption DEF BackupInv, FileOK
<1>5. PICK mem, man :
        /\ backupFile = [format |-> format, members |-> mem, manifest |-> man]
        /\ DOMAIN mem = Datasets(format) /\ DOMAIN man = Datasets(format)
        /\ \A n \in Datasets(format) : \E c :
             man[n] = [count |-> c, digest |-> NormalRows(format, n)]
  <2>1. PICK mem, man :
          /\ Written(format) = [format |-> format, members |-> mem, manifest |-> man]
          /\ DOMAIN mem = Datasets(format) /\ DOMAIN man = Datasets(format)
          /\ \A n \in Datasets(format) : \E c :
               man[n] = [count |-> c, digest |-> NormalRows(format, n)]
    BY <1>4, BackupShape
  <2> QED
    BY <1>4, <2>1, Zenon
<1>6. PICK name \in AllDatasets :
       \/ /\ name \in DOMAIN backupFile.members
          /\ \/ backupFile' = [backupFile EXCEPT !.members =
                  [n \in DOMAIN @ \ {name} |-> @[n]]]
             \/ \E rows \in OtherRows(name) :
                  backupFile' = [backupFile EXCEPT !.members = [@ EXCEPT ![name] = rows]]
             \/ backupFile' = [backupFile EXCEPT !.manifest =
                  [@ EXCEPT ![name] = OneMore(backupFile.manifest[name])]]
       \/ /\ name \notin DOMAIN backupFile.members
          /\ backupFile' = [backupFile EXCEPT !.members =
               [n \in DOMAIN @ \cup {name} |-> IF n = name THEN <<>> ELSE @[n]]]
  BY Zenon DEF Damage
<1>7. \/ \E m : backupFile' = [backupFile EXCEPT !.members = m]
      \/ /\ name \in Datasets(format)
         /\ backupFile' = [backupFile EXCEPT !.manifest =
                [@ EXCEPT ![name] = OneMore(backupFile.manifest[name])]]
  <2>2. name \in DOMAIN backupFile.members => name \in Datasets(format)
    BY <1>5
  <2> QED
    BY <1>6, <2>2, Zenon
<1>8. \E m, d : /\ backupFile' = [format |-> format, members |-> m, manifest |-> d]
              /\ \A n \in Datasets(format) : d[n].digest = NormalRows(format, n)
  <2>1. CASE \E m : backupFile' = [backupFile EXCEPT !.members = m]
    <3>1. PICK m : backupFile' = [backupFile EXCEPT !.members = m]
      BY <2>1
    <3>2. backupFile' = [format |-> format, members |-> m, manifest |-> man]
      BY <1>5, <3>1
    <3>3. ASSUME NEW n \in Datasets(format) PROVE man[n].digest = NormalRows(format, n)
      BY <1>5
    <3> QED
      BY <3>2, <3>3
  <2>2. CASE /\ name \in Datasets(format)
             /\ backupFile' = [backupFile EXCEPT !.manifest =
                [@ EXCEPT ![name] = OneMore(backupFile.manifest[name])]]
    <3>0. PICK entry : entry = OneMore(man[name])
      OBVIOUS
    <3>1. PICK d : d = [man EXCEPT ![name] = entry]
      OBVIOUS
    <3>2. backupFile' = [format |-> format, members |-> mem, manifest |-> d]
      <4>1. backupFile' = [backupFile EXCEPT !.manifest = d]
        <5>1. backupFile.manifest = man
          BY <1>5
        <5>2. d = [backupFile.manifest EXCEPT ![name] = OneMore(backupFile.manifest[name])]
          BY <3>0, <3>1, <5>1
        <5> QED
          BY <2>2, <5>2, Zenon
      <4> QED
        BY <1>5, <4>1
    <3>3. ASSUME NEW n \in Datasets(format) PROVE d[n].digest = NormalRows(format, n)
      <4>1. PICK c : man[n] = [count |-> c, digest |-> NormalRows(format, n)]
        BY <1>5
      <4>2. n \in DOMAIN man
        BY <1>5
      <4>3. d[n] = man[n] \/ d[n] = [man[n] EXCEPT !.count = @ + 1]
        BY <3>0, <3>1, <4>2 DEF OneMore
      <4> QED
        BY <4>1, <4>3
    <3> QED
      BY <3>2, <3>3
  <2> QED
    BY <1>7, <2>1, <2>2
<1>9. backupFile'.format = format
  BY <1>8
<1>10. FileOK'
  <2>1. \A n \in Datasets(format) : NormalRows(format, n)' = NormalRows(format, n)
    BY <1>1 DEF NormalRows
  <2>2. \A n \in Datasets(format) : backupFile'.manifest[n].digest = NormalRows(format, n)
    BY <1>8
  <2> QED
    BY <1>1, <1>4, <1>9, <2>1, <2>2 DEF FileOK
<1>11. StoredOK'
  BY <1>1 DEF BackupInv, StoredOK
<1>12. ReadAsStored' /\ readBack' = Refused
  BY <1>1 DEF ReadAsStored, Refused
<1>13. backupFile' # NoFile
  BY <1>3, <1>4, <1>9
<1> QED
  BY <1>2, <1>9, <1>10, <1>11, <1>12, <1>13 DEF BackupInv

LEMMA ReadStep ==
  ASSUME BackupInv, NEW format \in FileFormat, ReadFile(format)
  PROVE  BackupInv'
<1>1. /\ backupFile # NoFile /\ Readable(format)
      /\ readBack' = [ok |-> TRUE, rows |-> [name \in Datasets(format) |-> RowsRead(format, name)]]
      /\ UNCHANGED <<stored, backupFile, damaged>>
  BY DEF ReadFile
<1>2. backupFile.format = format /\ Complete(format)
  BY <1>1 DEF Readable
<1>3. \A name \in Datasets(format) :
        backupFile.members[name] = Escaped(format, NormalRows(format, name))
  <2>1. CASE ~damaged
    <3>1. backupFile = Written(format)
      BY <1>1, <1>2, <2>1 DEF BackupInv, FileOK
    <3> QED
      BY <3>1, WrittenIs
  <2>2. CASE damaged
    <3>1. format \in ZipFormat
          /\ \A name \in Datasets(format) : backupFile.manifest[name].digest = NormalRows(format, name)
      BY <1>1, <1>2, <2>2 DEF BackupInv, FileOK
    <3>2. \A name \in Datasets(format) : backupFile.members[name] = NormalRows(format, name)
      BY <1>2, <3>1 DEF Complete
    <3>3. format \notin CsvFormat
      BY <3>1, ZipIsNoCsv
    <3> QED
      BY <3>2, <3>3 DEF Escaped
  <2> QED
    BY <2>1, <2>2
<1>4. \A name \in Datasets(format) : RowsRead(format, name) = NormalRows(format, name)
  BY <1>3, FormatsKnown, ReadAsWritten DEF BackupInv
<1>5. \A name \in Datasets(format) : readBack'.rows[name] = NormalRows(format, name)
  BY <1>1, <1>4
<1>6. ReadAsStored'
  BY <1>1, <1>2, <1>5 DEF ReadAsStored, NormalRows
<1>7. StoredOK' /\ FileOK'
  <2>1. \A f : Written(f)' = Written(f) /\ (Exportable(f)' <=> Exportable(f))
    BY <1>1 DEF Written, Exportable, NormalRows
  <2>2. \A f, n : NormalRows(f, n)' = NormalRows(f, n)
    BY <1>1 DEF NormalRows
  <2>3. StoredOK'
    BY <1>1 DEF BackupInv, StoredOK
  <2> QED
    BY <1>1, <2>1, <2>2, <2>3 DEF BackupInv, FileOK
<1>8. readBack'.ok
  BY <1>1
<1> QED
  BY <1>1, <1>6, <1>7, <1>8 DEF BackupInv

LEMMA BackupFilesInitInv == BackupFilesInit => BackupInv
<1> SUFFICES ASSUME BackupFilesInit PROVE BackupInv
  OBVIOUS
<1>1. backupFile = NoFile /\ ~damaged /\ readBack = Refused
  BY DEF BackupFilesInit
<1>2. PICK texts \in StoredTexts, accounts \in UpToTwo(AccountRow), series \in UpToTwo(SeriesName) :
        stored = [name \in AllDatasets |->
                    IF IsText(name) THEN texts
                    ELSE IF name = "bank_accounts" THEN accounts ELSE series]
  BY DEF BackupFilesInit
<1>3. texts \in Seq(Text)
  <2>1. CASE texts = [k \in 1 .. RowLimit + 1 |-> TextOf("clean")]
    <3>1. RowLimit + 1 \in Nat
      BY BackupFilesAssumption
    <3> QED
      BY <2>1, <3>1, CleanIsText
  <2>2. CASE texts = <<>>
    BY <2>2
  <2>3. CASE \E t \in Text : texts = <<t>>
    BY <2>3
  <2> QED
    BY <1>2, <2>1, <2>2, <2>3 DEF StoredTexts
<1>4. ASSUME NEW S, NEW s \in UpToTwo(S) PROVE s \in Seq(S)
  <2>1. CASE s = <<>>
    BY <2>1
  <2>2. CASE \E x \in S : s = <<x>>
    BY <2>2
  <2>3. CASE \E x, y \in S : s = <<x, y>>
    BY <2>3
  <2> QED
    BY <1>4, <2>1, <2>2, <2>3 DEF UpToTwo
<1>5. DOMAIN stored = AllDatasets
      /\ \A name \in AllDatasets : stored[name] = texts \/ stored[name] = accounts \/ stored[name] = series
  BY <1>2
<1>6. accounts \in Seq(AccountRow) /\ series \in Seq(SeriesName)
  BY <1>4
<1>7. \A name \in AllDatasets : DOMAIN stored[name] = 1 .. Len(stored[name]) /\ Len(stored[name]) \in Nat
  BY <1>3, <1>5, <1>6
<1>8. "contacts" \in AllDatasets /\ "catalog_items" \in AllDatasets
  BY DEF AllDatasets, Datasets
<1>9. stored["contacts"] = texts /\ stored["catalog_items"] = texts
  BY <1>2, <1>8 DEF IsText
<1>10. StoredOK
  BY <1>2, <1>3, <1>7, <1>9 DEF StoredOK
<1> QED
  BY <1>1, <1>10 DEF BackupInv, FileOK, ReadAsStored, Refused

LEMMA TextsAlike ==
  ASSUME StoredOK, NEW format, NEW m \in AllDatasets, NEW n \in AllDatasets, IsText(m), IsText(n)
  PROVE  NormalRows(format, m) = NormalRows(format, n)
<1>1. stored[m] = stored[n]
  BY DEF StoredOK, IsText
<1>2. \A r : NormalRow(format, m, r) = NormalRow(format, n, r)
  BY DEF NormalRow, NormalText
<1> QED
  BY <1>1, <1>2 DEF NormalRows

LEMMA SomeText ==
  ASSUME NEW format \in CsvFormat \cup ZipFormat
  PROVE  \E n \in Datasets(format) : IsText(n)
BY DEF CsvFormat, ZipFormat, Datasets, IsText

LEMMA InvWrittenIsReadable == BackupInv => WrittenIsReadable
<1> SUFFICES ASSUME BackupInv, backupFile # NoFile, ~damaged,
                    LinesWhole(backupFile.members[CHOOSE n \in DOMAIN backupFile.members : IsText(n)])
             PROVE  Readable(backupFile.format)
  BY DEF WrittenIsReadable
<1>1. PICK format : format = backupFile.format
  OBVIOUS
<1>2. format \in CsvFormat \cup ZipFormat /\ backupFile = Written(format) /\ Exportable(format)
  BY <1>1, FormatsKnown DEF BackupInv, FileOK
<1>3. DOMAIN backupFile.members = Datasets(format)
      /\ \A n \in Datasets(format) : backupFile.members[n] = Escaped(format, NormalRows(format, n))
  BY <1>2, WrittenIs
<1>4. PICK t : t = CHOOSE n \in DOMAIN backupFile.members : IsText(n)
  OBVIOUS
<1>5. t \in Datasets(format) /\ IsText(t) /\ LinesWhole(backupFile.members[t])
  BY <1>2, <1>3, <1>4, SomeText
<1>6. \A n \in Datasets(format) : IsText(n) => LinesWhole(backupFile.members[n])
  <2> SUFFICES ASSUME NEW n \in Datasets(format), IsText(n) PROVE LinesWhole(backupFile.members[n])
    OBVIOUS
  <2>1. n \in AllDatasets /\ t \in AllDatasets
    BY <1>2, <1>5, DatasetsKnown
  <2>2. NormalRows(format, n) = NormalRows(format, t)
    BY <1>5, <2>1, TextsAlike DEF BackupInv
  <2> QED
    BY <1>3, <1>5, <2>2
<1>7. Complete(format)
  <2>1. CASE format \in CsvFormat
    <3>1. format \notin ZipFormat
      BY <2>1, ZipIsNoCsv
    <3> QED
      BY <1>3, <3>1 DEF Complete
  <2>2. CASE format \notin CsvFormat
    <3>1. \A n \in Datasets(format) :
            /\ backupFile.manifest[n].digest = backupFile.members[n]
            /\ backupFile.manifest[n].count = Len(backupFile.members[n])
      BY <1>2, <2>2, WrittenIs
    <3> QED
      BY <1>3, <1>6, <3>1 DEF Complete
  <2> QED
    BY <2>1, <2>2
<1>8. \A n \in Datasets(format) : RowsRead(format, n) = NormalRows(format, n)
  BY <1>2, <1>3, ReadAsWritten DEF BackupInv
<1> QED
  BY <1>1, <1>2, <1>7, <1>8 DEF Readable, Exportable

-----------------------------------------------------------------------------
LEMMA BackupInvInvariant == BackupFilesSpec => []BackupInv
<1>1. BackupInv /\ [BackupFilesNext]_backupVars => BackupInv'
  <2> SUFFICES ASSUME BackupInv, [BackupFilesNext]_backupVars PROVE BackupInv'
    OBVIOUS
  <2>1. CASE UNCHANGED backupVars
    <3>1. UNCHANGED <<stored, backupFile, damaged, readBack>>
      BY <2>1 DEF backupVars
    <3>2. \A f : Written(f)' = Written(f) /\ (Exportable(f)' <=> Exportable(f))
      BY <3>1 DEF Written, Exportable, NormalRows
    <3>3. \A f, n : NormalRows(f, n)' = NormalRows(f, n)
      BY <3>1 DEF NormalRows
    <3>4. StoredOK'
      BY <3>1 DEF BackupInv, StoredOK
    <3>5. FileOK'
      BY <3>1, <3>2, <3>3 DEF BackupInv, FileOK
    <3>6. ReadAsStored'
      BY <3>1, <3>3 DEF BackupInv, ReadAsStored
    <3> QED
      BY <3>1, <3>4, <3>5, <3>6 DEF BackupInv
  <2>2. CASE BackupFilesNext
    BY <2>2, ExportStep, ReadStep, DamageStep DEF BackupFilesNext
  <2> QED
    BY <2>1, <2>2
<1> QED
  BY <1>1, BackupFilesInitInv, PTL DEF BackupFilesSpec

(* What a subject reads back from a file, in this or in another installation, is
   what was stored when the file was written: for every set of accounts and
   series, every row limit, and whatever was done to a backup in between. *)
THEOREM BackupReadsBack == BackupFilesSpec => []ReadAsStored
<1>1. BackupInv => ReadAsStored
  BY DEF BackupInv
<1> QED
  BY <1>1, BackupInvInvariant, PTL

(* The writers refuse whatever the readers would refuse, but for the texts with
   a line separator. *)
THEOREM BackupsAreReadable == BackupFilesSpec => []WrittenIsReadable
  BY InvWrittenIsReadable, BackupInvInvariant, PTL

-----------------------------------------------------------------------------
LEMMA BackupTypesInit == BackupFilesInit => BackupFilesTypeOK
<1> SUFFICES ASSUME BackupFilesInit PROVE BackupFilesTypeOK
  OBVIOUS
<1>1. PICK texts \in StoredTexts, accounts \in UpToTwo(AccountRow), series \in UpToTwo(SeriesName) :
        stored = [name \in AllDatasets |-> IF IsText(name) THEN texts
                                           ELSE IF name = "bank_accounts" THEN accounts ELSE series]
  BY DEF BackupFilesInit
<1>2. ASSUME NEW S PROVE UpToTwo(S) \subseteq Seq(S)
  <2>1. <<>> \in Seq(S)
    OBVIOUS
  <2>2. ASSUME NEW x \in S PROVE <<x>> \in Seq(S)
    OBVIOUS
  <2>3. ASSUME NEW x \in S, NEW y \in S PROVE <<x, y>> \in Seq(S)
    OBVIOUS
  <2>4. ASSUME NEW z \in UpToTwo(S) PROVE z \in Seq(S)
    <3>1. z = <<>> \/ (\E x \in S : z = <<x>>) \/ (\E x \in S, y \in S : z = <<x, y>>)
      BY <2>4 DEF UpToTwo
    <3> QED
      BY <2>1, <2>2, <2>3, <3>1
  <2> QED
    BY <2>4
<1>3. texts \in Seq(Text)
  <2>1. RowLimit + 1 \in Nat
    BY BackupFilesAssumption
  <2>2. [k \in 1 .. RowLimit + 1 |-> TextOf("clean")] \in Seq(Text)
    BY <2>1, CleanIsText
  <2>3. texts = <<>> \/ texts = [k \in 1 .. RowLimit + 1 |-> TextOf("clean")]
        \/ \E t \in Text : texts = <<t>>
    BY DEF StoredTexts
  <2>4. <<>> \in Seq(Text)
    OBVIOUS
  <2>5. ASSUME NEW t \in Text PROVE <<t>> \in Seq(Text)
    OBVIOUS
  <2> QED
    BY <2>2, <2>3, <2>4, <2>5
<1>4. ASSUME NEW name \in AllDatasets PROVE stored[name] \in Seq(RowOf(name))
  BY <1>1, <1>2, <1>3 DEF RowOf
<1> QED
  BY <1>1, <1>4 DEF BackupFilesInit, BackupFilesTypeOK, NoFile, Refused

LEMMA BackupTypesStep ==
  BackupInv /\ BackupFilesTypeOK /\ [BackupFilesNext]_backupVars => BackupFilesTypeOK'
<1> SUFFICES ASSUME BackupInv, BackupFilesTypeOK, [BackupFilesNext]_backupVars
             PROVE  BackupFilesTypeOK'
  OBVIOUS
<1>1. CASE UNCHANGED backupVars
  BY <1>1 DEF backupVars, BackupFilesTypeOK
<1>2. ASSUME NEW format \in FileFormat, ExportFile(format) PROVE BackupFilesTypeOK'
  <2>1. readBack = Refused
    BY <1>2 DEF ExportFile, BackupInv
  <2>2. ~readBack.ok
    BY <2>1 DEF Refused
  <2>3. backupFile'.format = format
    BY <1>2 DEF ExportFile, Written
  <2> QED
    BY <1>2, <2>2, <2>3 DEF ExportFile, BackupFilesTypeOK
<1>3. ASSUME NEW format \in FileFormat, ReadFile(format) PROVE BackupFilesTypeOK'
  <2>1. readBack' = [ok |-> TRUE, rows |-> [name \in Datasets(format) |-> RowsRead(format, name)]]
    BY <1>3 DEF ReadFile
  <2>2. readBack'.ok = TRUE /\ DOMAIN readBack'.rows = Datasets(format)
    BY <2>1
  <2>3. backupFile.format = format /\ UNCHANGED <<stored, backupFile, damaged>>
    BY <1>3 DEF ReadFile, Readable
  <2> QED
    BY <2>2, <2>3 DEF BackupFilesTypeOK
<1>4. CASE Damage
  <2>1. UNCHANGED <<stored, readBack>> /\ damaged' = TRUE /\ readBack = Refused
    BY <1>4 DEF Damage
  <2>2. ~readBack.ok
    BY <2>1 DEF Refused
  <2>4. backupFile'.format = backupFile.format
    BY <1>4, DamageStep
  <2> QED
    BY <2>1, <2>2, <2>4 DEF BackupFilesTypeOK
<1> QED
  BY <1>1, <1>2, <1>3, <1>4 DEF BackupFilesNext

(* The data of a subject, its file and what is read from it stay within their
   types: a file that is read gives every dataset of its format and no other
   (the dataset lists of native_backup.py, native_backup_v2.py and
   native_backup_v3.py). *)
THEOREM BackupFilesTypeCorrect == BackupFilesSpec => []BackupFilesTypeOK
<1>1. BackupFilesInit => BackupInv
  BY BackupFilesInitInv
<1> QED
  BY <1>1, BackupTypesInit, BackupTypesStep, BackupInvInvariant, PTL DEF BackupFilesSpec

=============================================================================
