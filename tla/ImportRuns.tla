----------------------------- MODULE ImportRuns -----------------------------
(***************************************************************************)
(* Uploading a file and importing its rows: contacts and catalog items     *)
(* from CSV, the three native backups, contacts from foreign systems.      *)
(*                                                                         *)
(* An upload makes an import run.  Processing it reads the file and the    *)
(* records of the subject into a plan, claims the run in a transaction of  *)
(* its own, and applies the plan in another one.  Import maps remember     *)
(* which record came from which row of a file.  The pages of imports are   *)
(* coroutines without an await after the form, so two of them never        *)
(* overlap; the API and the deletion of a contact run in threads, between  *)
(* any two transactions of an import and inside of one.                    *)
(***************************************************************************)
EXTENDS Common, Naturals, Sequences, FiniteSets, Functions

CONSTANTS
  ImportSource,   \* the formats of this instance
  ImportFile,     \* files by their content
  RowId,          \* rows by their digest
  RecordKey,      \* business identities: what a row and a record are matched by
  FileRows,       \* [ImportFile -> Seq(RowId)]; None for a damaged file
  KeyOfRow,       \* [RowId -> RecordKey]
  MaxImports,     \* bound: rows of import_runs
  MaxRecords,     \* bound: records ever created
  MaxWrites       \* bound: writes of other handlers to records

Csv == {"contacts_csv", "catalog_csv"}
Backup == {"native_v1", "native_v2", "native_v3"}
AllImportSources == Csv \cup Backup \cup {"fakturoid"}

ASSUME ImportAssumption ==
  /\ ImportSource \subseteq AllImportSources
  /\ None \notin RowId /\ FileRows \in [ImportFile -> Seq(RowId) \cup {None}]
  /\ KeyOfRow \in [RowId -> RecordKey]
  /\ MaxImports \in Nat /\ MaxRecords \in Nat /\ MaxWrites \in Nat

VARIABLES
  importSource,   \* the format of this behaviour
  importRuns,     \* sequence of runs
  importJob,      \* the run being processed: its plan and how far it is
  records,        \* sequence of contacts or catalog items; None once deleted
  rowMap,         \* import_maps: the record a row of a file became, or 0
  recordWrites    \* writes of other handlers so far

importVars == <<importSource, importRuns, importJob, records, rowMap, recordWrites>>

(* A field the import may fill: blank, filled from a file, or typed by a user. *)
Field == {"blank", "imported", "typed"}
RecordRow == [key : RecordKey, field : Field, row : RowId \cup {None}]

ImportMode == {"merge_existing", "skip_existing", "create_new"}
ImportRunRow == [file : ImportFile, dedupe : ImportFile \cup {None},
                 status : {"uploaded", "running", "finished", "error"},
                 mode : ImportMode]

(* A plan per row: the record to reuse, or 0 to create one. *)
ImportPlan == [RowId -> 0 .. MaxRecords]
NoJob == [run |-> 0]

ImportRunsTypeOK ==
  /\ importSource \in ImportSource
  /\ importRuns \in Seq(ImportRunRow) /\ Len(importRuns) <= MaxImports
  /\ importJob.run \in 0 .. Len(importRuns)
  /\ records \in Seq(RecordRow \cup {None}) /\ Len(records) <= MaxRecords
  /\ rowMap \in [RowId -> 0 .. MaxRecords]
  /\ recordWrites \in 0 .. MaxWrites

Alive == {i \in DOMAIN records : records[i] # None}

IdempotentUpload == importSource \in Csv \cup {"native_v2", "native_v3"}
PlansAhead == importSource # "fakturoid"
Rechecks == importSource \in {"contacts_csv", "native_v3"}      \* under row locks
Overwrites == importSource \in Backup \cup {"fakturoid"}

(***************************************************************************)
(* Upload.                                                                 *)
(***************************************************************************)
ImportsOf(f) ==
  {i \in DOMAIN importRuns : IF IdempotentUpload THEN importRuns[i].dedupe = f
                             ELSE importRuns[i].file = f}

Latest(S) == CHOOSE i \in S : \A j \in S : j <= i

(* A finished restore gives up its claim on the content of the file. *)
Releases(f) ==
  /\ importSource \in {"contacts_csv", "native_v3"}
  /\ ImportsOf(f) # {}
  /\ importRuns[Latest(ImportsOf(f))].status = "finished"

Released(f) ==
  IF Releases(f) THEN [importRuns EXCEPT ![Latest(ImportsOf(f))] = [@ EXCEPT !.dedupe = None]]
  ELSE importRuns

NewImport(f) ==
  [file |-> f, dedupe |-> IF IdempotentUpload THEN f ELSE None,
   status |-> "uploaded", mode |-> "merge_existing"]

(* The release is committed first and stays when the file cannot be stored. *)
Upload(f) ==
  /\ ImportsOf(f) = {} \/ Releases(f)
  /\ Len(importRuns) < MaxImports
  /\ \/ importRuns' = Append(Released(f), NewImport(f))
     \/ Releases(f) /\ importRuns' = Released(f)
  /\ UNCHANGED <<importSource, importJob, records, rowMap, recordWrites>>

(* The CSV sources do not look at it. *)
UpdateConfig(i) ==
  /\ Overwrites
  /\ \E m \in ImportMode : importRuns' = [importRuns EXCEPT ![i] = [@ EXCEPT !.mode = m]]
  /\ importJob = NoJob
  /\ UNCHANGED <<importSource, importJob, records, rowMap, recordWrites>>

(***************************************************************************)
(* The plan.                                                               *)
(***************************************************************************)
RowsOf(i) == FileRows[importRuns[i].file]

Distinct(rows) == {rows[n] : n \in DOMAIN rows}
First(rows, r) == CHOOSE n \in DOMAIN rows : rows[n] = r /\ \A m \in 1 .. n - 1 : rows[m] # r

Mapped(r) == rowMap[r] \in Alive
Orphan(r) == rowMap[r] # 0 /\ rowMap[r] \notin Alive

Candidates(k) == {i \in Alive : records[i].key = k}
Oldest(S) == CHOOSE i \in S : \A j \in S : i <= j

Unmapped(rows, r) ==
  {n \in 1 .. First(rows, r) - 1 : KeyOfRow[rows[n]] = KeyOfRow[r] /\ ~Mapped(rows[n])}

(* The backups do not let two rows of one file claim the same record. *)
BackupMatch(rows, mode, r) ==
  {i \in Candidates(KeyOfRow[r]) : mode # "create_new" /\ Unmapped(rows, r) = {}}

(* The CSV sources take an exact match only. *)
CsvMatch(r) == Candidates(KeyOfRow[r])

(* Foreign contacts are found by their external identity in every mode, and by
   what they share with a record otherwise. *)
ForeignMatch(mode, r) ==
  LET known == {i \in Alive : records[i].row = r}
  IN IF known # {} THEN known
     ELSE {i \in Candidates(KeyOfRow[r]) : mode # "create_new"}

Match(rows, mode, r) ==
  CASE Mapped(r) -> {rowMap[r]}
    [] ~Mapped(r) /\ importSource \in Backup -> BackupMatch(rows, mode, r)
    [] ~Mapped(r) /\ importSource \in Csv -> CsvMatch(r)
    [] ~Mapped(r) /\ importSource = "fakturoid" -> ForeignMatch(mode, r)

TargetOf(rows, mode, r) ==
  IF Match(rows, mode, r) = {} THEN 0 ELSE Oldest(Match(rows, mode, r))

PlanOf(rows, mode) ==
  [r \in RowId |-> IF r \in Distinct(rows) THEN TargetOf(rows, mode, r) ELSE 0]

(* A row of the catalog whose record is gone refuses the file ... *)
CatalogPlannable(rows) == \A r \in Distinct(rows) : ~Orphan(r)

(* ... and so does a restored record that became something else. *)
RestorePlannable(rows) ==
  \A r \in Distinct(rows) : Mapped(r) => records[rowMap[r]].key = KeyOfRow[r]

Plannable(rows) ==
  /\ rows # None
  /\ importSource = "catalog_csv" => CatalogPlannable(rows)
  /\ importSource = "native_v3" => RestorePlannable(rows)

(***************************************************************************)
(* Processing.                                                             *)
(***************************************************************************)
(* Contacts CSV and the third backup keep what they saw: identities and
   business keys, not the other fields. *)
Seen == [i \in Alive |-> records[i].key]

Claimable(i) == importRuns[i].status \in {"uploaded", "error"}

WithStatus(i, s) == [importRuns EXCEPT ![i] = [@ EXCEPT !.status = s]]

(* A plan that cannot be made marks the run, whatever its status was. *)
PlanFails(i) ==
  /\ importJob = NoJob /\ PlansAhead
  /\ ~Plannable(RowsOf(i))
  /\ importRuns' = WithStatus(i, "error")
  /\ UNCHANGED <<importSource, importJob, records, rowMap, recordWrites>>

Claim(i) ==
  /\ importJob = NoJob /\ Claimable(i)
  /\ PlansAhead => Plannable(RowsOf(i))
  /\ importRuns' = WithStatus(i, "running")
  /\ importJob' = [run |-> i, phase |-> "claimed", seen |-> Seen, maps |-> rowMap,
                   plan |-> IF PlansAhead THEN PlanOf(RowsOf(i), importRuns[i].mode) ELSE rowMap]
  /\ UNCHANGED <<importSource, records, rowMap, recordWrites>>

JobRows == IF RowsOf(importJob.run) = None THEN <<>> ELSE RowsOf(importJob.run)
JobMode == importRuns[importJob.run].mode
Reused(plan) == {r \in Distinct(JobRows) : plan[r] # 0}
Created(plan) == {r \in Distinct(JobRows) : plan[r] = 0}

(* Binding a row whose old record is gone: contacts CSV and the third backup
   repair the map, foreign imports leave it, the others give up. *)
Bindable(plan) ==
  \/ importSource \in {"contacts_csv", "native_v3", "fakturoid"}
  \/ \A r \in Distinct(JobRows) : ~Orphan(r)

\* Mutant of Applicable: nobody compares with the preview.
ApplicableUnchecked(plan) ==
  {plan[r] : r \in Reused(plan)} \subseteq Alive /\ Bindable(plan)

Applicable(plan) ==
  /\ Reused(plan) # {} => {plan[r] : r \in Reused(plan)} \subseteq Alive
  /\ Rechecks => Seen = importJob.seen /\ rowMap = importJob.maps
  /\ Bindable(plan)

(* The transaction reads the records it reuses; the two careful sources hold
   row locks on all records of the subject from here on. *)
Apply ==
  /\ importJob # NoJob /\ importJob.phase = "claimed"
  /\ LET plan == IF PlansAhead THEN importJob.plan ELSE PlanOf(JobRows, JobMode)
     IN /\ Applicable(plan)
        /\ importJob' = [run |-> importJob.run, phase |-> "applied", plan |-> plan,
                         blank |-> {i \in Alive : records[i].field = "blank"}]
  /\ UNCHANGED <<importSource, importRuns, records, rowMap, recordWrites>>

LockedByImport == importJob # NoJob /\ importJob.phase = "applied" /\ Rechecks

(* Foreign rows are imported one after the other: a later row finds the contact
   an earlier one made. *)
Lead(plan, r) ==
  IF importSource = "fakturoid" /\ JobMode # "create_new"
  THEN LET same == {n \in DOMAIN JobRows : JobRows[n] \in Created(plan)
                                           /\ KeyOfRow[JobRows[n]] = KeyOfRow[r]}
       IN JobRows[CHOOSE n \in same : \A m \in same : n <= m]
  ELSE r

(* Positions in a file in their order: exactly one sequence. *)
Ascending(S) ==
  {order \in Bijection(1 .. Cardinality(S), S) :
     \A j, k \in DOMAIN order : j < k => order[j] < order[k]}

(* The records that are made, in the order of the file. *)
NewRecords(plan) ==
  {[k \in DOMAIN order |->
      [key |-> KeyOfRow[JobRows[order[k]]], field |-> "imported", row |-> JobRows[order[k]]]] :
     order \in Ascending({First(JobRows, Lead(plan, r)) : r \in Created(plan)})}

(* Contacts that are only to be used again stay as they are; new ones that a
   backup finds again, too. *)
Filling ==
  /\ Overwrites
  /\ JobMode # "skip_existing"
  /\ JobMode = "create_new" => importSource = "fakturoid"

(* Only a field that was blank when it was read is filled. *)
FilledRecords(plan) ==
  IF ~Filling THEN {}
  ELSE {plan[r] : r \in Reused(plan)} \cap importJob.blank

(* A contact found by what it shares takes over the external identity. *)
WithIdentity(plan, i) ==
  LET rows == {r \in Reused(plan) : plan[r] = i}
  IN IF importSource = "fakturoid" /\ Filling /\ records[i].row = None /\ rows # {}
     THEN [records[i] EXCEPT !.row = JobRows[CHOOSE n \in DOMAIN JobRows :
             JobRows[n] \in rows /\ \A m \in 1 .. n - 1 : JobRows[m] \notin rows]]
     ELSE records[i]

Merged(plan, i) ==
  IF i \in FilledRecords(plan) THEN [WithIdentity(plan, i) EXCEPT !.field = "imported"]
  ELSE WithIdentity(plan, i)

\* Mutant of NewMap: a created record is not remembered.
NewMapForgetful(plan, fresh) ==
  [r \in RowId |-> IF r \in Reused(plan) THEN plan[r] ELSE rowMap[r]]

(* Only foreign imports leave the map of a row as it was. *)
NewMap(plan, fresh) ==
  LET idOf(r) == Len(records) + CHOOSE k \in DOMAIN fresh : fresh[k].row = Lead(plan, r)
  IN [r \in RowId |->
        IF r \notin Distinct(JobRows) \/ (importSource = "fakturoid" /\ rowMap[r] # 0)
        THEN rowMap[r]
        ELSE IF r \in Created(plan) THEN idOf(r) ELSE plan[r]]

CommitImport ==
  /\ importJob # NoJob /\ importJob.phase = "applied"
  /\ LET plan == importJob.plan IN
     /\ FilledRecords(plan) \subseteq Alive
     /\ \E fresh \in NewRecords(plan) :
          /\ Len(records) + Len(fresh) <= MaxRecords
          /\ records' = [i \in DOMAIN records |->
                           IF i \in Alive THEN Merged(plan, i) ELSE None] \o fresh
          /\ rowMap' = NewMap(plan, fresh)
  /\ importRuns' = WithStatus(importJob.run, "finished")
  /\ importJob' = NoJob
  /\ UNCHANGED <<importSource, recordWrites>>

(* The transaction is rolled back and the run marked in a new one. *)
ImportFails ==
  /\ importJob # NoJob
  /\ \/ importJob.phase = "claimed" /\ PlansAhead /\ ~Applicable(importJob.plan)
     \/ importJob.phase = "applied" /\ ~(FilledRecords(importJob.plan) \subseteq Alive)
  /\ importRuns' = WithStatus(importJob.run, "error")
  /\ importJob' = NoJob
  /\ UNCHANGED <<importSource, records, rowMap, recordWrites>>

(* The process ends: the open transaction is lost, the claim is not. *)
ImportCrash ==
  /\ importJob # NoJob
  /\ importJob' = NoJob
  /\ UNCHANGED <<importSource, importRuns, records, rowMap, recordWrites>>

(***************************************************************************)
(* Records under the other handlers.                                       *)
(***************************************************************************)
OtherWrite ==
  /\ ~LockedByImport
  /\ recordWrites < MaxWrites /\ recordWrites' = recordWrites + 1

CreateRecord(k) ==
  /\ OtherWrite
  /\ Len(records) < MaxRecords
  /\ records' = Append(records, [key |-> k, field |-> "blank", row |-> None])
  /\ UNCHANGED <<importSource, importRuns, importJob, rowMap>>

PatchRecord(i) ==
  /\ OtherWrite
  /\ \E k \in RecordKey :
       records' = [records EXCEPT ![i] = [@ EXCEPT !.key = k, !.field = "typed"]]
  /\ UNCHANGED <<importSource, importRuns, importJob, rowMap>>

DeleteRecord(i) ==
  /\ OtherWrite
  /\ records' = [records EXCEPT ![i] = None]
  /\ UNCHANGED <<importSource, importRuns, importJob, rowMap>>

ImportInit ==
  /\ importSource \in ImportSource
  /\ importRuns = <<>>
  /\ importJob = NoJob
  /\ records = <<>>
  /\ rowMap = [r \in RowId |-> 0]
  /\ recordWrites = 0

ImportNext ==
  \/ \E f \in ImportFile : Upload(f)
  \/ \E i \in DOMAIN importRuns : UpdateConfig(i) \/ PlanFails(i) \/ Claim(i)
  \/ Apply \/ CommitImport \/ ImportFails \/ ImportCrash
  \/ \E k \in RecordKey : CreateRecord(k)
  \/ \E i \in Alive : PatchRecord(i) \/ DeleteRecord(i)

ImportSpec == ImportInit /\ [][ImportNext]_importVars

(***************************************************************************)
(* Properties.                                                             *)
(***************************************************************************)
(* However often files with a row are uploaded, retried and processed, also
   after crashes and deletions, at most one living record was made from it:
   the import maps, their repair and the external identity see to it. *)
ImportedOnce ==
  \A i, j \in Alive : records[i].row # None /\ records[i].row = records[j].row => i = j

(* A careful import makes no second record of what exists: what it promised
   in the preview still holds when it commits, although other threads wrote
   in between.  (Two rows of one file may share a business key, and a user may
   ask for new contacts.) *)
NoSecondRecord ==
  [][ Rechecks /\ importJob # NoJob /\ (Overwrites => JobMode # "create_new") =>
        \A i \in DOMAIN records' \ DOMAIN records :
          records'[i].row # None /\ Candidates(records'[i].key) # {}
            => \E r \in Distinct(JobRows) \ {records'[i].row} : KeyOfRow[r] = records'[i].key
    ]_importVars

=============================================================================
