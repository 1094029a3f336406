------------------------------ MODULE BackupFiles ------------------------------
(***************************************************************************)
(* The files in which a subject takes its master data along: the native    *)
(* backups of version 1 to 3, and the CSV files of contacts and of the     *)
(* catalog.  One module writes a file, another reading of it may follow    *)
(* much later, in another installation.                                    *)
(*                                                                         *)
(* A text is told apart by what the writers and readers look at: leading   *)
(* apostrophes, a formula character behind them, blanks around it, and     *)
(* line separators within it that are no control characters.               *)
(***************************************************************************)
EXTENDS Common, Naturals, Sequences, FiniteSets

CONSTANTS
  FileFormat,       \* formats of this instance
  AccountKey,       \* identities of bank accounts
  SeriesName,       \* names of series
  StorageKeyOf,     \* [SeriesName -> key]: the name without case and accents
  RowLimit          \* rows of a dataset

CsvFormat == {"contacts_csv", "catalog_csv"}
ZipFormat == {"backup_v1", "backup_v2", "backup_v3"}

ASSUME BackupFilesAssumption ==
  /\ FileFormat \subseteq CsvFormat \cup ZipFormat /\ None \notin CsvFormat \cup ZipFormat
  /\ DOMAIN StorageKeyOf = SeriesName
  /\ RowLimit \in Nat

VARIABLES
  stored,           \* the data of the subject
  backupFile,       \* the file that was written
  damaged,          \* whether somebody changed the file
  readBack          \* what was read from it

backupVars == <<stored, backupFile, damaged, readBack>>

TextOf(form) == [form |-> form, quotes |-> 0, formula |-> FALSE]
Text == [form : {"clean"}, quotes : 0 .. 2, formula : BOOLEAN]
          \cup {TextOf(form) : form \in {"padded", "split", "unfit"}}
AccountRow == [key : AccountKey, default : BOOLEAN]

NoFile == [format |-> None]
Refused == [ok |-> FALSE]

Datasets(format) ==
  CASE format = "contacts_csv" -> {"contacts"}
    [] format = "catalog_csv"  -> {"catalog_items"}
    [] format = "backup_v1"    -> {"contacts", "catalog_items"}
    [] format = "backup_v2"    -> {"contacts", "catalog_items", "bank_accounts"}
    [] format = "backup_v3"    -> {"contacts", "catalog_items", "bank_accounts", "invoice_series"}

AllDatasets == Datasets("backup_v3")
IsText(name) == name \in {"contacts", "catalog_items"}

RowOf(name) ==
  IF IsText(name) THEN Text ELSE IF name = "bank_accounts" THEN AccountRow ELSE SeriesName

BackupFilesTypeOK ==
  /\ DOMAIN stored = AllDatasets
  /\ \A name \in AllDatasets : stored[name] \in Seq(RowOf(name))
  /\ backupFile.format \in FileFormat \cup {None}
  /\ damaged \in BOOLEAN
  /\ readBack.ok \in BOOLEAN
  /\ readBack.ok => DOMAIN readBack.rows = Datasets(backupFile.format)

(***************************************************************************)
(* Rows.                                                                   *)
(***************************************************************************)
(* The backups strip a text and so does the catalog, which also drops line
   separators; the CSV of contacts keeps it as it is. *)
NormalText(format, name, t) ==
  IF t.form = "padded" /\ format # "contacts_csv" THEN TextOf("clean")
  ELSE IF t.form = "split" /\ format = "catalog_csv" THEN TextOf("clean")
  ELSE t

NormalRow(format, name, r) == IF IsText(name) THEN NormalText(format, name, r) ELSE r

FitText(t) == t.form # "unfit"

(* A spreadsheet must not take a text for a formula, and the text comes back. *)
FormulaExport(t) ==
  IF t.quotes > 0 \/ t.formula THEN [t EXCEPT !.quotes = @ + 1] ELSE t

FormulaImport(t) ==
  IF t.quotes >= 2 \/ (t.quotes = 1 /\ t.formula) THEN [t EXCEPT !.quotes = @ - 1] ELSE t

Elements(rows) == {rows[k] : k \in DOMAIN rows}

(***************************************************************************)
(* What a writer and a reader refuse alike.                                *)
(***************************************************************************)
DistinctKeys(keys) == \A j, k \in DOMAIN keys : keys[j] = keys[k] => j = k

AccountsFit(rows) ==
  /\ DistinctKeys([k \in DOMAIN rows |-> rows[k].key])
  /\ Cardinality({k \in DOMAIN rows : rows[k].default}) <= 1

SeriesFit(rows) == DistinctKeys([k \in DOMAIN rows |-> StorageKeyOf[rows[k]]])

RowsFit(name, rows) ==
  /\ Len(rows) <= RowLimit
  /\ IsText(name) => \A t \in Elements(rows) : FitText(t)
  /\ name = "bank_accounts" => AccountsFit(rows)
  /\ name = "invoice_series" => SeriesFit(rows)

(***************************************************************************)
(* Writing.                                                                *)
(***************************************************************************)
NormalRows(format, name) ==
  [k \in DOMAIN stored[name] |-> NormalRow(format, name, stored[name][k])]

\* Mutant of Exportable: the rows are written without a look at them.
ExportableAsIs(format) == \A name \in Datasets(format) : Len(stored[name]) <= RowLimit

Exportable(format) == \A name \in Datasets(format) : RowsFit(name, NormalRows(format, name))

Escaped(format, rows) ==
  IF format \in CsvFormat THEN [k \in DOMAIN rows |-> FormulaExport(rows[k])] ELSE rows

(* The manifest of a backup says how many rows each member has and what it is;
   the digest of a content is the content here. *)
Written(format) ==
  LET content == [name \in Datasets(format) |-> Escaped(format, NormalRows(format, name))]
  IN [format |-> format, members |-> content,
      manifest |-> IF format \in CsvFormat THEN None
                   ELSE [name \in Datasets(format) |->
                           [count |-> Len(content[name]), digest |-> content[name]]]]

ExportFile(format) ==
  /\ backupFile = NoFile
  /\ Exportable(format)
  /\ backupFile' = Written(format)
  /\ UNCHANGED <<stored, damaged, readBack>>

OtherRows(name) ==
  {<<>>} \cup {Append(backupFile.members[name], row) : row \in Elements(stored[name])}

OneMore(entry) == [entry EXCEPT !.count = @ + 1]

(* A member is lost, one is there that does not belong there, its content or
   its count is another one. *)
Damage ==
  /\ backupFile.format \in ZipFormat /\ ~damaged /\ readBack = Refused
  /\ damaged' = TRUE
  /\ \E name \in AllDatasets :
       \/ /\ name \in DOMAIN backupFile.members
          /\ \/ backupFile' = [backupFile EXCEPT !.members =
                  [n \in DOMAIN @ \ {name} |-> @[n]]]
             \/ \E rows \in OtherRows(name) :
                  backupFile' = [backupFile EXCEPT !.members = [@ EXCEPT ![name] = rows]]
             \/ backupFile' = [backupFile EXCEPT !.manifest =
                  [@ EXCEPT ![name] = OneMore(backupFile.manifest[name])]]
       \/ /\ name \notin DOMAIN backupFile.members
          /\ backupFile' = [backupFile EXCEPT !.members =
               [n \in DOMAIN @ \cup {name} |-> IF n = name THEN <<>> ELSE @[n]]]
  /\ UNCHANGED <<stored, readBack>>

(***************************************************************************)
(* Reading.                                                                *)
(***************************************************************************)
(* A member is cut into lines at every line separator: what is left of a row
   that has one is no row. *)
LinesWhole(rows) == \A r \in Elements(rows) : r.form # "split"

Unescaped(format, rows) ==
  [k \in DOMAIN rows |-> IF format \in CsvFormat THEN FormulaImport(rows[k]) ELSE rows[k]]

RowsRead(format, name) ==
  LET rows == Unescaped(format, backupFile.members[name])
  IN [k \in DOMAIN rows |-> NormalRow(format, name, rows[k])]

\* Mutant of Complete: nobody compares a member with the manifest.
CompleteByName(format) == DOMAIN backupFile.members = Datasets(format)

Complete(format) ==
  /\ DOMAIN backupFile.members = Datasets(format)
  /\ format \in ZipFormat =>
       \A name \in Datasets(format) :
         LET rows == backupFile.members[name] IN
         /\ backupFile.manifest[name].digest = rows
         /\ IsText(name) => LinesWhole(rows)
         /\ backupFile.manifest[name].count = Len(rows)

Readable(format) ==
  /\ backupFile.format = format
  /\ Complete(format)
  /\ \A name \in Datasets(format) : RowsFit(name, RowsRead(format, name))

ReadFile(format) ==
  /\ backupFile # NoFile
  /\ Readable(format)
  /\ readBack' = [ok |-> TRUE, rows |-> [name \in Datasets(format) |-> RowsRead(format, name)]]
  /\ UNCHANGED <<stored, backupFile, damaged>>

(* The data that may be there: a contact and an item, or one too many of both,
   and up to two accounts and series. *)
StoredTexts == {<<>>, [k \in 1 .. RowLimit + 1 |-> TextOf("clean")]} \cup {<<t>> : t \in Text}
UpToTwo(S) == {<<>>} \cup {<<x>> : x \in S} \cup {<<x, y>> : x, y \in S}

BackupFilesInit ==
  /\ \E texts \in StoredTexts, accounts \in UpToTwo(AccountRow), series \in UpToTwo(SeriesName) :
       /\ DistinctKeys(series)
       /\ stored = [name \in AllDatasets |->
                      IF IsText(name) THEN texts
                      ELSE IF name = "bank_accounts" THEN accounts ELSE series]
  /\ backupFile = NoFile /\ damaged = FALSE /\ readBack = Refused

BackupFilesNext ==
  \/ \E format \in FileFormat : ExportFile(format) \/ ReadFile(format)
  \/ Damage

BackupFilesSpec == BackupFilesInit /\ [][BackupFilesNext]_backupVars

(***************************************************************************)
(* Properties.                                                             *)
(***************************************************************************)
(* What is read from a file is what the writer read from the database, neither
   less nor more nor otherwise: a damaged backup is refused as a whole, and no
   text is taken for an escaped one. *)
ReadAsStored ==
  readBack.ok =>
    \A name \in Datasets(backupFile.format) :
      readBack.rows[name] = NormalRows(backupFile.format, name)

(* The writer lets pass what the reader takes: what is refused is refused at the
   export already, not after the data is gone.  Texts with a line separator are
   the exception. *)
WrittenIsReadable ==
  backupFile # NoFile /\ ~damaged =>
    Readable(backupFile.format) \/ ~LinesWhole(backupFile.members[CHOOSE n \in
      DOMAIN backupFile.members : IsText(n)])

=============================================================================
