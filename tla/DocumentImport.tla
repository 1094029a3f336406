---------------------------- MODULE DocumentImport ----------------------------
(***************************************************************************)
(* Importing documents: the program's own XML exports and the files of     *)
(* other systems (Fakturoid, Pohoda, Money S3, ISDOC, PDF).                *)
(*                                                                         *)
(* A run reads its file and imports document after document in one         *)
(* transaction, in a coroutine: one run at a time, over the snapshot of    *)
(* its first query, while the API and the deletion of documents go on in   *)
(* threads.  How a run is uploaded, claimed and marked is in ImportRuns.   *)
(* Documents are issued and in one currency here.                          *)
(***************************************************************************)
EXTENDS Common, Integers, Sequences, FiniteSetsExt, SequencesExt

CONSTANTS
  PaperFormat,      \* formats of this instance
  PaperFile,        \* files
  Ext,              \* external identities of documents
  PayId,            \* external identities of payments
  PapersOf,         \* [PaperFile -> Seq(Ext)]: in the order of the file
  DataOf,           \* [Ext -> number, kind, source, cents, pays]
  PaperNumber,      \* numbers of documents
  MaxPapers,        \* bound: documents and payments ever made
  MaxPaperWrites    \* bound: writes of other handlers

Native == {"fakturek_xml", "fakturek_xml_v2"}

ASSUME DocumentImportAssumption ==
  /\ PaperFormat \subseteq Native \cup {"foreign"}
  /\ PapersOf \in [PaperFile -> Seq(Ext)]
  /\ DataOf \in [Ext -> [number : PaperNumber, kind : {"invoice", "credit_note"},
                         source : Ext \cup {None}, cents : Nat, pays : SUBSET PayId]]
  /\ IsFiniteSet(PayId) /\ Ext \cap PayId = {}
  /\ MaxPapers \in Nat /\ MaxPaperWrites \in Nat

VARIABLES
  paperFormat,      \* the format of this behaviour
  papers,           \* documents
  payments,         \* payments
  paperMap,         \* import_maps of documents: an id, or 0
  payMap,           \* import_maps of payments
  batch,            \* the run: its snapshot and what it has made
  made,             \* history: what was imported, with its id
  lastId, paperWrites

paperVars ==
  <<paperFormat, papers, payments, paperMap, payMap, batch, made, lastId, paperWrites>>

PaperId == 1 .. MaxPapers
PaperRow == [id : PaperId, ext : Ext \cup {None}, number : PaperNumber,
             kind : {"invoice", "credit_note"}, source : PaperId \cup {None}, cents : Nat]
ImportedPayment == [id : PaperId, pay : PayId, paper : PaperId]
Conflicts == {"skip", "renumber"}
NoBatch == [rest |-> None]

DocumentImportTypeOK ==
  /\ paperFormat \in PaperFormat
  /\ papers \subseteq PaperRow /\ payments \subseteq ImportedPayment
  /\ paperMap \in [Ext -> 0 .. MaxPapers] /\ payMap \in [PayId -> 0 .. MaxPapers]
  /\ batch # NoBatch => batch.papers \subseteq PaperRow /\ batch.new \subseteq batch.papers
  /\ lastId \in 0 .. MaxPapers /\ paperWrites \in 0 .. MaxPaperWrites

IsNative == paperFormat \in Native

(***************************************************************************)
(* The documents of a file.                                                *)
(***************************************************************************)
IsCredit(x) == DataOf[x].kind = "credit_note"

(* Own exports are sorted: invoices before the notes that refer to them, and
   otherwise as in the file. *)
SortedPositions(papersOfFile) ==
  LET Position == DOMAIN papersOfFile
      credit(k) == IsCredit(papersOfFile[k])
  IN {o \in Bijection(Position, Position) :
        \A i, j \in Position : i < j =>
          /\ credit(o[i]) => credit(o[j])
          /\ credit(o[i]) = credit(o[j]) => o[i] < o[j]}

Orders(f) ==
  IF IsNative THEN {[i \in DOMAIN o |-> PapersOf[f][o[i]]] : o \in SortedPositions(PapersOf[f])}
  ELSE {PapersOf[f]}

StartBatch(f) ==
  /\ batch = NoBatch
  /\ \E mode \in Conflicts, rest \in Orders(f) :
       batch' = [file |-> f, rest |-> rest, mode |-> mode, papers |-> papers,
                 payments |-> payments, map |-> paperMap, pays |-> payMap,
                 new |-> {}, left |-> {}]
  /\ UNCHANGED <<paperFormat, papers, payments, paperMap, payMap, made, lastId, paperWrites>>

InBatch == batch # NoBatch /\ batch.rest # <<>>
ImportRow == Head(batch.rest)
RowData == DataOf[ImportRow]

PaperBy(id) == {p \in batch.papers : p.id = id}
NumberTaken(n) == \E p \in batch.papers : p.number = n

Keeps(b) ==
  /\ batch' = [b EXCEPT !.rest = Tail(@)]
  /\ UNCHANGED <<paperFormat, papers, payments, paperMap, payMap, made, paperWrites>>

(* The second own format refuses a file whose earlier import is not what it
   says: a document that is gone, a payment that is gone or elsewhere. *)
ReplayAgrees ==
  LET paid(pay) == {q \in batch.payments : q.id = batch.pays[pay]}
  IN paperFormat = "fakturek_xml_v2" =>
       /\ PaperBy(batch.map[ImportRow]) # {}
       /\ \A pay \in RowData.pays :
            batch.pays[pay] # 0 => \E q \in paid(pay) : q.paper = batch.map[ImportRow]

(* A document that was imported is left as it is, also when it was deleted. *)
SkipMapped ==
  /\ InBatch /\ batch.map[ImportRow] # 0
  /\ ReplayAgrees
  /\ Keeps(batch) /\ UNCHANGED lastId

SkipNumber ==
  /\ InBatch /\ batch.map[ImportRow] = 0
  /\ NumberTaken(RowData.number) /\ batch.mode = "skip"
  /\ Keeps([batch EXCEPT !.left = @ \cup {ImportRow}]) /\ UNCHANGED lastId

(* What is left of the source, after all notes for it. *)
Remainder(s) ==
  s.cents - MapThenSumSet(LAMBDA p : p.cents,
                          {p \in batch.papers : p.kind = "credit_note" /\ p.source = s.id})

(* Own notes need an invoice of this file or of an earlier one; foreign notes
   have no source. *)
SourcesFor(x) ==
  IF IsNative /\ IsCredit(x)
  THEN {s \in batch.papers : DataOf[x].source # None /\ s.id = batch.map[DataOf[x].source]
                             /\ s.kind = "invoice" /\ DataOf[x].cents <= Remainder(s)}
  ELSE {None}

(* The next number after the highest one of its shape. *)
FreeNumbers == {n \in PaperNumber : ~NumberTaken(n)}
NumberFor(x) ==
  IF NumberTaken(DataOf[x].number) THEN FreeNumbers ELSE {DataOf[x].number}

NewPaper(x, s, n) ==
  [id |-> lastId + 1, ext |-> x, number |-> n, kind |-> DataOf[x].kind,
   source |-> IF s = None THEN None ELSE s.id, cents |-> DataOf[x].cents]

(* Payments come with the second own format. *)
PaysFor(x) == IF paperFormat = "fakturek_xml_v2" THEN DataOf[x].pays ELSE {}

\* Mutant of RememberedAs: foreign documents are not remembered.
RememberedNative(x, id) ==
  IF IsNative THEN [batch.map EXCEPT ![x] = id] ELSE batch.map

RememberedAs(x, id) == [batch.map EXCEPT ![x] = id]

ImportPaper ==
  /\ InBatch /\ batch.map[ImportRow] = 0
  /\ NumberTaken(RowData.number) => batch.mode = "renumber"
  /\ \A pay \in PaysFor(ImportRow) : batch.pays[pay] = 0
  /\ LET pays == SetToSeq(PaysFor(ImportRow))
         paidAs(pay) == lastId + 1 + CHOOSE k \in DOMAIN pays : pays[k] = pay
     IN /\ lastId' = lastId + 1 + Len(pays) /\ lastId' <= MaxPapers
        /\ \E s \in SourcesFor(ImportRow), n \in NumberFor(ImportRow) :
             Keeps([batch EXCEPT
               !.papers = @ \cup {NewPaper(ImportRow, s, n)}, !.new = @ \cup {NewPaper(ImportRow, s, n)},
               !.map = RememberedAs(ImportRow, lastId + 1),
               !.payments = @ \cup {[id |-> paidAs(pay), pay |-> pay, paper |-> lastId + 1] :
                                      pay \in PaysFor(ImportRow)},
               !.pays = [pay \in PayId |-> IF pay \in PaysFor(ImportRow) THEN paidAs(pay) ELSE @[pay]]])

\* Mutant of SkipBroken: own exports are not refused as a whole.
SkipBrokenAlways == InBatch /\ Keeps(batch) /\ UNCHANGED lastId

(* A foreign document that cannot be imported is left out. *)
SkipBroken ==
  /\ InBatch /\ ~IsNative
  /\ Keeps(batch) /\ UNCHANGED lastId

(* Unique numbers and foreign keys, against what was committed meanwhile. *)
Storable ==
  /\ \A p \in batch.new, q \in papers : p.number # q.number
  /\ \A p \in batch.new : p.source # None => \E q \in papers \cup batch.new : q.id = p.source

CommitBatch ==
  /\ batch # NoBatch /\ batch.rest = <<>>
  /\ Storable
  /\ papers' = papers \cup batch.new
  /\ payments' = payments \cup {q \in batch.payments : \E p \in batch.new : q.paper = p.id}
  /\ paperMap' = batch.map /\ payMap' = batch.pays
  /\ made' = made \cup {[ext |-> p.ext, id |-> p.id] : p \in batch.new}
                  \cup {[ext |-> q.pay, id |-> q.id] :
                          q \in {q \in batch.payments : \E p \in batch.new : q.paper = p.id}}
  /\ batch' = NoBatch
  /\ UNCHANGED <<paperFormat, lastId, paperWrites>>

(* Nothing of the file is kept: an own document was refused, the database said
   no, or the process ended. *)
AbortBatch ==
  /\ batch # NoBatch /\ batch' = NoBatch
  /\ UNCHANGED <<paperFormat, papers, payments, paperMap, payMap, made, lastId, paperWrites>>

(***************************************************************************)
(* The other handlers.                                                     *)
(***************************************************************************)
Elsewhere ==
  /\ paperWrites < MaxPaperWrites /\ paperWrites' = paperWrites + 1
  /\ UNCHANGED <<paperFormat, paperMap, payMap, batch, made>>

CreatePaper(n) ==
  /\ Elsewhere
  /\ \A p \in papers : p.number # n
  /\ lastId < MaxPapers /\ lastId' = lastId + 1
  /\ papers' = papers \cup {[id |-> lastId', ext |-> None, number |-> n, kind |-> "invoice",
                             source |-> None, cents |-> 1]}
  /\ UNCHANGED payments

(* Its notes lose their source, its payments go with it, the maps stay. *)
DeletePaper(p) ==
  /\ Elsewhere
  /\ papers' = {IF q.source = p.id THEN [q EXCEPT !.source = None] ELSE q : q \in papers \ {p}}
  /\ payments' = {q \in payments : q.paper # p.id}
  /\ UNCHANGED lastId

DeleteImportedPayment(q) ==
  /\ Elsewhere
  /\ payments' = payments \ {q}
  /\ UNCHANGED <<papers, lastId>>

DocumentImportInit ==
  /\ paperFormat \in PaperFormat
  /\ papers = {} /\ payments = {}
  /\ paperMap = [x \in Ext |-> 0] /\ payMap = [pay \in PayId |-> 0]
  /\ batch = NoBatch /\ made = {} /\ lastId = 0 /\ paperWrites = 0

DocumentImportNext ==
  \/ \E f \in PaperFile : StartBatch(f)
  \/ SkipMapped \/ SkipNumber \/ ImportPaper \/ SkipBroken
  \/ CommitBatch \/ AbortBatch
  \/ \E n \in PaperNumber : CreatePaper(n)
  \/ \E p \in papers : DeletePaper(p)
  \/ \E q \in payments : DeleteImportedPayment(q)

DocumentImportSpec == DocumentImportInit /\ [][DocumentImportNext]_paperVars

(***************************************************************************)
(* Properties.                                                             *)
(***************************************************************************)
(* A document or a payment of a file is made once and never again, however
   often the file is imported, renumbered, refused or cut off, and whatever was
   deleted in between. *)
PaperImportedOnce == \A m, n \in made : m.ext = n.ext => m.id = n.id

(* A committed import of an own export has every document of the file, unless
   its number was taken and the user asked to leave it out. *)
NativeImportWhole ==
  [][ IsNative /\ batch # NoBatch /\ batch' = NoBatch /\ paperMap' # paperMap =>
        \A k \in DOMAIN PapersOf[batch.file] :
          paperMap'[PapersOf[batch.file][k]] # 0 \/ PapersOf[batch.file][k] \in batch.left
    ]_paperVars

=============================================================================
