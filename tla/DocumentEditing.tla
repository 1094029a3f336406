--------------------------- MODULE DocumentEditing ---------------------------
(***************************************************************************)
(* Documents, their items and their totals; credit notes within what they  *)
(* give back.                                                              *)
(*                                                                         *)
(* The editor, the autosave and the copies are coroutines: one at a time.  *)
(* The API, the issue, the deletion of a document and of an item run in    *)
(* threads.  A request decides over the snapshot of its first query and    *)
(* writes the columns it changed; its writes are one step here, since the  *)
(* row locks they take are held until the commit.                          *)
(*                                                                         *)
(* A document is an invoice or a credit note here; discount and rounding   *)
(* are part of the items, quotes and proformas have no total to guard.     *)
(***************************************************************************)
EXTENDS Common, Integers, Sequences, FiniteSetsExt

CONSTANTS
  Editor,           \* the event loop
  EditThread,       \* threads
  Cents,            \* amounts of an item
  MaxDocuments,     \* bound: documents ever made
  MaxEdits          \* bound: requests begun

ASSUME EditingAssumption ==
  /\ Editor \notin EditThread
  /\ Cents \subseteq Nat \ {0}
  /\ MaxDocuments \in Nat /\ MaxEdits \in Nat

VARIABLES
  documents,        \* rows of invoices; None once deleted
  lines,            \* rows of invoice_items
  edits,            \* what each request is about to write
  begun,            \* requests begun
  doubled,          \* documents whose items two requests wrote at the same time
  strained          \* sources whose limit was passed by where the code does not look

editingVars == <<documents, lines, edits, begun, doubled, strained>>

DocumentId == 1 .. MaxDocuments
Writer == {Editor} \cup EditThread
DocumentRow ==
  [kind : {"invoice", "credit_note"}, status : {"draft", "issued"},
   source : DocumentId \cup {None}, total : Int]
LineRow == [doc : DocumentId, nr : 0 .. MaxEdits, cents : Int]

ASSUME NoneIsNoDocument == None \notin DocumentId \cup DocumentRow

Existing == {d \in DOMAIN documents : documents[d] # None}
IsNote(inv) == inv.kind = "credit_note"
Drafted(inv) == inv.status = "draft"
LinesOf(d) == {l \in lines : l.doc = d}
Sum(ls) == MapThenSumSet(LAMBDA l : l.cents, ls)
Size(n) == IF n < 0 THEN -n ELSE n

NoEdit == [op |-> "none"]

DocumentEditingTypeOK ==
  /\ documents \in Seq(DocumentRow \cup {None}) /\ Len(documents) <= MaxDocuments
  /\ lines \subseteq LineRow
  /\ \A w \in Writer : edits[w].op \in {"none", "write", "delete"}
  /\ begun \in 0 .. MaxEdits
  /\ doubled \subseteq DocumentId /\ strained \subseteq DocumentId

(***************************************************************************)
(* What is left to be credited.                                            *)
(***************************************************************************)
(* Cancelled notes count, drafts do not. *)
NotesOf(s) ==
  {d \in Existing : IsNote(documents[d]) /\ documents[d].source = s /\ ~Drafted(documents[d])}

(* The API adds up the sizes of the other notes. *)
CreditedBesides(s, own) ==
  MapThenSumSet(LAMBDA d : Size(documents[d].total), NotesOf(s) \ {own})

Net(s) == MapThenSumSet(LAMBDA d : documents[d].total, NotesOf(s))

(* The pages take the size of the sum and take the size of the own note from it. *)
NetBesides(s, own) ==
  Size(Net(s)) - (IF own \in NotesOf(s) THEN Size(documents[own].total) ELSE 0)

\* Mutant of WithinLimit: the other notes are forgotten.
WithinLimitAlone(w, s, own, cents) == Size(cents) <= documents[s].total

WithinLimit(w, s, own, cents) ==
  LET credited == IF w = Editor THEN NetBesides(s, own) ELSE CreditedBesides(s, own)
  IN Size(cents) <= Max({documents[s].total - credited, 0})

(* A note without a source passes in the pages; the API wants one. *)
Creditable(w, inv, own, cents) ==
  IsNote(inv) =>
    IF inv.source = None THEN w = Editor
    ELSE inv.source \in Existing /\ WithinLimit(w, inv.source, own, cents)

(***************************************************************************)
(* Requests.                                                               *)
(***************************************************************************)
(* The items of a note may have either sign. *)
Amount == Cents \cup {-c : c \in Cents}
Priced(inv, c) == c \in Cents \/ (IsNote(inv) /\ c \in Amount)

BeginEdit(w, e) ==
  /\ edits[w] = NoEdit
  /\ begun < MaxEdits /\ begun' = begun + 1
  /\ edits' = [edits EXCEPT ![w] = e]
  /\ UNCHANGED <<documents, lines, doubled, strained>>

(* Writes inv; takes the items drops away and adds one of the amounts adds. *)
Writing(d, inv, drops, adds) ==
  [op |-> "write", nr |-> begun + 1, doc |-> d, row |-> inv,
   sees |-> IF d = 0 THEN None ELSE documents[d],
   lines |-> IF d = 0 THEN {} ELSE LinesOf(d), drops |-> drops, adds |-> adds,
   sums |-> TRUE, stale |-> {}, late |-> FALSE]

BlankRow(kind, source) ==
  [kind |-> kind, status |-> "draft", source |-> source, total |-> 0]

Room == Len(documents) < MaxDocuments

(* The editor checks the amount of a note that is a draft only, too; an invoice
   can be issued at once. *)
Create(w, kind, source, c, issued) ==
  /\ Room
  /\ LET inv == BlankRow(kind, source) IN
     /\ issued => w = Editor /\ ~IsNote(inv)
     /\ BeginEdit(w, Writing(0, [inv EXCEPT !.status = IF issued THEN "issued" ELSE "draft"],
                         {}, {c}))
     /\ Priced(inv, c) /\ Creditable(w, inv, 0, c)

(* The autosave checks nothing, and makes notes without a source. *)
AutosaveNew(kind, c) ==
  /\ Room
  /\ LET inv == BlankRow(kind, None) IN Priced(inv, c) /\ BeginEdit(Editor, Writing(0, inv, {}, {c}))

Autosave(d, kind, c) ==
  /\ Drafted(documents[d])
  /\ LET inv == [documents[d] EXCEPT !.kind = kind]
     IN Priced(inv, c) /\ BeginEdit(Editor, Writing(d, inv, LinesOf(d), {c}))

(* A copy keeps the source and the items. *)
Duplicate(d) ==
  /\ Room
  /\ BeginEdit(Editor, Writing(0, [documents[d] EXCEPT !.status = "draft", !.total = 0],
                           {}, {Sum(LinesOf(d))}))

CreateCreditNote(d) ==
  /\ Room
  /\ ~IsNote(documents[d]) /\ ~Drafted(documents[d])
  /\ BeginEdit(Editor, Writing(0, BlankRow("credit_note", d), {},
                           {-Sum({[l EXCEPT !.cents = Size(l.cents)] : l \in LinesOf(d)})}))

(* The editor saves documents in every status, with other items, and may issue a
   draft. *)
UpdateDocument(d, c, issued) ==
  /\ issued => Drafted(documents[d])
  /\ BeginEdit(Editor, Writing(d, IF issued THEN [documents[d] EXCEPT !.status = "issued"]
                                ELSE documents[d],
                           LinesOf(d), {c}))
  /\ Priced(documents[d], c) /\ Creditable(Editor, documents[d], d, c)

(* The API saves drafts: kind, source and items may change or be left out. *)
PatchDocument(w, d, kind, source) ==
  /\ Drafted(documents[d]) /\ source # d
  /\ LET inv == [[documents[d] EXCEPT !.kind = kind] EXCEPT !.source = source]
     IN \/ /\ BeginEdit(w, Writing(d, inv, {}, {}))
           /\ Creditable(w, inv, d, Sum(LinesOf(d)))
        \/ \E c \in Amount :
             /\ BeginEdit(w, Writing(d, inv, LinesOf(d), {c}))
             /\ Priced(inv, c) /\ Creditable(w, inv, d, c)

(* Items are added in every status and never negative, and taken away from drafts. *)
AddItem(d, c) == BeginEdit(Editor, Writing(d, documents[d], {}, {c}))

DeleteItem(w, d) ==
  /\ Drafted(documents[d])
  /\ \E l \in LinesOf(d) : BeginEdit(w, Writing(d, documents[d], {l}, {}))

(* The page skips the check of a note whose source was deleted.  What is
   compared is the total as it is stored. *)
IssueDocument(w, page, d) ==
  /\ Drafted(documents[d])
  /\ BeginEdit(w, Writing(d, [documents[d] EXCEPT !.status = "issued"], {}, {}))
  /\ Creditable(IF page THEN Editor ELSE w, documents[d], d, documents[d].total)

(* The only write that does not sum the items again. *)
RevertDocument(w, d) ==
  /\ ~Drafted(documents[d])
  /\ BeginEdit(w, [Writing(d, [documents[d] EXCEPT !.status = "draft"], {}, {}) EXCEPT !.sums = FALSE])

DeleteDocument(w, d) ==
  BeginEdit(w, [op |-> "delete", nr |-> begun + 1, doc |-> d, lines |-> LinesOf(d), stale |-> {},
            late |-> FALSE, links |-> {n \in Existing : documents[n].source = d}])

(***************************************************************************)
(* Commits.                                                                *)
(***************************************************************************)
\* Mutant of ItemsTotal: what the request adds is not flushed before the sum.
ItemsTotalUnflushed(e) == Sum(e.lines \ (e.drops \cap lines))

(* The sum is read in the snapshot: an item another request deleted since is
   still there, unless this request deletes it as well. *)
ItemsTotal(e) == Sum(e.lines \ (e.drops \cap lines)) + Sum({[cents |-> c] : c \in e.adds})

\* Mutant of RowAfter: the whole row is written.
RowAfterWhole(e) == [e.row EXCEPT !.total = ItemsTotal(e)]

(* Only columns with a new value are written. *)
RowAfter(e) ==
  LET inv == IF e.sums THEN [e.row EXCEPT !.total = ItemsTotal(e)] ELSE e.row
  IN IF e.doc = 0 THEN inv
     ELSE [f \in DOMAIN inv |-> IF inv[f] = e.sees[f] THEN documents[e.doc][f] ELSE inv[f]]

Target(e) == IF e.doc = 0 THEN Len(documents) + 1 ELSE e.doc

ChangesItems(e) == e.op = "write" /\ (e.drops # {} \/ e.adds # {})

(* History, for the properties: which documents and sources of credit a request
   read before e changed them, and whether e changed the items of its document. *)
Touches(e, inv) ==
  ({Target(e), inv.source} \cup {documents[d].source : d \in {Target(e)} \cap Existing}) \ {None}

Ends(e, touched) ==
  [v \in Writer |->
     IF edits[v] \in {e, NoEdit} THEN NoEdit
     ELSE [edits[v] EXCEPT !.stale = @ \cup touched,
                           !.late = @ \/ (edits[v].doc = Target(e) /\ ChangesItems(e))]]

(* The limit of a source is not looked at when it is lowered or becomes one,
   when items are added to a note, or when a note was compared with what has
   changed since; and it is lost with an issued note that charges more instead of
   giving back, since pages and API come to different remainders then. *)
Strains(e, inv) ==
  (IF e.doc # 0 /\ inv.total < documents[e.doc].total THEN {e.doc} ELSE {})
    \cup (IF IsNote(inv) /\ inv.source # None
             /\ \/ {e.doc, inv.source} \cap e.stale # {}
                \/ ~Drafted(inv) /\ (inv.total > 0 \/ (e.drops = {} /\ e.adds # {}))
          THEN {inv.source} ELSE {})

CommitEdit(w) ==
  /\ edits[w].op = "write"
  /\ LET e == edits[w]
         inv == RowAfter(e)
     IN /\ e.doc # 0 => e.doc \in Existing
        /\ e.doc = 0 => Room
        /\ inv.source # None => inv.source \in Existing
        /\ documents' = IF e.doc = 0 THEN Append(documents, inv)
                        ELSE [documents EXCEPT ![e.doc] = inv]
        /\ lines' = (lines \ e.drops)
                      \cup {[doc |-> Target(e), nr |-> e.nr, cents |-> c] : c \in e.adds}
        /\ doubled' = IF ChangesItems(e) /\ e.late THEN doubled \cup {e.doc} ELSE doubled
        /\ strained' = strained \cup Strains(e, inv)
        /\ edits' = Ends(e, Touches(e, inv))
  /\ UNCHANGED begun

(* The items and the notes that were read go with it; what came since holds it. *)
Removable(e) ==
  /\ e.doc \in Existing
  /\ LinesOf(e.doc) \subseteq e.lines
  /\ e.links \subseteq Existing
  /\ {n \in Existing : documents[n].source = e.doc} \subseteq e.links

CommitDelete(w) ==
  /\ edits[w].op = "delete"
  /\ LET e == edits[w]
     IN /\ Removable(e)
        /\ documents' = [d \in DOMAIN documents |->
                           IF d = e.doc THEN None
                           ELSE IF d \in e.links THEN [documents[d] EXCEPT !.source = None]
                           ELSE documents[d]]
        /\ lines' = lines \ LinesOf(e.doc)
        /\ edits' = Ends(e, {e.doc})
  /\ UNCHANGED <<begun, doubled, strained>>

(* A row is gone, a constraint holds, or the process ends. *)
Rollback(w) ==
  /\ edits[w] # NoEdit
  /\ edits' = [edits EXCEPT ![w] = NoEdit]
  /\ UNCHANGED <<documents, lines, begun, doubled, strained>>

(* An invoice that was issued and drafts of notes for it. *)
EditingInit ==
  /\ \E total \in Cents, notes \in UNION {[1 .. n -> Amount] : n \in 0 .. MaxDocuments - 1} :
       /\ documents = <<[kind |-> "invoice", status |-> "issued", source |-> None, total |-> total]>>
            \o [n \in DOMAIN notes |-> [kind |-> "credit_note", status |-> "draft", source |-> 1,
                                        total |-> notes[n]]]
       /\ lines = {[doc |-> 1, nr |-> 0, cents |-> total]}
            \cup {[doc |-> n + 1, nr |-> 0, cents |-> notes[n]] : n \in DOMAIN notes}
  /\ edits = [w \in Writer |-> NoEdit]
  /\ begun = 0 /\ doubled = {} /\ strained = {}

Kind == {"invoice", "credit_note"}

EditingNext ==
  \/ \E kind \in Kind, source \in Existing \cup {None}, c \in Amount, issued \in BOOLEAN, w \in Writer :
       Create(w, kind, source, c, issued)
  \/ \E kind \in Kind, c \in Amount : AutosaveNew(kind, c)
  \/ \E d \in Existing :
       \/ \E kind \in Kind, c \in Amount : Autosave(d, kind, c)
       \/ Duplicate(d) \/ CreateCreditNote(d)
       \/ \E c \in Cents : AddItem(d, c)
       \/ \E c \in Amount, issued \in BOOLEAN : UpdateDocument(d, c, issued)
       \/ \E w \in Writer : RevertDocument(w, d)
       \/ \E w \in EditThread :
            \/ \E kind \in Kind, source \in Existing \cup {None} : PatchDocument(w, d, kind, source)
            \/ DeleteItem(w, d) \/ DeleteDocument(w, d)
            \/ \E page \in BOOLEAN : IssueDocument(w, page, d)
  \/ \E w \in Writer : CommitEdit(w) \/ CommitDelete(w) \/ Rollback(w)

EditingSpec == EditingInit /\ [][EditingNext]_editingVars

(***************************************************************************)
(* Properties.                                                             *)
(***************************************************************************)
(* The stored total of a document is the sum of its items, as long as no two
   requests wrote its items from the same state: the issue, the copies and the
   deletion of notes' sources may overlap with whatever they like. *)
TotalOfItems ==
  \A d \in Existing \ doubled : documents[d].total = Sum(LinesOf(d))

(* The notes issued for an invoice, all of them giving back, give back no more than
   its total, through the pages and the API in any order, unless the invoice was
   lowered after them, an item was added to an issued note, or two requests compared
   with the same remainder.  With an issued note that charges more, even one
   request at a time may pass it: CheckedNoteFits. *)
CreditWithinSource ==
  \A s \in Existing \ strained : -Net(s) <= Max({documents[s].total, 0})

(* A note that was compared with what is left, while nothing changed behind it, never
   lets the notes of its source give back more than the source is worth.  The check
   of the pages and the API is meant to see to it, whatever the signs of the notes. *)
CheckedNoteFits ==
  [][ \A w \in Writer, s \in Existing :
        LET e == edits[w]
        IN /\ e.op = "write" /\ edits'[w] = NoEdit /\ documents' # documents
           /\ IsNote(e.row) /\ ~Drafted(e.row) /\ (e.drops # {} \/ e.adds = {})
           /\ e.row.source = s /\ {e.doc, s} \cap e.stale = {}
           /\ -Net(s) <= documents[s].total
           => -Net(s)' <= documents'[s].total ]_editingVars

(* What a request decided over a draft never takes an issued document back: only
   a request that read it as issued does. *)
IssuedStaysIssued ==
  [][ \A d \in Existing : ~Drafted(documents[d]) /\ documents'[d] # None /\ Drafted(documents'[d])
        => \E w \in Writer : edits[w].op = "write" /\ edits[w].doc = d /\ edits'[w] = NoEdit
                             /\ ~Drafted(edits[w].sees) ]_editingVars

=============================================================================
