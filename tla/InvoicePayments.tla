-------------------------- MODULE InvoicePayments --------------------------
(***************************************************************************)
(* The status of a subject's documents, the payments recorded for them and *)
(* the bank transactions paired with them (fakturek/main.py, the copies in *)
(* fakturek/api_v1.py).                                                    *)
(*                                                                         *)
(* A handler reads what it needs, decides, and writes at its commit.  In   *)
(* between, handlers of the other kind run: those of the web pages that    *)
(* are coroutines take turns on the event loop, all the others run in      *)
(* threads.  The ORM writes only the columns whose value the handler has   *)
(* changed; nothing is locked and nothing is read again.  A handler is     *)
(* therefore two steps: Begin works out a change from what is committed,   *)
(* Commit applies its columns to what is committed by then.                *)
(*                                                                         *)
(* Amounts are left out: Fits says which documents have the amount and the *)
(* currency of a transaction, Named which of them it names by variable     *)
(* symbol or number.                                                       *)
(***************************************************************************)
EXTENDS Common, Naturals, FiniteSets

CONSTANTS
  Invoice,    \* identifiers of documents
  Payment,    \* identifiers of payments
  Tx,         \* imported incoming bank transactions
  Request,    \* handlers that may be in flight at the same time
  Fits,       \* Fits[t]: documents of the amount and currency of t
  Named,      \* Named[t]: those of them that t names
  MaxOverlaps \* bound: how many handlers begin while another is in flight

VARIABLES
  row,        \* the row of each document, None when it does not exist
  payment,    \* the row of each payment, None when it does not exist
  link,       \* the document and the payment a transaction is paired with
  req,        \* the change each handler in flight is about to commit
  overlaps    \* history: how often a handler began while another was in flight

vars == <<row, payment, link, req, overlaps>>

Status == {"draft", "issued", "sent", "paid", "cancelled"}

\* sent, paid: sent_at and paid_on are set; final: the number is not DRAFT-id.
Row == [status : Status, sent : BOOLEAN, paid : BOOLEAN, final : BOOLEAN]

\* manual: the note marks a payment recorded by hand; tx: the transaction that
\* the payment was made for.
PaymentRow == [invoice : Invoice, manual : BOOLEAN, tx : Tx \cup {None}]

Link == [invoice : Invoice, payment : Payment]

ASSUME PaymentsAssumption ==
  /\ None \notin Invoice \cup Payment \cup Tx \cup Request
  /\ None \notin Row \cup PaymentRow \cup Link
  /\ Fits \in [Tx -> SUBSET Invoice]
  /\ Named \in [Tx -> SUBSET Invoice]
  /\ \A t \in Tx : Named[t] \subseteq Fits[t]
  /\ MaxOverlaps \in Nat /\ IsFiniteSet(Payment)

PaymentsOf(i) == {p \in Payment : payment[p] # None /\ payment[p].invoice = i}

LinkedTo(ps) == {t \in Tx : link[t] # None /\ link[t].payment \in ps}

-----------------------------------------------------------------------------
(* Status transitions *)

\* _invoice_revert_target
RevertTarget(d) ==
  CASE d.status \in {"paid", "cancelled"} -> IF d.sent THEN "sent" ELSE "issued"
    [] d.status = "sent" -> "issued"
    [] d.status = "issued" -> "draft"
    [] OTHER -> "none"

\* The targets that _apply_invoice_status_transition accepts.
Targets(d) ==
  CASE d.status = "issued" -> {"sent", "paid", "draft", "cancelled"}
    [] d.status = "sent" -> {"paid", "issued", "cancelled"}
    [] d.status = "paid" -> {RevertTarget(d), "cancelled"}
    [] d.status = "cancelled" -> {RevertTarget(d)}
    [] OTHER -> {}

\* Mutant of Moved: going back to issued forgets to clear the date of sending.
MovedKeepingSent(d, target) ==
  CASE target = "draft" -> [status |-> "draft", sent |-> FALSE, paid |-> FALSE, final |-> FALSE]
    [] target = "sent" -> [d EXCEPT !.status = "sent", !.sent = TRUE, !.paid = FALSE]
    [] target = "paid" -> [d EXCEPT !.status = "paid", !.paid = TRUE]
    [] OTHER -> [d EXCEPT !.status = target, !.paid = FALSE]

\* What it makes of the row.
Moved(d, target) ==
  CASE target = "draft" -> [status |-> "draft", sent |-> FALSE, paid |-> FALSE, final |-> FALSE]
    [] target = "issued" -> [d EXCEPT !.status = "issued", !.sent = FALSE, !.paid = FALSE]
    [] target = "sent" -> [d EXCEPT !.status = "sent", !.sent = TRUE, !.paid = FALSE]
    [] target = "paid" -> [d EXCEPT !.status = "paid", !.paid = TRUE]
    [] target = "cancelled" -> [d EXCEPT !.status = "cancelled", !.paid = FALSE]

\* Mutant of Refreshed: the document stays paid.
RefreshedOnlyUp(d, remaining) ==
  IF remaining # {} THEN [d EXCEPT !.status = "paid", !.paid = TRUE] ELSE d

\* _refresh_invoice_payment_state: any payment makes the document paid, whatever
\* its status; a paid document without payments goes back.
Refreshed(d, remaining) ==
  CASE remaining # {} -> [d EXCEPT !.status = "paid", !.paid = TRUE]
    [] remaining = {} /\ d.status = "paid" ->
         [d EXCEPT !.status = RevertTarget(d), !.paid = FALSE]
    [] OTHER -> d

\* _remove_unlinked_manual_invoice_payments
UnlinkedManual(i) == {p \in PaymentsOf(i) : payment[p].manual /\ LinkedTo({p}) = {}}

-----------------------------------------------------------------------------
(* Changes: what a handler has decided to write *)

Change == [invoice : Invoice, before : Row \cup {None}, after : Row \cup {None},
           add : SUBSET [manual : BOOLEAN, tx : Tx \cup {None}],
           remove : SUBSET Payment, clear : SUBSET Tx,
           note : SUBSET [payment : Payment, manual : BOOLEAN],
           thread : {"loop", "pool"}]

Idle == None

Update(i, after, thread) ==
  [invoice |-> i, before |-> row[i], after |-> after, add |-> {}, remove |-> {},
   clear |-> {}, note |-> {}, thread |-> thread]

Manual == [manual |-> TRUE, tx |-> None]

\* A change of status by hand: paid records a payment, back from paid may drop
\* the payments recorded by hand.
StatusChange(i, target, drop, thread) ==
  [Update(i, Moved(row[i], target), thread) EXCEPT
     !.add = IF target = "paid" THEN {Manual} ELSE {},
     !.remove = IF drop /\ row[i].status = "paid" /\ target \in {"issued", "sent"}
                  THEN UnlinkedManual(i) ELSE {}]

\* The button of the page of a document, with or without "unpaid".
SetStatus(i) ==
  {StatusChange(i, target, drop, "loop") : target \in Targets(row[i]), drop \in BOOLEAN}

\* The bulk action of the list of documents, for one of the selected.
BulkStatus(i) ==
  {StatusChange(i, target, TRUE, "loop") :
     target \in Targets(row[i]) \cap {"paid", "sent", RevertTarget(row[i])}}

\* The same of the API, which can also cancel.
ApiBulkAction(i) ==
  {StatusChange(i, target, TRUE, "pool") :
     target \in Targets(row[i]) \cap {"paid", "sent", "cancelled", RevertTarget(row[i])}}

\* A draft of the API or of the editor; the editor can issue it at once.
CreateInvoice(i) ==
  {Update(i, after, thread) :
     after \in {[status |-> "draft", sent |-> FALSE, paid |-> FALSE, final |-> FALSE],
               [status |-> "issued", sent |-> FALSE, paid |-> FALSE, final |-> TRUE]},
     thread \in {"loop", "pool"}}

\* The issue button and the API.
IssueDraft(i) ==
  IF row[i].status = "draft"
    THEN {Update(i, [row[i] EXCEPT !.status = "issued", !.final = TRUE], "pool")}
    ELSE {}

\* The editor, saving and issuing at once.
IssueFromEditor(i) ==
  IF row[i].status = "draft"
    THEN {Update(i, [status |-> "issued", sent |-> FALSE, paid |-> FALSE, final |-> TRUE], "loop")}
    ELSE {}

\* The mail of an issued document is out: from the page (loop), the API or a
\* recurring plan (pool).  The status was read before the mail was sent.
SendEmail(i) ==
  IF row[i].status = "issued"
    THEN {Update(i, [row[i] EXCEPT !.status = "sent", !.sent = TRUE], thread) :
            thread \in {"loop", "pool"}}
    ELSE {}

\* The payments and the links of the document go with it.
DeleteInvoice(i) ==
  {[Update(i, None, "pool") EXCEPT
      !.remove = PaymentsOf(i),
      !.clear = {t \in Tx : link[t] # None /\ link[t].invoice = i}
                  \cup LinkedTo(PaymentsOf(i))]}

\* The ORM deletes the payments with the draft and leaves matched_invoice_id.
DeleteDraft(i) ==
  IF row[i].status = "draft"
    THEN {[Update(i, None, "pool") EXCEPT !.remove = PaymentsOf(i)]}
    ELSE {}

-----------------------------------------------------------------------------
(* Payments of the API *)

Payable(d) == d.status \in {"issued", "sent", "paid"}

CreatePayment(i) ==
  IF Payable(row[i])
    THEN {[Update(i, Moved(row[i], "paid"), "pool") EXCEPT
             !.add = {[manual |-> manual, tx |-> None]}] : manual \in BOOLEAN}
    ELSE {}

NoteOf(p) == [payment |-> p, manual |-> payment[p].manual]

\* The note may be changed, then the state of the document is worked out again.
PatchPayment(i) ==
  {[Update(i, Refreshed(row[i], PaymentsOf(i)), "pool") EXCEPT
      !.note = {[payment |-> p, manual |-> manual]} \ {NoteOf(p)}] :
     p \in PaymentsOf(i), manual \in BOOLEAN}

DeletePayment(i) ==
  {[Update(i, Refreshed(row[i], PaymentsOf(i) \ {p}), "pool") EXCEPT
      !.remove = {p}, !.clear = LinkedTo({p})] : p \in PaymentsOf(i)}

-----------------------------------------------------------------------------
(* Bank transactions *)

Pairing(i, t, thread) ==
  [Update(i, Moved(row[i], "paid"), thread) EXCEPT
     !.add = {[manual |-> FALSE, tx |-> t]}]

\* _link_bank_transaction_to_invoice: by a match or by a payment with a
\* transaction; a pair that exists already is reported and nothing is written.
ApiMatch(i) ==
  {Pairing(i, t, "pool") :
     t \in {u \in Tx : link[u] = None /\ i \in Fits[u] /\ Payable(row[i])}}

\* _bank_sync_candidate_invoices
Candidates(t) ==
  {i \in Named[t] : row[i] # None /\ row[i].status \in {"issued", "sent"}}

PageMatch(i) ==
  {Pairing(i, t, "loop") : t \in {u \in Tx : link[u] = None /\ i \in Candidates(u)}}

\* Mutant of RetryMatching: transactions that are paired already are tried again.
RetryMatchingPaired(i) ==
  {Pairing(i, t, "pool") : t \in {u \in Tx : Candidates(u) = {i}}}

\* A sync or a retry pairs a transaction that has a single candidate.
RetryMatching(i) ==
  {Pairing(i, t, "pool") : t \in {u \in Tx : link[u] = None /\ Candidates(u) = {i}}}

\* Mutant of Unmatch: the link goes, the payment stays.
UnmatchKeepingPayment(i) ==
  {[Update(i, Refreshed(row[i], PaymentsOf(i)), "pool") EXCEPT !.clear = {t}] :
     t \in {u \in Tx : link[u] # None /\ link[u].invoice = i}}

\* _unlink_bank_transaction
Unmatch(i) ==
  {[Update(i, Refreshed(row[i], PaymentsOf(i) \ {link[t].payment}), "pool") EXCEPT
      !.remove = {link[t].payment}, !.clear = {t}] :
     t \in {u \in Tx : link[u] # None /\ link[u].invoice = i}}

-----------------------------------------------------------------------------
(* Handlers in flight *)

\* An identifier that was in use is not used again while somebody may mean it.
InFlight == {req[r] : r \in Request} \ {Idle}

FreshPayments ==
  {p \in Payment : /\ payment[p] = None
                   /\ \A c \in InFlight : /\ p \notin c.remove
                                          /\ \A n \in c.note : n.payment # p}

Begin(r, changes) ==
  /\ req[r] = Idle
  /\ IF InFlight = {} THEN UNCHANGED overlaps
     ELSE overlaps < MaxOverlaps /\ overlaps' = overlaps + 1
  /\ \E c \in changes :
       /\ c.thread = "loop" => \A other \in InFlight : other.thread # "loop"
       /\ c.add # {} => FreshPayments # {}
       /\ req' = [req EXCEPT ![r] = c]
  /\ UNCHANGED <<row, payment, link>>

Changes(i) ==
  UNION {SetStatus(i), BulkStatus(i), ApiBulkAction(i), IssueDraft(i), IssueFromEditor(i),
         SendEmail(i), DeleteInvoice(i), DeleteDraft(i), CreatePayment(i), PatchPayment(i),
         DeletePayment(i), ApiMatch(i), PageMatch(i), RetryMatching(i), Unmatch(i)}

BeginExisting(r, i) ==
  /\ row[i] # None
  /\ Begin(r, Changes(i))

BeginNew(r, i) ==
  /\ row[i] = None
  /\ \A c \in InFlight : c.invoice # i
  /\ Begin(r, CreateInvoice(i))

\* The columns that the handler has changed, over the row as it is by now.
Merged(now, before, after) ==
  [f \in DOMAIN after |-> IF before[f] # after[f] THEN after[f] ELSE now[f]]

\* Mutant of Accepted: the foreign keys are not enforced.
AcceptedUnchecked(c) == \A n \in c.note : payment[n.payment] # None

\* The ORM refuses an UPDATE of a row that is gone, the database whatever would
\* leave a foreign key without its row.
Accepted(c) ==
  LET i == c.invoice IN
  /\ \/ c.before = None
     \/ c.after = None
     \/ c.before = c.after /\ c.add = {}
     \/ row[i] # None
  /\ \A n \in c.note : payment[n.payment] # None
  /\ c.after = None => /\ PaymentsOf(i) \subseteq c.remove
                       /\ \A t \in Tx \ c.clear : link[t] # None => link[t].invoice # i

NewRow(c) ==
  CASE c.after = None -> None
    [] c.before = None -> c.after
    [] OTHER -> IF row[c.invoice] = None THEN None
                ELSE Merged(row[c.invoice], c.before, c.after)

\* The rows after the commit; new holds the identifiers that the database chooses.
NewPayment(c, new, p) ==
  CASE p \in new ->
         LET a == CHOOSE a \in c.add : TRUE
         IN  [invoice |-> c.invoice, manual |-> a.manual, tx |-> a.tx]
    [] p \notin new /\ p \in c.remove -> None
    [] p \notin new /\ p \notin c.remove /\ (\E n \in c.note : n.payment = p) ->
         [payment[p] EXCEPT !.manual = ~@]
    [] OTHER -> payment[p]

NewLink(c, new, t) ==
  IF \E a \in c.add : a.tx = t
    THEN [invoice |-> c.invoice, payment |-> CHOOSE p \in new : TRUE]
    ELSE IF t \in c.clear THEN None ELSE link[t]

Commit(r) ==
  LET c == req[r] IN
  /\ c # Idle
  /\ Accepted(c)
  /\ row' = [row EXCEPT ![c.invoice] = NewRow(c)]
  /\ \E new \in {ps \in SUBSET FreshPayments : Cardinality(ps) = Cardinality(c.add)} :
       /\ payment' = [p \in Payment |-> NewPayment(c, new, p)]
       /\ link' = [t \in Tx |-> NewLink(c, new, t)]
  /\ req' = [req EXCEPT ![r] = Idle]
  /\ UNCHANGED overlaps

\* The commit is refused, or the handler fails or dies before it.
Abandon(r) ==
  /\ req[r] # Idle
  /\ req' = [req EXCEPT ![r] = Idle]
  /\ UNCHANGED <<row, payment, link, overlaps>>

-----------------------------------------------------------------------------
Init ==
  /\ row = [i \in Invoice |-> None]
  /\ payment = [p \in Payment |-> None]
  /\ link = [t \in Tx |-> None]
  /\ req = [r \in Request |-> Idle]
  /\ overlaps = 0

Next ==
  \E r \in Request :
    \/ \E i \in Invoice : BeginExisting(r, i) \/ BeginNew(r, i)
    \/ Commit(r)
    \/ Abandon(r)

Spec == Init /\ [][Next]_vars

-----------------------------------------------------------------------------
TypeOK ==
  /\ row \in [Invoice -> Row \cup {None}]
  /\ payment \in [Payment -> PaymentRow \cup {None}]
  /\ link \in [Tx -> Link \cup {None}]
  /\ req \in [Request -> Change \cup {Idle}]
  /\ overlaps \in 0..MaxOverlaps

\* However handlers overlap, a payment belongs to a document that exists, and a
\* paired transaction points to a payment of the very document it points to.
LinksWellFounded ==
  /\ \A p \in Payment : payment[p] # None => row[payment[p].invoice] # None
  /\ \A t \in Tx : link[t] # None =>
       /\ payment[link[t].payment] # None
       /\ payment[link[t].payment].invoice = link[t].invoice

\* As long as handlers do not overlap, the dates of a document follow its status
\* through every detour of reverting, cancelling, paying and unpaying: the date
\* of payment is there exactly when it is paid, the date of sending whenever it
\* counts as sent and never when it counts as issued or as a draft.
DatesFollowStatus ==
  overlaps = 0 => \A i \in Invoice : row[i] # None =>
    /\ row[i].paid <=> row[i].status = "paid"
    /\ row[i].status = "sent" => row[i].sent
    /\ row[i].status \in {"draft", "issued"} => ~row[i].sent

\* As long as handlers do not overlap, a paid document has a payment: whoever
\* takes the last one away takes the status back with it.
PaidHasPayment ==
  overlaps = 0 => \A i \in Invoice :
    row[i] # None /\ row[i].status = "paid" => PaymentsOf(i) # {}

\* As long as handlers do not overlap, a bank transaction has paid for one
\* document at most: the payment made for it is the one it is paired with.
TransactionPaysOnce ==
  overlaps = 0 => \A p \in Payment, t \in Tx :
    payment[p] # None /\ payment[p].tx = t => link[t] # None /\ link[t].payment = p

\* "Only an issued or sent invoice can be marked as paid" (main.py, the refusal of
\* _apply_invoice_status_transition): neither a draft nor a cancelled document
\* becomes paid in one step.
OnlyIssuedGetsPaid ==
  [][\A i \in Invoice :
       /\ row[i] # None
       /\ row[i].status \in {"draft", "cancelled"}
       /\ row'[i] # None
       => row'[i].status # "paid"]_vars

\* What is true of it as long as handlers do not overlap: a draft or a cancelled
\* document becomes paid only by payments that it has had all along, from when it was
\* issued.  Nothing that records a payment for it, by hand, through the API or from
\* the bank, ever gets through.
PaidByWhatItKept ==
  [][overlaps' = 0 =>
       \A i \in Invoice :
         /\ row[i] # None /\ row[i].status \in {"draft", "cancelled"}
         /\ row'[i] # None /\ row'[i].status = "paid"
         => PaymentsOf(i)' # {} /\ PaymentsOf(i)' \subseteq PaymentsOf(i)]_vars

\* As long as handlers do not overlap, a pair is never replaced by another: whoever
\* pairs a transaction has seen it unpaired (_link_bank_transaction_to_invoice,
\* _bank_sync_candidate_invoices), and to pair it anew it must be unlinked first.
SerialPairingKept ==
  [][overlaps' = 0 =>
       \A t \in Tx : link[t] # None /\ link'[t] # None => link'[t] = link[t]]_vars

\* "The bank transaction is already paired with another document" (api_v1.py, the
\* refusal of _link_bank_transaction_to_invoice): a transaction that is paired with
\* one document is not paired with another by the next commit.
PairingKept ==
  [][\A t \in Tx :
       link[t] # None /\ link'[t] # None => link'[t].invoice = link[t].invoice]_vars

=============================================================================
