-------------------------- MODULE DocumentDelivery --------------------------
(***************************************************************************)
(* How one document reaches its buyer: the stored PDF, the public link and *)
(* the mails.                                                              *)
(*                                                                         *)
(* The pages that save, mail and link are coroutines: one at a time, but   *)
(* threads run between any two of their transactions.  The pages that show *)
(* a PDF, the issue of a document and the whole API run in threads.  A     *)
(* transaction sees the database as of its first query and writes only the *)
(* columns it changed.  What pays and numbers the document is the matter   *)
(* of other modules: here its status is read and written, no more.         *)
(***************************************************************************)
EXTENDS Common, Naturals, Sequences

CONSTANTS
  Page,            \* the event loop
  Pool,            \* threads
  DocNumber,       \* numbers the document may get
  MaxText,         \* bound: edits of the document
  MaxMails,        \* bound: mails begun
  MaxRequests,     \* bound: requests begun
  MaxClock         \* bound: the clock of the time stamps

ASSUME DeliveryAssumption ==
  /\ Page \notin Pool
  /\ MaxText \in Nat /\ MaxMails \in Nat /\ MaxRequests \in Nat /\ MaxClock \in Nat
  /\ None \notin Nat \cup {"queued", "sent", "error"}

VARIABLES
  doc,             \* the row of the document
  files,           \* the PDF stores: by the number in the file name
  errand,          \* what each request is doing
  mailLog,         \* invoice_emails; a row without a status is not committed
  left,            \* mails the mail server took
  confirmed,       \* those of which the sender has learned it
  linked,          \* tokens that were the document's at some time
  clock, requests

deliveryVars == <<doc, files, errand, mailLog, left, confirmed, linked, clock, requests>>

Number == DocNumber \cup {"DRAFT"}    \* DRAFT-<id>, the placeholder of a draft
Actor == {Page} \cup Pool
Token == 1 .. MaxRequests       \* a request makes at most one token: its number

DocRow ==
  [status : {"draft", "issued", "sent", "paid"}, number : Number,
   text : 0 .. MaxText, token : Token \cup {None},
   path : Number \cup {None}, generated : 0 .. MaxClock \cup {None}, updated : 0 .. MaxClock]

(* What a PDF shows; a paid document asks for no payment. *)
Pdf == [number : Number, text : 0 .. MaxText, paid : BOOLEAN]
PdfOf(inv) == [number |-> inv.number, text |-> inv.text, paid |-> inv.status = "paid"]

MailRow == [by : {"page", "api"}, status : {None, "queued", "sent", "error"}]

NoErrand == [step |-> "none"]
Step == {"none", "render", "stored", "queue", "smtp", "accepted", "failed", "mark",
         "flush", "link"}

DocumentDeliveryTypeOK ==
  /\ doc \in DocRow
  /\ files \in [Number -> Pdf \cup {None}]
  /\ \A a \in Actor : errand[a].step \in Step
  /\ mailLog \in Seq(MailRow) /\ Len(mailLog) <= MaxMails
  /\ left \subseteq DOMAIN mailLog /\ confirmed \subseteq left
  /\ linked \subseteq Token
  /\ clock \in 0 .. MaxClock /\ requests \in 0 .. MaxRequests

(***************************************************************************)
(* The database.                                                           *)
(***************************************************************************)
(* An API mail keeps its row of the log, and with it the document, locked. *)
Locks(a) == errand[a].step \in {"smtp", "accepted", "failed"} /\ errand[a].by = "api"
DocFree(a) == \A b \in Actor \ {a} : ~Locks(b)

(* Every UPDATE stamps the row. *)
Stamped(inv) == [inv EXCEPT !.updated = clock]

\* Mutant of Changed: the whole row is written.
ChangedAll(sees, inv) == IF inv = sees THEN {} ELSE DOMAIN inv

(* Only what differs from what was read is written. *)
Changed(sees, inv) == {f \in DOMAIN inv : inv[f] # sees[f]}
Written(sees, inv) ==
  IF Changed(sees, inv) = {} THEN doc
  ELSE Stamped([f \in DOMAIN doc |-> IF f \in Changed(sees, inv) THEN inv[f] ELSE doc[f]])

Does(a, e) == errand' = [errand EXCEPT ![a] = e]

Begins(a) ==
  /\ errand[a] = NoErrand
  /\ requests < MaxRequests /\ requests' = requests + 1

FreshToken == requests + 1

(* One token for a document that has none. *)
Ensured(inv, token) == IF inv.token = None THEN [inv EXCEPT !.token = token] ELSE inv

(***************************************************************************)
(* The stored PDF.                                                         *)
(***************************************************************************)
IsDraft(inv) == inv.status = "draft"

(* In production; elsewhere the pages make every PDF anew. *)
Fresh(inv) ==
  /\ inv.path # None /\ inv.generated # None
  /\ inv.generated >= inv.updated

(* The pages reuse what is not older than the row, the API whatever is there. *)
Reusable(by, inv) ==
  /\ ~IsDraft(inv)
  /\ inv.path # None /\ files[inv.path] # None
  /\ by = "page" => Fresh(inv)

Rendering(by, then, sees) == [step |-> "render", by |-> by, then |-> then, sees |-> sees]

(* A PDF is shown, by a page, under a public link or by the API. *)
ShowPdf(a, by) ==
  /\ Begins(a)
  /\ Does(a, IF Reusable(by, doc) \/ IsDraft(doc) THEN NoErrand ELSE Rendering(by, "end", doc))
  /\ UNCHANGED <<doc, files, mailLog, left, confirmed, linked, clock>>

(* The new PDF after a document was saved; a draft has none. *)
Regeneration(inv) == IF IsDraft(inv) THEN NoErrand ELSE Rendering("page", "end", inv)

\* Mutant of Store: the name of the file comes from the row as it is now.
StoreRenamed(a) ==
  /\ errand[a].step = "render"
  /\ files' = [files EXCEPT ![doc.number] = PdfOf(errand[a].sees)]
  /\ Does(a, [errand[a] EXCEPT !.step = "stored"])
  /\ UNCHANGED <<doc, mailLog, left, confirmed, linked, clock, requests>>

(* The file is replaced at once, before anything is committed. *)
Store(a) ==
  /\ errand[a].step = "render"
  /\ files' = [files EXCEPT ![errand[a].sees.number] = PdfOf(errand[a].sees)]
  /\ Does(a, [errand[a] EXCEPT !.step = "stored"])
  /\ UNCHANGED <<doc, mailLog, left, confirmed, linked, clock, requests>>

Continued(e) ==
  CASE e.then = "end"   -> NoErrand
    [] e.then = "queue" -> [step |-> "queue", by |-> "page", kind |-> e.kind]
    [] e.then = "flush" -> [step |-> "flush", by |-> "api", sees |-> e.sees, row |-> e.row]

WithPdf(inv, number) == [inv EXCEPT !.path = number, !.generated = clock]

(* The API mail commits where its PDF is stored only with the mail. *)
RememberPdf(a) ==
  /\ errand[a].step = "stored" /\ errand[a].then # "flush"
  /\ DocFree(a)
  /\ doc' = Written(errand[a].sees, WithPdf(errand[a].sees, errand[a].sees.number))
  /\ Does(a, Continued(errand[a]))
  /\ UNCHANGED <<files, mailLog, left, confirmed, linked, clock, requests>>

RememberWithMail(a) ==
  /\ errand[a].step = "stored" /\ errand[a].then = "flush"
  /\ Does(a, Continued([errand[a] EXCEPT !.row = WithPdf(@, errand[a].sees.number)]))
  /\ UNCHANGED <<doc, files, mailLog, left, confirmed, linked, clock, requests>>

(* Best effort: the page mails what it rendered; nothing is remembered. *)
PdfFails(a) ==
  /\ errand[a].step \in {"render", "stored"} /\ errand[a].by = "page"
  /\ Does(a, Continued(errand[a]))
  /\ UNCHANGED <<doc, files, mailLog, left, confirmed, linked, clock, requests>>

(***************************************************************************)
(* The document.                                                           *)
(***************************************************************************)
Saves(a, inv) ==
  /\ DocFree(a)
  /\ doc' = Stamped(inv)
  /\ Does(a, Regeneration(Stamped(inv)))
  /\ UNCHANGED <<files, mailLog, left, confirmed, clock>>

Edit ==
  /\ Begins(Page)
  /\ doc.text < MaxText
  /\ Saves(Page, [doc EXCEPT !.text = @ + 1])
  /\ UNCHANGED linked

Issue(a) ==
  /\ Begins(a) /\ IsDraft(doc)
  /\ DocFree(a)
  /\ \E n \in DocNumber :
       doc' = Stamped(Ensured([doc EXCEPT !.status = "issued", !.number = n], FreshToken))
  /\ linked' = linked \cup {doc'.token}
  /\ \/ Does(a, Regeneration(doc'))       \* from a page
     \/ UNCHANGED errand                  \* from the API
  /\ UNCHANGED <<files, mailLog, left, confirmed, clock>>

(* A page makes the PDF anew, the API does not. *)
ChangesStatus(a, inv) ==
  /\ Begins(a)
  /\ IF a = Page THEN Saves(a, inv)
     ELSE /\ DocFree(a) /\ doc' = Stamped(inv)
          /\ UNCHANGED <<files, errand, mailLog, left, confirmed, clock>>
  /\ UNCHANGED linked

MarkPaid(a) ==
  /\ doc.status \in {"issued", "sent"}
  /\ ChangesStatus(a, [doc EXCEPT !.status = "paid"])

(* Back to a draft: the number and the stored PDF are given up, the token is not. *)
Revert(a) ==
  /\ doc.status = "issued"
  /\ ChangesStatus(a, [doc EXCEPT !.status = "draft", !.number = "DRAFT",
                                  !.path = None, !.generated = None])

(***************************************************************************)
(* The public link.                                                        *)
(***************************************************************************)
LinkOp == {"enable", "disable", "rotate"}

(* The pages refuse a draft, unless the link is withdrawn. *)
OpenLink(a, what) ==
  /\ Begins(a)
  /\ a = Page /\ IsDraft(doc) => what = "disable"
  /\ Does(a, [step |-> "link", by |-> "link", sees |-> doc,
              row |-> CASE what = "enable"  -> Ensured(doc, FreshToken)
                        [] what = "rotate"  -> [doc EXCEPT !.token = FreshToken]
                        [] what = "disable" -> [doc EXCEPT !.token = None]])
  /\ UNCHANGED <<doc, files, mailLog, left, confirmed, linked, clock>>

WithToken(inv) == IF inv.token = None THEN linked ELSE linked \cup {inv.token}

CommitLink(a) ==
  /\ errand[a].step = "link"
  /\ DocFree(a)
  /\ doc' = Written(errand[a].sees, errand[a].row)
  /\ linked' = WithToken(doc')
  /\ Does(a, NoErrand)
  /\ UNCHANGED <<files, mailLog, left, confirmed, clock, requests>>

(* A visit is counted in a transaction of its own, and stamps the row. *)
Visit ==
  /\ doc.token # None /\ \A a \in Actor : ~Locks(a)
  /\ doc' = Stamped(doc)
  /\ UNCHANGED <<files, errand, mailLog, left, confirmed, linked, clock, requests>>

(***************************************************************************)
(* Mails from the pages: the document and the reminder.                    *)
(***************************************************************************)
MailKind == {"invoice", "reminder"}

OpenMail(kind, attach) ==
  /\ Begins(Page)
  /\ ~IsDraft(doc)
  /\ kind = "reminder" => doc.status # "paid"
  /\ LET queue == [step |-> "queue", by |-> "page", kind |-> kind]
         render == [step |-> "render", by |-> "page", then |-> "queue", kind |-> kind, sees |-> doc]
     IN Does(Page, IF attach /\ ~Reusable("page", doc) THEN render ELSE queue)
  /\ UNCHANGED <<doc, files, mailLog, left, confirmed, linked, clock>>

\* Mutant of QueueMail: the row is written with the answer of the mail server.
QueueMailLater ==
  /\ errand[Page].step = "queue" /\ Len(mailLog) < MaxMails
  /\ mailLog' = Append(mailLog, [by |-> "page", status |-> None])
  /\ Does(Page, [step |-> "smtp", by |-> "page", kind |-> errand[Page].kind,
                 mail |-> Len(mailLog) + 1])
  /\ UNCHANGED <<doc, files, left, confirmed, linked, clock, requests>>

(* The row of the log is committed before the mail leaves. *)
QueueMail ==
  /\ errand[Page].step = "queue" /\ Len(mailLog) < MaxMails
  /\ mailLog' = Append(mailLog, [by |-> "page", status |-> "queued"])
  /\ Does(Page, [step |-> "smtp", by |-> "page", kind |-> errand[Page].kind,
                 mail |-> Len(mailLog) + 1])
  /\ UNCHANGED <<doc, files, left, confirmed, linked, clock, requests>>

SmtpAccepts(a) ==
  /\ errand[a].step = "smtp"
  /\ left' = left \cup {errand[a].mail} /\ confirmed' = confirmed \cup {errand[a].mail}
  /\ Does(a, [errand[a] EXCEPT !.step = "accepted"])
  /\ UNCHANGED <<doc, files, mailLog, linked, clock, requests>>

(* send_via_smtp raises: the server refused the mail or was never reached, or it took
   the mail and its answer was lost or came too late. *)
SmtpFails(a) ==
  /\ errand[a].step = "smtp"
  /\ left' \in {left, left \cup {errand[a].mail}}
  /\ Does(a, [errand[a] EXCEPT !.step = "failed"])
  /\ UNCHANGED <<doc, files, mailLog, confirmed, linked, clock, requests>>

Outcome(a) == IF errand[a].step = "accepted" THEN "sent" ELSE "error"

(* After a commit that fails the row is read again: the mail counts as not sent. *)
RecordMail ==
  /\ errand[Page].step \in {"accepted", "failed"}
  /\ \/ /\ mailLog' = [mailLog EXCEPT ![errand[Page].mail].status = Outcome(Page)]
        /\ Does(Page, IF Outcome(Page) = "sent"
                      THEN [step |-> "mark", by |-> "page", kind |-> errand[Page].kind]
                      ELSE NoErrand)
     \/ UNCHANGED mailLog /\ Does(Page, NoErrand)
  /\ UNCHANGED <<doc, files, left, confirmed, linked, clock, requests>>

(* The reminder stamps the row; the race for the status is in InvoicePayments. *)
MarkMailed ==
  /\ errand[Page].step = "mark" /\ DocFree(Page)
  /\ doc' = IF errand[Page].kind = "reminder" THEN Stamped(doc)
            ELSE IF doc.status = "issued" THEN Stamped([doc EXCEPT !.status = "sent"]) ELSE doc
  /\ Does(Page, NoErrand)
  /\ UNCHANGED <<files, mailLog, left, confirmed, linked, clock, requests>>

(***************************************************************************)
(* Mails from the API: everything in one transaction around the mail.      *)
(***************************************************************************)
OpenApiMail(a, withLink, attach) ==
  /\ Begins(a) /\ ~IsDraft(doc)
  /\ LET inv == IF withLink THEN Ensured(doc, FreshToken) ELSE doc
     IN Does(a, [step |-> IF attach /\ ~Reusable("api", doc) THEN "render" ELSE "flush",
                 by |-> "api", then |-> "flush", sees |-> doc, row |-> inv])
  /\ UNCHANGED <<doc, files, mailLog, left, confirmed, linked, clock>>

FlushMail(a) ==
  /\ errand[a].step = "flush"
  /\ DocFree(a) /\ Len(mailLog) < MaxMails
  /\ mailLog' = Append(mailLog, [by |-> "api", status |-> None])
  /\ Does(a, [step |-> "smtp", by |-> "api", sees |-> errand[a].sees, row |-> errand[a].row,
              mail |-> Len(mailLog) + 1])
  /\ UNCHANGED <<doc, files, left, confirmed, linked, clock, requests>>

Mailed(a) ==
  IF Outcome(a) = "sent" /\ errand[a].row.status = "issued"
  THEN [errand[a].row EXCEPT !.status = "sent"] ELSE errand[a].row

CommitApiMail(a) ==
  /\ a # Page /\ errand[a].step \in {"accepted", "failed"}
  /\ mailLog' = [mailLog EXCEPT ![errand[a].mail].status = Outcome(a)]
  /\ doc' = Written(errand[a].sees, Mailed(a))
  /\ linked' = WithToken(doc')
  /\ Does(a, NoErrand)
  /\ UNCHANGED <<files, left, confirmed, clock, requests>>

(***************************************************************************)
(* The surroundings.                                                       *)
(***************************************************************************)
(* A request is cut off: the process ends or the database refuses. *)
Lost(a) ==
  /\ errand[a] # NoErrand
  /\ Does(a, NoErrand)
  /\ UNCHANGED <<doc, files, mailLog, left, confirmed, linked, clock, requests>>

Tick ==
  /\ clock < MaxClock /\ clock' = clock + 1
  /\ UNCHANGED <<doc, files, errand, mailLog, left, confirmed, linked, requests>>

DocumentDeliveryInit ==
  /\ doc \in {[status |-> s, number |-> IF s = "draft" THEN "DRAFT" ELSE n, text |-> 0, token |-> None,
               path |-> None, generated |-> None, updated |-> 0] :
                s \in {"draft", "issued"}, n \in DocNumber}
  /\ files = [n \in Number |-> None]
  /\ errand = [a \in Actor |-> NoErrand]
  /\ mailLog = <<>> /\ left = {} /\ confirmed = {} /\ linked = {}
  /\ clock = 0 /\ requests = 0

DocumentDeliveryNext ==
  \/ Edit \/ Visit \/ Tick
  \/ \E kind \in MailKind, attach \in BOOLEAN : OpenMail(kind, attach)
  \/ QueueMail \/ RecordMail \/ MarkMailed
  \/ \E a \in Pool :
       \/ Issue(a) \/ ShowPdf(a, "page") \/ ShowPdf(a, "api")
       \/ \E withLink, attach \in BOOLEAN : OpenApiMail(a, withLink, attach)
       \/ FlushMail(a) \/ CommitApiMail(a) \/ RememberWithMail(a)
  \/ \E a \in Actor :
       \/ MarkPaid(a) \/ Revert(a)
       \/ \E what \in LinkOp : OpenLink(a, what)
       \/ CommitLink(a) \/ Store(a) \/ RememberPdf(a) \/ PdfFails(a)
       \/ SmtpAccepts(a) \/ SmtpFails(a) \/ Lost(a)

DocumentDeliverySpec == DocumentDeliveryInit /\ [][DocumentDeliveryNext]_deliveryVars

(***************************************************************************)
(* Properties.                                                             *)
(***************************************************************************)
(* The log says of no mail that it was sent unless it left, and of none that it
   failed whose sender was told that the server has it; what left through a page is
   in the log, whatever failed or ended after it.  A mail whose answer was lost is
   logged as an error although it left: the code cannot tell. *)
MailLog ==
  /\ \A m \in DOMAIN mailLog : mailLog[m].status = "sent" => m \in left
  /\ \A m \in confirmed : mailLog[m].status # "error"
  /\ \A m \in left : mailLog[m].by = "page" => mailLog[m].status # None

(* A token that was withdrawn or replaced is never the document's again: no
   request that read it earlier writes it back. *)
WithdrawnStaysWithdrawn ==
  [][ doc'.token \in linked => doc'.token = doc.token ]_deliveryVars

(* A stored file shows the number it is named after, although documents are
   reverted, issued again and rendered in threads at the same time. *)
FileOfNumber == \A n \in Number : files[n] # None => files[n].number = n

=============================================================================
