--------------------------- MODULE DocumentProofs ---------------------------
(***************************************************************************)
(* Proofs about what becomes of documents and their mails, for every set   *)
(* of threads, numbers, files and mails and every bound: DocumentDelivery, *)
(* BankMailbox and DocumentImport.                                         *)
(***************************************************************************)
EXTENDS DocumentDelivery, BankMailbox, DocumentImport,
        FiniteSetTheorems, WellFoundedInduction, TLAPS

-----------------------------------------------------------------------------
(***************************************************************************)
(* DocumentDelivery: the log of the mails, the stored files and the tokens *)
(* of public links.  DeliveryInv says what every request carries from the  *)
(* row it has read to the step it is at.                                   *)
(***************************************************************************)

(* What a request is doing, with everything it carries along. *)
By == {"page", "api"}
RenderStep == {"render", "stored"}
MailStep == {"smtp", "accepted", "failed"}
PlainRender == [step : RenderStep, by : By, then : {"end"}, sees : DocRow]
QueueRender == [step : RenderStep, by : {"page"}, then : {"queue"}, kind : MailKind, sees : DocRow]
ApiErrand   == [step : RenderStep \cup {"flush"}, by : {"api"}, then : {"flush"}, sees : DocRow, row : DocRow]
FlushErrand == [step : {"flush"}, by : {"api"}, sees : DocRow, row : DocRow]
PageErrand  == [step : {"queue", "mark"}, by : {"page"}, kind : MailKind]
PageMail    == [step : MailStep, by : {"page"}, kind : MailKind, mail : Nat]
ApiMail     == [step : MailStep, by : {"api"}, sees : DocRow, row : DocRow, mail : Nat]
LinkErrand  == [step : {"link"}, by : {"link"}, sees : DocRow, row : DocRow]
AnyErrand   == {NoErrand} \cup PlainRender \cup LinkErrand
PageErrands == AnyErrand \cup QueueRender \cup PageErrand \cup PageMail
PoolErrands == AnyErrand \cup ApiErrand \cup FlushErrand \cup ApiMail

(* The page mails for pages, the pool for the API. *)
DeliveryTypes ==
  /\ doc \in DocRow
  /\ files \in [Number -> Pdf \cup {None}]
  /\ errand \in [Actor -> PageErrands \cup PoolErrands]
  /\ errand[Page] \in PageErrands
  /\ \A a \in Pool : errand[a] \in PoolErrands
  /\ mailLog \in Seq(MailRow) /\ Len(mailLog) <= MaxMails
  /\ left \subseteq DOMAIN mailLog /\ confirmed \subseteq left
  /\ linked \subseteq Token
  /\ clock \in 0 .. MaxClock /\ requests \in 0 .. MaxRequests

-----------------------------------------------------------------------------
(* The operators on rows stay within the rows. *)
LEMMA StampedType ==
  ASSUME clock \in 0 .. MaxClock, NEW inv \in DocRow
  PROVE  Stamped(inv) \in DocRow
BY DEF Stamped, DocRow

LEMMA EnsuredType ==
  ASSUME NEW inv \in DocRow, NEW t \in Token
  PROVE  Ensured(inv, t) \in DocRow
BY DEF Ensured, DocRow

LEMMA WithPdfType ==
  ASSUME clock \in 0 .. MaxClock, NEW inv \in DocRow, NEW n \in Number
  PROVE  WithPdf(inv, n) \in DocRow
BY DEF WithPdf, DocRow

Merged(sees, inv) ==
  [f \in DOMAIN doc |-> IF f \in Changed(sees, inv) THEN inv[f] ELSE doc[f]]

LEMMA MergedType ==
  ASSUME doc \in DocRow, NEW sees \in DocRow, NEW inv \in DocRow
  PROVE  /\ Merged(sees, inv) \in DocRow
         /\ Merged(sees, inv).token = IF inv.token = sees.token THEN doc.token ELSE inv.token
<1>1. /\ DOMAIN doc = {"status", "number", "text", "token", "path", "generated", "updated"}
      /\ DOMAIN inv = {"status", "number", "text", "token", "path", "generated", "updated"}
  BY DEF DocRow
<1>2. DOMAIN Merged(sees, inv) = {"status", "number", "text", "token", "path", "generated", "updated"}
  BY <1>1 DEF Merged
<1>3. \A f \in {"status", "number", "text", "token", "path", "generated", "updated"} :
        Merged(sees, inv)[f] = IF inv[f] = sees[f] THEN doc[f] ELSE inv[f]
  BY <1>1 DEF Merged, Changed
<1>4. Merged(sees, inv) = [status |-> Merged(sees, inv).status, number |-> Merged(sees, inv).number,
        text |-> Merged(sees, inv).text, token |-> Merged(sees, inv).token, path |-> Merged(sees, inv).path,
        generated |-> Merged(sees, inv).generated, updated |-> Merged(sees, inv).updated]
  BY <1>2, <1>1 DEF Merged
<1> QED
  BY <1>3, <1>4 DEF DocRow

LEMMA WrittenType ==
  ASSUME DeliveryTypes, NEW sees \in DocRow, NEW inv \in DocRow
  PROVE  /\ Written(sees, inv) \in DocRow
         /\ Written(sees, inv).token = IF inv.token = sees.token THEN doc.token ELSE inv.token
<1>1. CASE Changed(sees, inv) = {}
  <2>1. "token" \in DOMAIN inv
    BY DEF DocRow
  <2> QED
    BY <1>1, <2>1 DEF Written, Changed, DeliveryTypes
<1>2. CASE Changed(sees, inv) # {}
  <2>1. Written(sees, inv) = Stamped(Merged(sees, inv))
    BY <1>2 DEF Written, Merged
  <2>2. /\ Merged(sees, inv) \in DocRow
        /\ Merged(sees, inv).token = IF inv.token = sees.token THEN doc.token ELSE inv.token
    BY MergedType DEF DeliveryTypes
  <2>3. Stamped(Merged(sees, inv)) \in DocRow
    BY <2>2, StampedType DEF DeliveryTypes
  <2>4. Stamped(Merged(sees, inv)).token = Merged(sees, inv).token
    BY <2>2 DEF Stamped, DocRow
  <2> QED
    BY <2>1, <2>2, <2>3, <2>4
<1> QED
  BY <1>1, <1>2

(* A request that goes on: the others stay where they are. *)
LEMMA DoesOne ==
  ASSUME DeliveryTypes, NEW a \in Actor, NEW e,
         a = Page => e \in PageErrands, a \in Pool => e \in PoolErrands,
         Does(a, e)
  PROVE  /\ errand' \in [Actor -> PageErrands \cup PoolErrands]
         /\ errand'[Page] \in PageErrands
         /\ \A b \in Pool : errand'[b] \in PoolErrands
         /\ errand'[a] = e
         /\ \A b \in Actor \ {a} : errand'[b] = errand[b]
BY DeliveryAssumption DEF DeliveryTypes, Does, Actor

(* What a step of a request that renders leaves to do. *)
LEMMA ContinuedType ==
  ASSUME DeliveryTypes, NEW a \in Actor, errand[a].step \in RenderStep, errand[a].then # "flush"
  PROVE  /\ a = Page => Continued(errand[a]) \in PageErrands
         /\ a \in Pool => Continued(errand[a]) \in PoolErrands
<1>1. a = Page => errand[a] \in PlainRender \cup QueueRender
  BY DEF DeliveryTypes, PageErrands, AnyErrand, PlainRender, QueueRender, PageErrand, PageMail,
         LinkErrand, NoErrand, RenderStep, MailStep
<1>2. a \in Pool => errand[a] \in PlainRender
  BY DEF DeliveryTypes, PoolErrands, AnyErrand, PlainRender, ApiErrand, FlushErrand, ApiMail,
         LinkErrand, NoErrand, RenderStep, MailStep
<1>3. ASSUME errand[a] \in PlainRender
      PROVE  Continued(errand[a]) = NoErrand
  BY <1>3 DEF PlainRender, Continued
<1>4. ASSUME errand[a] \in QueueRender
      PROVE  Continued(errand[a]) \in PageErrand
  BY <1>4 DEF QueueRender, Continued, PageErrand
<1> QED
  BY <1>1, <1>2, <1>3, <1>4, DeliveryAssumption DEF Actor, PageErrands, PoolErrands, AnyErrand

(* What the step of a request says about it. *)
LEMMA ErrandFacts ==
  ASSUME DeliveryTypes, NEW a \in Actor
  PROVE  /\ errand[a].step \in RenderStep =>
              /\ errand[a] \in PlainRender \cup QueueRender \cup ApiErrand
              /\ errand[a].sees \in DocRow
              /\ a = Page => errand[a] \in PlainRender \cup QueueRender
              /\ a \in Pool => errand[a] \in PlainRender \cup ApiErrand
         /\ errand[a].step \in MailStep =>
              /\ a = Page => errand[a] \in PageMail
              /\ a \in Pool => errand[a] \in ApiMail
         /\ errand[a].step = "flush" => a \in Pool /\ errand[a] \in ApiErrand \cup FlushErrand
         /\ errand[a].step \in {"queue", "mark"} => a = Page /\ errand[a] \in PageErrand
         /\ errand[a].step = "link" => errand[a] \in LinkErrand
<1>1. CASE a = Page
  <2>1. errand[a] \in PageErrands
    BY <1>1 DEF DeliveryTypes
  <2> QED
    BY <1>1, <2>1, DeliveryAssumption
    DEF PageErrands, AnyErrand, PlainRender, QueueRender, PageErrand, PageMail,
        LinkErrand, NoErrand, RenderStep, MailStep
<1>2. CASE a \in Pool
  <2>1. errand[a] \in PoolErrands
    BY <1>2 DEF DeliveryTypes
  <2> QED
    BY <1>2, <2>1, DeliveryAssumption
    DEF PoolErrands, AnyErrand, PlainRender, ApiErrand, FlushErrand, ApiMail,
        LinkErrand, NoErrand, RenderStep, MailStep
<1> QED
  BY <1>1, <1>2 DEF Actor

-----------------------------------------------------------------------------
(* Type correctness. *)
LEMMA DeliveryTypesInit == DocumentDeliveryInit => DeliveryTypes
<1> SUFFICES ASSUME DocumentDeliveryInit PROVE DeliveryTypes
  OBVIOUS
<1>1. doc \in DocRow
  BY DeliveryAssumption DEF DocumentDeliveryInit, DocRow, Number
<1>2. files \in [Number -> Pdf \cup {None}] /\ errand \in [Actor -> {NoErrand}]
  BY DEF DocumentDeliveryInit
<1>3. mailLog \in Seq(MailRow) /\ Len(mailLog) <= MaxMails /\ left \subseteq DOMAIN mailLog
      /\ confirmed \subseteq left
  BY DeliveryAssumption DEF DocumentDeliveryInit
<1>4. /\ linked \subseteq Token
      /\ clock \in 0 .. MaxClock /\ requests \in 0 .. MaxRequests
  BY DeliveryAssumption DEF DocumentDeliveryInit
<1> QED
  BY <1>1, <1>2, <1>3, <1>4 DEF DeliveryTypes, PageErrands, PoolErrands, AnyErrand, Actor

(* Types after a step of one request that writes what has its type. *)
LEMMA TypesAfter ==
  ASSUME DeliveryTypes, NEW a \in Actor, NEW e, Does(a, e),
         a = Page => e \in PageErrands, a \in Pool => e \in PoolErrands,
         doc' \in DocRow, files' \in [Number -> Pdf \cup {None}],
         mailLog' \in Seq(MailRow), Len(mailLog') <= MaxMails, left' \subseteq DOMAIN mailLog', confirmed' \subseteq left',
         linked' \subseteq Token, clock' = clock, requests' \in 0 .. MaxRequests
  PROVE  DeliveryTypes'
<1>1. /\ errand' \in [Actor -> PageErrands \cup PoolErrands]
      /\ errand'[Page] \in PageErrands
      /\ \A b \in Pool : errand'[b] \in PoolErrands
  BY DoesOne
<1> QED
  BY <1>1 DEF DeliveryTypes

LEMMA BeginsCounts ==
  ASSUME DeliveryTypes, NEW a \in Actor, Begins(a)
  PROVE  requests' \in 0 .. MaxRequests /\ requests' = FreshToken /\ FreshToken \in Token
BY DeliveryAssumption DEF DeliveryTypes, Begins, FreshToken, Token

LEMMA RegenerationType ==
  ASSUME NEW inv \in DocRow
  PROVE  Regeneration(inv) \in {NoErrand} \cup PlainRender
BY DEF Regeneration, Rendering, PlainRender, RenderStep, By

LEMMA SavesTypes ==
  ASSUME DeliveryTypes, NEW a \in Actor, Begins(a), NEW inv \in DocRow, Saves(a, inv), linked' = linked
  PROVE  DeliveryTypes' /\ doc' = Stamped(inv)
<1>1. Stamped(inv) \in DocRow
  BY StampedType DEF DeliveryTypes
<1>2. Does(a, Regeneration(Stamped(inv))) /\ doc' = Stamped(inv)
      /\ UNCHANGED <<files, mailLog, left, confirmed, clock>>
  BY DEF Saves
<1>3. Regeneration(Stamped(inv)) \in {NoErrand} \cup PlainRender
  BY <1>1, RegenerationType
<1>4. Regeneration(Stamped(inv)) \in PageErrands /\ Regeneration(Stamped(inv)) \in PoolErrands
  BY <1>3 DEF PageErrands, PoolErrands, AnyErrand
<1>5. requests' \in 0 .. MaxRequests
  BY BeginsCounts
<1> QED
  BY <1>1, <1>2, <1>4, <1>5, TypesAfter DEF DeliveryTypes

LEMMA ChangesStatusTypes ==
  ASSUME DeliveryTypes, NEW a \in Actor, NEW inv \in DocRow, ChangesStatus(a, inv)
  PROVE  DeliveryTypes' /\ doc' = Stamped(inv) /\ linked' = linked
<1>0. Begins(a) /\ linked' = linked
  BY DEF ChangesStatus
<1>1. CASE a = Page
  BY <1>0, <1>1, SavesTypes DEF ChangesStatus
<1>2. CASE a # Page
  <2>1. /\ doc' = Stamped(inv)
        /\ UNCHANGED <<files, errand, mailLog, left, confirmed, clock, linked>>
    BY <1>2 DEF ChangesStatus
  <2>2. Stamped(inv) \in DocRow
    BY StampedType DEF DeliveryTypes
  <2>3. requests' \in 0 .. MaxRequests
    BY <1>0, BeginsCounts
  <2> QED
    BY <2>1, <2>2, <2>3 DEF DeliveryTypes
<1> QED
  BY <1>0, <1>1, <1>2

LEMMA DraftRows ==
  ASSUME DeliveryTypes
  PROVE  /\ doc.text < MaxText => [doc EXCEPT !.text = @ + 1] \in DocRow
         /\ [doc EXCEPT !.status = "paid"] \in DocRow
         /\ [doc EXCEPT !.status = "sent"] \in DocRow
         /\ [doc EXCEPT !.status = "draft", !.number = "DRAFT", !.path = None, !.generated = None]
              \in DocRow
         /\ \A n \in DocNumber : [doc EXCEPT !.status = "issued", !.number = n] \in DocRow
         /\ \A t \in Token \cup {None} : [doc EXCEPT !.token = t] \in DocRow
<1>0. doc \in DocRow /\ MaxText \in Nat
  BY DeliveryAssumption DEF DeliveryTypes
<1>1. doc.text < MaxText => [doc EXCEPT !.text = @ + 1] \in DocRow
  BY <1>0 DEF DocRow
<1>2. /\ [doc EXCEPT !.status = "paid"] \in DocRow
      /\ [doc EXCEPT !.status = "sent"] \in DocRow
  BY <1>0 DEF DocRow
<1>3. [doc EXCEPT !.status = "draft", !.number = "DRAFT", !.path = None, !.generated = None] \in DocRow
  BY <1>0 DEF DocRow, Number
<1>4. \A n \in DocNumber : [doc EXCEPT !.status = "issued", !.number = n] \in DocRow
  BY <1>0 DEF DocRow, Number
<1>5. \A t \in Token \cup {None} : [doc EXCEPT !.token = t] \in DocRow
  BY <1>0 DEF DocRow
<1> QED
  BY <1>1, <1>2, <1>3, <1>4, <1>5

(* An issued document has its number and, at the latest now, its token. *)
LEMMA IssueTypes ==
  ASSUME DeliveryTypes, NEW a \in Pool, Issue(a)
  PROVE  /\ DeliveryTypes'
         /\ linked' = linked \cup {doc'.token}
         /\ doc'.token = IF doc.token = None THEN FreshToken ELSE doc.token
         /\ errand'[a] \in {NoErrand} \cup PlainRender
         /\ \A b \in Actor \ {a} : errand'[b] = errand[b]
<1>0. a \in Actor /\ FreshToken \in Token /\ requests' \in 0 .. MaxRequests /\ errand[a] = NoErrand
  BY BeginsCounts DEF Issue, Actor, Begins
<1>1. PICK n \in DocNumber :
        doc' = Stamped(Ensured([doc EXCEPT !.status = "issued", !.number = n], FreshToken))
  BY DEF Issue
<1>2. [doc EXCEPT !.status = "issued", !.number = n] \in DocRow
  BY DraftRows
<1>3. Ensured([doc EXCEPT !.status = "issued", !.number = n], FreshToken) \in DocRow
  BY <1>0, <1>2, EnsuredType
<1>4. doc' \in DocRow
  BY <1>1, <1>3, StampedType DEF DeliveryTypes
<1>5. doc'.token = IF doc.token = None THEN FreshToken ELSE doc.token
  BY <1>1, <1>2, <1>3 DEF DeliveryTypes, DocRow, Ensured, Stamped
<1>6. linked' = linked \cup {doc'.token} /\ linked' \subseteq Token
  BY <1>0, <1>4, <1>5 DEF Issue, DeliveryTypes, DocRow
<1>7. UNCHANGED <<files, mailLog, left, confirmed, clock>>
  BY DEF Issue
<1>8. CASE Does(a, Regeneration(doc'))
  <2>1. Regeneration(doc') \in {NoErrand} \cup PlainRender
    BY <1>4, RegenerationType
  <2>2. Regeneration(doc') \in PageErrands /\ Regeneration(doc') \in PoolErrands
    BY <2>1 DEF PageErrands, PoolErrands, AnyErrand
  <2>3. DeliveryTypes'
    BY <1>0, <1>4, <1>6, <1>7, <1>8, <2>2, TypesAfter DEF DeliveryTypes
  <2>4. errand'[a] = Regeneration(doc') /\ \A b \in Actor \ {a} : errand'[b] = errand[b]
    BY <1>0, <1>8, <2>2, DoesOne
  <2> QED
    BY <1>5, <1>6, <2>1, <2>3, <2>4
<1>9. CASE UNCHANGED errand
  BY <1>0, <1>4, <1>5, <1>6, <1>7, <1>9 DEF DeliveryTypes
<1> QED
  BY <1>8, <1>9 DEF Issue

(* Requests that open: what they carry is what the row says. *)
LEMMA OpenTypes ==
  ASSUME DeliveryTypes
  PROVE  /\ \A a \in Actor, by \in By : ShowPdf(a, by) =>
              DeliveryTypes' /\ errand'[a] \in {NoErrand} \cup PlainRender
         /\ \A a \in Actor, what \in LinkOp : OpenLink(a, what) =>
              /\ DeliveryTypes' /\ errand'[a] \in LinkErrand /\ errand'[a].sees = doc
              /\ errand'[a].row.token \in {doc.token, None, FreshToken}
         /\ \A kind \in MailKind, attach \in BOOLEAN : OpenMail(kind, attach) =>
              DeliveryTypes' /\ errand'[Page] \in PageErrand \cup QueueRender
                             /\ errand'[Page].step \in {"queue", "render"}
         /\ \A a \in Pool, withLink, attach \in BOOLEAN : OpenApiMail(a, withLink, attach) =>
              /\ DeliveryTypes' /\ errand'[a] \in ApiErrand /\ errand'[a].sees = doc
              /\ errand'[a].step \in {"flush", "render"}
              /\ errand'[a].row.token \in {doc.token, FreshToken}
<1>0. doc \in DocRow
  BY DEF DeliveryTypes
<1>1. ASSUME NEW a \in Actor, NEW by \in By, ShowPdf(a, by)
      PROVE  DeliveryTypes' /\ errand'[a] \in {NoErrand} \cup PlainRender
  <2> DEFINE e == IF Reusable(by, doc) \/ IsDraft(doc) THEN NoErrand ELSE Rendering(by, "end", doc)
  <2>0. Rendering(by, "end", doc) \in PlainRender
    BY <1>0 DEF Rendering, PlainRender, RenderStep
  <2>a. e = NoErrand \/ e = Rendering(by, "end", doc)
    BY Zenon
  <2>1. e \in {NoErrand} \cup PlainRender
    BY <2>0, <2>a, Zenon
  <2>2. e \in PageErrands /\ e \in PoolErrands
    BY <2>1 DEF PageErrands, PoolErrands, AnyErrand
  <2>3. Does(a, e) /\ UNCHANGED <<doc, files, mailLog, left, confirmed, linked, clock>> /\ Begins(a)
    BY <1>1 DEF ShowPdf
  <2> HIDE DEF e
  <2> QED
    BY <2>1, <2>2, <2>3, BeginsCounts, TypesAfter, DoesOne DEF DeliveryTypes
<1>2. ASSUME NEW a \in Actor, NEW what \in LinkOp, OpenLink(a, what)
      PROVE  /\ DeliveryTypes' /\ errand'[a] \in LinkErrand /\ errand'[a].sees = doc
             /\ errand'[a].row.token \in {doc.token, None, FreshToken}
  <2> DEFINE row == CASE what = "enable"  -> Ensured(doc, FreshToken)
                      [] what = "rotate"  -> [doc EXCEPT !.token = FreshToken]
                      [] what = "disable" -> [doc EXCEPT !.token = None]
             e == [step |-> "link", by |-> "link", sees |-> doc, row |-> row]
  <2>0. Begins(a) /\ FreshToken \in Token /\ requests' \in 0 .. MaxRequests
    BY <1>2, BeginsCounts DEF OpenLink
  <2>1. row \in DocRow /\ row.token \in {doc.token, None, FreshToken}
    <3>1. CASE what = "enable"
      <4>1. row = Ensured(doc, FreshToken)
        BY <3>1
      <4> HIDE DEF row
      <4> QED
        BY <4>1, <1>0, <2>0, EnsuredType DEF Ensured, DocRow
    <3>2. CASE what = "rotate"
      <4>1. row = [doc EXCEPT !.token = FreshToken]
        BY <3>2
      <4>2. row \in DocRow
        BY <2>0, <4>1, DraftRows
      <4> HIDE DEF row
      <4> QED
        BY <4>1, <4>2, <1>0 DEF DocRow
    <3>3. CASE what = "disable"
      <4>1. row = [doc EXCEPT !.token = None]
        BY <3>3
      <4>2. row \in DocRow
        BY <4>1, DraftRows
      <4> HIDE DEF row
      <4> QED
        BY <4>1, <4>2, <1>0 DEF DocRow
    <3> QED
      BY <3>1, <3>2, <3>3 DEF LinkOp
  <2>2. Does(a, e) /\ UNCHANGED <<doc, files, mailLog, left, confirmed, linked, clock>>
    BY <1>2 DEF OpenLink
  <2> HIDE DEF row
  <2>3. e \in LinkErrand /\ e.sees = doc /\ e.row = row
    BY <1>0, <2>1 DEF LinkErrand
  <2>4. e \in PageErrands /\ e \in PoolErrands
    BY <2>3 DEF PageErrands, PoolErrands, AnyErrand
  <2> HIDE DEF e
  <2>5. DeliveryTypes' /\ errand'[a] = e
    BY <2>0, <2>2, <2>4, TypesAfter, DoesOne DEF DeliveryTypes
  <2> QED
    BY <2>1, <2>3, <2>5
<1>3. ASSUME NEW kind \in MailKind, NEW attach \in BOOLEAN, OpenMail(kind, attach)
      PROVE  DeliveryTypes' /\ errand'[Page] \in PageErrand \cup QueueRender
                            /\ errand'[Page].step \in {"queue", "render"}
  <2> DEFINE e == IF attach /\ ~Reusable("page", doc)
                  THEN [step |-> "render", by |-> "page", then |-> "queue", kind |-> kind, sees |-> doc]
                  ELSE [step |-> "queue", by |-> "page", kind |-> kind]
  <2>1. e \in PageErrand \cup QueueRender /\ e.step \in {"queue", "render"}
    BY <1>0 DEF PageErrand, QueueRender, RenderStep
  <2>2. e \in PageErrands
    BY <2>1 DEF PageErrands
  <2>3. Does(Page, e) /\ UNCHANGED <<doc, files, mailLog, left, confirmed, linked, clock>> /\ Begins(Page)
    BY <1>3 DEF OpenMail
  <2> HIDE DEF e
  <2>4. Page \in Actor /\ Page \notin Pool
    BY DeliveryAssumption DEF Actor
  <2>5. requests' \in 0 .. MaxRequests
    BY <2>3, <2>4, BeginsCounts
  <2>6. DeliveryTypes' /\ errand'[Page] = e
    BY <2>2, <2>3, <2>4, <2>5, TypesAfter, DoesOne DEF DeliveryTypes
  <2> QED
    BY <2>1, <2>6
<1>4. ASSUME NEW a \in Pool, NEW withLink \in BOOLEAN, NEW attach \in BOOLEAN,
             OpenApiMail(a, withLink, attach)
      PROVE  /\ DeliveryTypes' /\ errand'[a] \in ApiErrand /\ errand'[a].sees = doc
             /\ errand'[a].step \in {"flush", "render"}
             /\ errand'[a].row.token \in {doc.token, FreshToken}
  <2> DEFINE inv == IF withLink THEN Ensured(doc, FreshToken) ELSE doc
             e == [step |-> IF attach /\ ~Reusable("api", doc) THEN "render" ELSE "flush",
                   by |-> "api", then |-> "flush", sees |-> doc, row |-> inv]
  <2>0. /\ a \in Actor /\ a # Page /\ Begins(a)
        /\ FreshToken \in Token /\ requests' \in 0 .. MaxRequests
    BY <1>4, BeginsCounts, DeliveryAssumption DEF OpenApiMail, Actor
  <2>1. inv \in DocRow /\ inv.token \in {doc.token, FreshToken}
    BY <1>0, <2>0, EnsuredType DEF Ensured, DocRow
  <2>2. Does(a, e) /\ UNCHANGED <<doc, files, mailLog, left, confirmed, linked, clock>>
    BY <1>4 DEF OpenApiMail
  <2> HIDE DEF inv
  <2>3. e \in ApiErrand /\ e.sees = doc /\ e.row = inv /\ e.step \in {"flush", "render"}
    BY <1>0, <2>1 DEF ApiErrand, RenderStep
  <2>4. e \in PoolErrands
    BY <2>3 DEF PoolErrands
  <2> HIDE DEF e
  <2>5. DeliveryTypes' /\ errand'[a] = e
    BY <2>0, <2>2, <2>4, TypesAfter, DoesOne DEF DeliveryTypes
  <2> QED
    BY <2>1, <2>3, <2>5
<1> QED
  BY <1>1, <1>2, <1>3, <1>4

LEMMA StepTypes ==
  ASSUME DeliveryTypes, NEW a \in Actor
  PROVE  /\ Store(a) => DeliveryTypes'
         /\ RememberPdf(a) => DeliveryTypes' /\ linked' = linked /\ doc'.token = doc.token
         /\ PdfFails(a) => DeliveryTypes'
         /\ CommitLink(a) => DeliveryTypes'
         /\ Lost(a) => DeliveryTypes'
<1>0. doc \in DocRow /\ (a = Page => a \notin Pool) /\ (a # Page => a \in Pool)
  BY DeliveryAssumption DEF DeliveryTypes, Actor
<1>1. ASSUME Store(a) PROVE DeliveryTypes'
  <2>1. errand[a].step \in RenderStep
    BY <1>1 DEF Store, RenderStep
  <2> DEFINE e == [errand[a] EXCEPT !.step = "stored"]
  <2>2. a = Page => e \in PageErrands
    <3>1. errand[a] \in PlainRender => e \in PlainRender
      BY DEF PlainRender, RenderStep
    <3>2. errand[a] \in QueueRender => e \in QueueRender
      BY DEF QueueRender, RenderStep
    <3> QED
      BY <2>1, <3>1, <3>2, ErrandFacts DEF PageErrands, AnyErrand
  <2>3. a \in Pool => e \in PoolErrands
    <3>1. errand[a] \in PlainRender => e \in PlainRender
      BY DEF PlainRender, RenderStep
    <3>2. errand[a] \in ApiErrand => e \in ApiErrand
      BY DEF ApiErrand, RenderStep
    <3> QED
      BY <2>1, <3>1, <3>2, ErrandFacts DEF PoolErrands, AnyErrand
  <2>4. errand[a].sees \in DocRow
    BY <2>1, ErrandFacts
  <2>5. files' \in [Number -> Pdf \cup {None}]
    <3>1. PdfOf(errand[a].sees) \in Pdf
      BY <2>4 DEF PdfOf, Pdf, DocRow
    <3> QED
      BY <1>1, <3>1 DEF Store, DeliveryTypes
  <2>6. Does(a, e) /\ UNCHANGED <<doc, mailLog, left, confirmed, linked, clock, requests>>
    BY <1>1 DEF Store
  <2> QED
    BY <2>2, <2>3, <2>5, <2>6, TypesAfter DEF DeliveryTypes
<1>2. ASSUME RememberPdf(a) PROVE DeliveryTypes' /\ linked' = linked /\ doc'.token = doc.token
  <2> DEFINE sees == errand[a].sees
             inv == WithPdf(sees, sees.number)
  <2>1. errand[a].step \in RenderStep /\ errand[a].then # "flush"
    BY <1>2 DEF RememberPdf, RenderStep
  <2>2. sees \in DocRow
    BY <2>1, ErrandFacts
  <2>3. inv \in DocRow /\ inv.token = sees.token
    <3>1. sees.number \in Number
      BY <2>2 DEF DocRow
    <3>2. inv \in DocRow
      BY <2>2, <3>1, WithPdfType DEF DeliveryTypes
    <3> QED
      BY <2>2, <3>2 DEF WithPdf, DocRow
  <2>4. doc' = Written(sees, inv) /\ Does(a, Continued(errand[a]))
        /\ UNCHANGED <<files, mailLog, left, confirmed, linked, clock, requests>>
    BY <1>2 DEF RememberPdf
  <2> HIDE DEF sees, inv
  <2>5. doc' \in DocRow /\ doc'.token = doc.token
    BY <2>2, <2>3, <2>4, WrittenType
  <2> QED
    BY <2>1, <2>4, <2>5, ContinuedType, TypesAfter DEF DeliveryTypes
<1>3. ASSUME PdfFails(a) PROVE DeliveryTypes'
  <2>1. errand[a].step \in RenderStep /\ errand[a].by = "page"
        /\ Does(a, Continued(errand[a]))
        /\ UNCHANGED <<doc, files, mailLog, left, confirmed, linked, clock, requests>>
    BY <1>3 DEF PdfFails, RenderStep
  <2>2. errand[a].then # "flush"
    <3>1. errand[a] \in PlainRender \cup QueueRender \cup ApiErrand
      BY <2>1, ErrandFacts
    <3> QED
      BY <2>1, <3>1 DEF PlainRender, QueueRender, ApiErrand
  <2> QED
    BY <2>1, <2>2, ContinuedType, TypesAfter DEF DeliveryTypes
<1>4. ASSUME CommitLink(a) PROVE DeliveryTypes'
  <2>1. errand[a] \in LinkErrand
    BY <1>4, ErrandFacts DEF CommitLink
  <2>2. errand[a].sees \in DocRow /\ errand[a].row \in DocRow
    BY <2>1 DEF LinkErrand
  <2>3. /\ doc' = Written(errand[a].sees, errand[a].row) /\ linked' = WithToken(doc')
        /\ Does(a, NoErrand) /\ UNCHANGED <<files, mailLog, left, confirmed, clock, requests>>
    BY <1>4 DEF CommitLink
  <2>4. doc' \in DocRow
    BY <2>2, <2>3, WrittenType
  <2>5. linked' \subseteq Token
    BY <2>3, <2>4 DEF WithToken, DeliveryTypes, DocRow
  <2>6. NoErrand \in PageErrands /\ NoErrand \in PoolErrands
    BY DEF PageErrands, PoolErrands, AnyErrand
  <2> QED
    BY <2>3, <2>4, <2>5, <2>6, TypesAfter DEF DeliveryTypes
<1>5. ASSUME Lost(a) PROVE DeliveryTypes'
  <2>1. NoErrand \in PageErrands /\ NoErrand \in PoolErrands
    BY DEF PageErrands, PoolErrands, AnyErrand
  <2> QED
    BY <1>5, <2>1, TypesAfter DEF Lost, DeliveryTypes
<1> QED
  BY <1>1, <1>2, <1>3, <1>4, <1>5

(* Where the mails are: what is at the mail server, and what its row says. *)
MailsOK ==
  /\ \A a \in Actor : errand[a].step \in MailStep =>
       /\ errand[a].mail \in DOMAIN mailLog
       /\ mailLog[errand[a].mail].by = errand[a].by
       /\ mailLog[errand[a].mail].status = IF errand[a].by = "page" THEN "queued" ELSE None
       /\ errand[a].step = "accepted" <=> errand[a].mail \in confirmed
  /\ \A a, b \in Actor :
       errand[a].step \in MailStep /\ errand[b].step \in MailStep /\ a # b
         => errand[a].mail # errand[b].mail
  /\ MailLog

LEMMA LogRow ==
  ASSUME DeliveryTypes, NEW m \in DOMAIN mailLog, NEW s \in {None, "queued", "sent", "error"},
         mailLog' = [mailLog EXCEPT ![m].status = s]
  PROVE  /\ mailLog' \in Seq(MailRow)
         /\ DOMAIN mailLog' = DOMAIN mailLog /\ Len(mailLog') = Len(mailLog)
         /\ mailLog'[m].status = s /\ mailLog'[m].by = mailLog[m].by
         /\ \A n \in DOMAIN mailLog \ {m} : mailLog'[n] = mailLog[n]
<1>1. mailLog \in Seq(MailRow) /\ DOMAIN mailLog = 1 .. Len(mailLog) /\ Len(mailLog) \in Nat
  BY DEF DeliveryTypes
<1>2. mailLog[m] \in MailRow /\ m \in Nat
  BY <1>1
<1>3. /\ [mailLog[m] EXCEPT !.status = s] \in MailRow
      /\ [mailLog[m] EXCEPT !.status = s].status = s
      /\ [mailLog[m] EXCEPT !.status = s].by = mailLog[m].by
  BY <1>2 DEF MailRow
<1>4. mailLog' = [mailLog EXCEPT ![m] = [mailLog[m] EXCEPT !.status = s]]
  BY <1>1
<1> QED
  BY <1>1, <1>2, <1>3, <1>4

(* A step that leaves the mails alone and begins none. *)
LEMMA MailsUndisturbed ==
  ASSUME DeliveryTypes, MailsOK, NEW a \in Actor,
         \A b \in Actor \ {a} : errand'[b] = errand[b],
         errand'[a].step \notin MailStep \/ errand'[a] = errand[a],
         mailLog' = mailLog, left' = left, confirmed' = confirmed
  PROVE  MailsOK'
<1>1. \A b \in Actor : errand'[b].step \in MailStep => errand'[b] = errand[b]
  OBVIOUS
<1>2. MailLog'
  BY DEF MailsOK, MailLog
<1>3. \A b \in Actor : errand'[b].step \in MailStep =>
        /\ errand'[b].mail \in DOMAIN mailLog'
        /\ mailLog'[errand'[b].mail].by = errand'[b].by
        /\ mailLog'[errand'[b].mail].status = IF errand'[b].by = "page" THEN "queued" ELSE None
        /\ errand'[b].step = "accepted" <=> errand'[b].mail \in confirmed'
  BY <1>1 DEF MailsOK
<1>4. \A b, c \in Actor :
        errand'[b].step \in MailStep /\ errand'[c].step \in MailStep /\ b # c
          => errand'[b].mail # errand'[c].mail
  BY <1>1 DEF MailsOK
<1> QED
  BY <1>2, <1>3, <1>4 DEF MailsOK

(* A row is written and its mail goes to the server. *)
LEMMA MailBegun ==
  ASSUME DeliveryTypes, MailsOK, NEW a \in Actor, NEW e, NEW s \in {None, "queued"},
         errand'[a] = e, \A b \in Actor \ {a} : errand'[b] = errand[b],
         e.step = "smtp", e.by \in By, e.mail = Len(mailLog) + 1,
         s = IF e.by = "page" THEN "queued" ELSE None,
         mailLog' = Append(mailLog, [by |-> e.by, status |-> s]), left' = left, confirmed' = confirmed
  PROVE  MailsOK'
<1>0. /\ mailLog \in Seq(MailRow) /\ Len(mailLog) \in Nat /\ DOMAIN mailLog = 1 .. Len(mailLog)
      /\ left \subseteq DOMAIN mailLog /\ confirmed \subseteq left
  BY DEF DeliveryTypes
<1>1. /\ DOMAIN mailLog' = DOMAIN mailLog \cup {Len(mailLog) + 1}
      /\ \A m \in DOMAIN mailLog : mailLog'[m] = mailLog[m]
      /\ mailLog'[Len(mailLog) + 1] = [by |-> e.by, status |-> s]
      /\ Len(mailLog) + 1 \notin DOMAIN mailLog
  BY <1>0
<1>2. mailLog'[Len(mailLog) + 1].status = s /\ mailLog'[Len(mailLog) + 1].by = e.by
  BY <1>1
<1>3. MailLog'
  <2>1. \A m \in DOMAIN mailLog' : mailLog'[m].status = "sent" => m \in left'
    BY <1>1, <1>2, DeliveryAssumption DEF MailsOK, MailLog
  <2>2. \A m \in confirmed' : mailLog'[m].status # "error"
    BY <1>0, <1>1 DEF MailsOK, MailLog
  <2>3. \A m \in left' : mailLog'[m].by = "page" => mailLog'[m].status # None
    BY <1>0, <1>1 DEF MailsOK, MailLog
  <2> QED
    BY <2>1, <2>2, <2>3 DEF MailLog
<1>4. \A b \in Actor \ {a} : errand'[b].step \in MailStep => errand'[b].mail \in DOMAIN mailLog
  BY DEF MailsOK
<1>5. ASSUME NEW b \in Actor, errand'[b].step \in MailStep
      PROVE  /\ errand'[b].mail \in DOMAIN mailLog'
             /\ mailLog'[errand'[b].mail].by = errand'[b].by
             /\ mailLog'[errand'[b].mail].status = IF errand'[b].by = "page" THEN "queued" ELSE None
             /\ errand'[b].step = "accepted" <=> errand'[b].mail \in confirmed'
  <2>1. CASE b = a
    BY <1>0, <1>1, <1>2, <2>1
  <2>2. CASE b # a
    BY <1>1, <1>4, <1>5, <2>2 DEF MailsOK
  <2> QED
    BY <2>1, <2>2
<1>6. \A b, c \in Actor :
        errand'[b].step \in MailStep /\ errand'[c].step \in MailStep /\ b # c
          => errand'[b].mail # errand'[c].mail
  BY <1>1, <1>4 DEF MailsOK
<1> QED
  BY <1>3, <1>5, <1>6 DEF MailsOK

(* The row gets the outcome and the request is through with the mail. *)
LEMMA MailRecorded ==
  ASSUME DeliveryTypes, MailsOK, NEW a \in Actor,
         errand[a].step \in {"accepted", "failed"},
         \A b \in Actor \ {a} : errand'[b] = errand[b], errand'[a].step \notin MailStep,
         mailLog' = [mailLog EXCEPT ![errand[a].mail].status = Outcome(a)], left' = left, confirmed' = confirmed
  PROVE  MailsOK'
<1> DEFINE m == errand[a].mail
<1>0. /\ m \in DOMAIN mailLog /\ errand[a].step \in MailStep
      /\ Outcome(a) = (IF m \in confirmed THEN "sent" ELSE "error")
  <2>1. errand[a].step \in MailStep
    BY DEF MailStep
  <2>2. m \in DOMAIN mailLog /\ (errand[a].step = "accepted" <=> m \in confirmed)
    BY <2>1 DEF MailsOK
  <2> QED
    BY <2>1, <2>2 DEF Outcome
<1>1. /\ DOMAIN mailLog' = DOMAIN mailLog
      /\ mailLog'[m].status = (IF m \in confirmed THEN "sent" ELSE "error")
      /\ mailLog'[m].by = mailLog[m].by
      /\ \A n \in DOMAIN mailLog \ {m} : mailLog'[n] = mailLog[n]
  <2>1. PICK s \in {None, "queued", "sent", "error"} : s = Outcome(a)
    BY <1>0
  <2>2. mailLog' = [mailLog EXCEPT ![m].status = s]
    BY <2>1
  <2> QED
    BY <1>0, <2>1, <2>2, LogRow
<1>2. MailLog'
  <2>1. left' \subseteq DOMAIN mailLog /\ confirmed' \subseteq left'
    BY DEF DeliveryTypes
  <2>2. ASSUME NEW k \in DOMAIN mailLog', mailLog'[k].status = "sent" PROVE k \in left'
    <3>1. CASE k = m
      BY <1>1, <2>1, <2>2, <3>1
    <3>2. CASE k # m
      BY <1>1, <2>2, <3>2 DEF MailsOK, MailLog
    <3> QED
      BY <3>1, <3>2
  <2>3. \A k \in confirmed' : mailLog'[k].status # "error"
    BY <1>1, <2>1 DEF MailsOK, MailLog
  <2>4. \A k \in left' : mailLog'[k].by = "page" => mailLog'[k].status # None
    BY <1>1, <2>1, DeliveryAssumption DEF MailsOK, MailLog
  <2> QED
    BY <2>2, <2>3, <2>4 DEF MailLog
<1>3. \A b \in Actor : errand'[b].step \in MailStep =>
        /\ b # a /\ errand'[b] = errand[b] /\ errand[b].mail # m /\ errand[b].mail \in DOMAIN mailLog
  BY <1>0 DEF MailsOK
<1>4. ASSUME NEW b \in Actor, errand'[b].step \in MailStep
      PROVE  /\ errand'[b].mail \in DOMAIN mailLog'
             /\ mailLog'[errand'[b].mail].by = errand'[b].by
             /\ mailLog'[errand'[b].mail].status = IF errand'[b].by = "page" THEN "queued" ELSE None
             /\ errand'[b].step = "accepted" <=> errand'[b].mail \in confirmed'
  BY <1>1, <1>3, <1>4 DEF MailsOK
<1>5. \A b, c \in Actor :
        errand'[b].step \in MailStep /\ errand'[c].step \in MailStep /\ b # c
          => errand'[b].mail # errand'[c].mail
  BY <1>3 DEF MailsOK
<1> QED
  BY <1>2, <1>4, <1>5 DEF MailsOK

(* The steps of the mails. *)
LEMMA MailSteps ==
  ASSUME DeliveryTypes, MailsOK
  PROVE  /\ QueueMail => DeliveryTypes' /\ MailsOK' /\ errand'[Page] \in PageMail
         /\ \A a \in Pool : FlushMail(a) =>
              /\ DeliveryTypes' /\ MailsOK' /\ errand'[a] \in ApiMail
              /\ errand'[a].sees = errand[a].sees /\ errand'[a].row = errand[a].row
         /\ \A a \in Actor : SmtpAccepts(a) \/ SmtpFails(a) =>
              /\ DeliveryTypes' /\ MailsOK'
              /\ errand'[a] = [errand[a] EXCEPT !.step = errand'[a].step]
              /\ errand'[a].step \in MailStep
<1>0. /\ Page \in Actor /\ Page \notin Pool /\ Pool \subseteq Actor
      /\ \A a \in Actor : a # Page => a \in Pool
      /\ mailLog \in Seq(MailRow) /\ Len(mailLog) \in Nat /\ MaxMails \in Nat
      /\ left \subseteq DOMAIN mailLog /\ confirmed \subseteq left
  BY DeliveryAssumption DEF Actor, DeliveryTypes
<1>1. ASSUME QueueMail PROVE DeliveryTypes' /\ MailsOK' /\ errand'[Page] \in PageMail
  <2> DEFINE e == [step |-> "smtp", by |-> "page", kind |-> errand[Page].kind, mail |-> Len(mailLog) + 1]
  <2>1. errand[Page] \in PageErrand
    BY <1>0, <1>1, ErrandFacts DEF QueueMail
  <2>2. e \in PageMail /\ e \in PageErrands
    BY <1>0, <2>1 DEF PageErrand, PageMail, PageErrands, MailStep
  <2>3. /\ mailLog' = Append(mailLog, [by |-> "page", status |-> "queued"]) /\ Len(mailLog) < MaxMails
        /\ Does(Page, e) /\ UNCHANGED <<doc, files, left, confirmed, linked, clock, requests>>
    BY <1>1 DEF QueueMail
  <2>4. /\ [by |-> "page", status |-> "queued"] \in MailRow
        /\ e.step = "smtp" /\ e.by = "page" /\ e.mail = Len(mailLog) + 1
    BY DEF MailRow
  <2> HIDE DEF e
  <2>5. /\ mailLog' \in Seq(MailRow) /\ Len(mailLog') <= MaxMails /\ left' \subseteq DOMAIN mailLog'
        /\ confirmed' \subseteq left'
    BY <1>0, <2>3, <2>4
  <2>6. DeliveryTypes'
    BY <1>0, <2>2, <2>3, <2>5, TypesAfter DEF DeliveryTypes
  <2>7. errand'[Page] = e /\ \A b \in Actor \ {Page} : errand'[b] = errand[b]
    BY <1>0, <2>2, <2>3, DoesOne
  <2>8. mailLog' = Append(mailLog, [by |-> e.by, status |-> "queued"])
    BY <2>3, <2>4
  <2>9. MailsOK'
    BY <1>0, <2>3, <2>4, <2>7, <2>8, MailBegun DEF By
  <2> QED
    BY <2>2, <2>6, <2>7, <2>9
<1>2. ASSUME NEW a \in Pool, FlushMail(a)
      PROVE  /\ DeliveryTypes' /\ MailsOK' /\ errand'[a] \in ApiMail
             /\ errand'[a].sees = errand[a].sees /\ errand'[a].row = errand[a].row
  <2> DEFINE e == [step |-> "smtp", by |-> "api", sees |-> errand[a].sees, row |-> errand[a].row,
                   mail |-> Len(mailLog) + 1]
  <2>1. errand[a] \in ApiErrand \cup FlushErrand
    BY <1>0, <1>2, ErrandFacts DEF FlushMail
  <2>2. e \in ApiMail /\ e \in PoolErrands /\ e.sees = errand[a].sees /\ e.row = errand[a].row
    BY <1>0, <2>1 DEF ApiErrand, FlushErrand, ApiMail, PoolErrands, MailStep
  <2>3. /\ mailLog' = Append(mailLog, [by |-> "api", status |-> None]) /\ Len(mailLog) < MaxMails
        /\ Does(a, e) /\ UNCHANGED <<doc, files, left, confirmed, linked, clock, requests>>
    BY <1>2 DEF FlushMail
  <2>4. /\ [by |-> "api", status |-> None] \in MailRow
        /\ e.step = "smtp" /\ e.by = "api" /\ e.mail = Len(mailLog) + 1
    BY DEF MailRow
  <2> HIDE DEF e
  <2>5. /\ mailLog' \in Seq(MailRow) /\ Len(mailLog') <= MaxMails /\ left' \subseteq DOMAIN mailLog'
        /\ confirmed' \subseteq left'
    BY <1>0, <2>3, <2>4
  <2>6. DeliveryTypes'
    BY <1>0, <2>2, <2>3, <2>5, TypesAfter DEF DeliveryTypes
  <2>7. errand'[a] = e /\ \A b \in Actor \ {a} : errand'[b] = errand[b]
    BY <1>0, <2>2, <2>3, DoesOne
  <2>8. mailLog' = Append(mailLog, [by |-> e.by, status |-> None])
    BY <2>3, <2>4
  <2>9. MailsOK'
    BY <1>0, <2>3, <2>4, <2>7, <2>8, MailBegun DEF By
  <2> QED
    BY <2>2, <2>6, <2>7, <2>9
<1>3. ASSUME NEW a \in Actor, SmtpAccepts(a) \/ SmtpFails(a)
      PROVE  /\ DeliveryTypes' /\ MailsOK'
             /\ errand'[a] = [errand[a] EXCEPT !.step = errand'[a].step]
             /\ errand'[a].step \in MailStep
  <2>1. PICK s \in {"accepted", "failed"} :
          /\ Does(a, [errand[a] EXCEPT !.step = s])
          /\ left' \in {left, left \cup {errand[a].mail}}
          /\ s = "accepted" => left' = left \cup {errand[a].mail}
          /\ confirmed' = IF s = "accepted" THEN confirmed \cup {errand[a].mail} ELSE confirmed
    BY <1>3 DEF SmtpAccepts, SmtpFails
  <2>2. errand[a].step = "smtp" /\ UNCHANGED <<doc, files, mailLog, linked, clock, requests>>
    BY <1>3 DEF SmtpAccepts, SmtpFails
  <2> DEFINE e == [errand[a] EXCEPT !.step = s]
             m == errand[a].mail
  <2>3. errand[a] \in PageMail => e \in PageMail /\ e.step = s /\ e.by = errand[a].by /\ e.mail = m
    BY DEF PageMail, MailStep
  <2>4. errand[a] \in ApiMail => e \in ApiMail /\ e.step = s /\ e.by = errand[a].by /\ e.mail = m
    BY DEF ApiMail, MailStep
  <2>5. /\ a = Page => e \in PageErrands
        /\ a \in Pool => e \in PoolErrands
        /\ e.step = s /\ e.by = errand[a].by /\ e.mail = m
    BY <1>0, <2>2, <2>3, <2>4, ErrandFacts DEF PageErrands, PoolErrands, MailStep
  <2>6. Does(a, e)
    BY <2>1
  <2>7. m \in DOMAIN mailLog
    BY <2>2 DEF MailsOK, MailStep
  <2>8. /\ left \subseteq left' /\ left' \subseteq left \cup {m} /\ left' \subseteq DOMAIN mailLog'
        /\ confirmed' = (IF s = "accepted" THEN confirmed \cup {m} ELSE confirmed)
        /\ confirmed' \subseteq left'
    BY <1>0, <2>1, <2>2, <2>7
  <2>9. e = [errand[a] EXCEPT !.step = s]
    OBVIOUS
  <2> HIDE DEF e
  <2>10. DeliveryTypes'
    BY <1>0, <2>2, <2>5, <2>6, <2>8, TypesAfter DEF DeliveryTypes
  <2>11. errand'[a] = e /\ \A b \in Actor \ {a} : errand'[b] = errand[b]
    BY <2>5, <2>6, DoesOne
  <2>12. /\ mailLog[m].by = e.by /\ mailLog[m].status = IF e.by = "page" THEN "queued" ELSE None
         /\ m \notin confirmed
    BY <2>2, <2>5 DEF MailsOK, MailStep
  <2>13. \A b \in Actor \ {a} : errand[b].step \in MailStep => errand[b].mail # m
    BY <2>2 DEF MailsOK, MailStep
  <2>14. MailLog'
    <3>1. \A k \in DOMAIN mailLog' : mailLog'[k].status = "sent" => k \in left'
      BY <2>2, <2>8 DEF MailsOK, MailLog
    <3>2. \A k \in confirmed' : mailLog'[k].status # "error"
      BY <2>2, <2>8, <2>12, DeliveryAssumption DEF MailsOK, MailLog
    <3>3. \A k \in left' : mailLog'[k].by = "page" => mailLog'[k].status # None
      BY <2>2, <2>8, <2>12, DeliveryAssumption DEF MailsOK, MailLog
    <3> QED
      BY <3>1, <3>2, <3>3 DEF MailLog
  <2>15. ASSUME NEW b \in Actor, errand'[b].step \in MailStep
         PROVE  /\ errand'[b].mail \in DOMAIN mailLog'
                /\ mailLog'[errand'[b].mail].by = errand'[b].by
                /\ mailLog'[errand'[b].mail].status = IF errand'[b].by = "page" THEN "queued" ELSE None
                /\ errand'[b].step = "accepted" <=> errand'[b].mail \in confirmed'
    <3>1. CASE b = a
      <4>1. /\ errand'[b].mail = m /\ errand'[b].by = e.by /\ errand'[b].step = s
        BY <2>5, <2>11, <3>1
      <4>2. s = "accepted" <=> m \in confirmed'
        BY <2>1, <2>8, <2>12
      <4> QED
        BY <2>2, <2>7, <2>12, <4>1, <4>2
    <3>2. CASE b # a
      <4>1. /\ errand'[b] = errand[b] /\ errand[b].mail # m
        BY <2>11, <2>13, <2>15, <3>2
      <4>2. errand[b].mail \in confirmed' <=> errand[b].mail \in confirmed
        BY <2>8, <4>1
      <4> QED
        BY <2>2, <2>15, <4>1, <4>2 DEF MailsOK
    <3> QED
      BY <3>1, <3>2
  <2>16. \A b, c \in Actor :
           errand'[b].step \in MailStep /\ errand'[c].step \in MailStep /\ b # c
             => errand'[b].mail # errand'[c].mail
    <3>1. \A b \in Actor : errand'[b].step \in MailStep =>
            errand[b].step \in MailStep /\ errand'[b].mail = errand[b].mail
      BY <2>2, <2>5, <2>11 DEF MailStep
    <3> QED
      BY <3>1 DEF MailsOK
  <2>17. MailsOK'
    BY <2>14, <2>15, <2>16 DEF MailsOK
  <2>18. e.step = s /\ s \in MailStep
    BY <2>5 DEF MailStep
  <2> QED
    BY <2>9, <2>10, <2>11, <2>17, <2>18
<1> QED
  BY <1>1, <1>2, <1>3

LEMMA RecordMailSteps ==
  ASSUME DeliveryTypes, MailsOK
  PROVE  /\ RecordMail => DeliveryTypes' /\ MailsOK'
         /\ \A a \in Actor : CommitApiMail(a) => DeliveryTypes' /\ MailsOK'
<1>0. /\ Page \in Actor /\ Page \notin Pool
      /\ \A a \in Actor : a # Page => a \in Pool
      /\ mailLog \in Seq(MailRow) /\ Len(mailLog) \in Nat
      /\ left \subseteq DOMAIN mailLog /\ confirmed \subseteq left
      /\ NoErrand \in PageErrands /\ NoErrand \in PoolErrands /\ NoErrand.step \notin MailStep
  BY DeliveryAssumption DEF Actor, DeliveryTypes, PageErrands, PoolErrands, AnyErrand, NoErrand, MailStep
<1>1. ASSUME NEW a \in Actor, errand[a].step \in {"accepted", "failed"},
             mailLog' = [mailLog EXCEPT ![errand[a].mail].status = Outcome(a)]
      PROVE  /\ mailLog' \in Seq(MailRow) /\ DOMAIN mailLog' = DOMAIN mailLog
             /\ Len(mailLog') = Len(mailLog)
  <2>1. errand[a].mail \in DOMAIN mailLog
    BY <1>1 DEF MailsOK, MailStep
  <2>2. PICK s \in {None, "queued", "sent", "error"} : s = Outcome(a)
    BY DEF Outcome
  <2>3. mailLog' = [mailLog EXCEPT ![errand[a].mail].status = s]
    BY <1>1, <2>2
  <2> QED
    BY <2>1, <2>3, LogRow
<1>2. ASSUME RecordMail PROVE DeliveryTypes' /\ MailsOK'
  <2> DEFINE mark == [step |-> "mark", by |-> "page", kind |-> errand[Page].kind]
  <2>0. errand[Page].step \in {"accepted", "failed"} /\ UNCHANGED <<doc, files, left, confirmed, linked, clock, requests>>
    BY <1>2 DEF RecordMail
  <2>1. errand[Page] \in PageMail
    BY <1>0, <2>0, ErrandFacts DEF MailStep
  <2>2. mark \in PageErrands /\ mark.step \notin MailStep
    BY <2>1 DEF PageMail, PageErrand, PageErrands, MailStep
  <2> HIDE DEF mark
  <2>3. CASE /\ mailLog' = [mailLog EXCEPT ![errand[Page].mail].status = Outcome(Page)]
             /\ Does(Page, IF Outcome(Page) = "sent" THEN mark ELSE NoErrand)
    <3>1. /\ mailLog' \in Seq(MailRow) /\ DOMAIN mailLog' = DOMAIN mailLog
          /\ Len(mailLog') = Len(mailLog)
      BY <1>0, <1>1, <2>0, <2>3
    <3>2. PICK e \in {mark, NoErrand} : Does(Page, e)
      BY <2>3
    <3>3. e \in PageErrands /\ e.step \notin MailStep
      BY <1>0, <2>2
    <3>4. DeliveryTypes'
      BY <1>0, <2>0, <3>1, <3>2, <3>3, TypesAfter DEF DeliveryTypes
    <3>5. errand'[Page] = e /\ \A b \in Actor \ {Page} : errand'[b] = errand[b]
      BY <1>0, <3>2, <3>3, DoesOne
    <3> QED
      BY <1>0, <2>0, <2>3, <3>3, <3>4, <3>5, MailRecorded
  <2>4. CASE UNCHANGED mailLog /\ Does(Page, NoErrand)
    <3>1. DeliveryTypes'
      BY <1>0, <2>0, <2>4, TypesAfter DEF DeliveryTypes
    <3>2. errand'[Page] = NoErrand /\ \A b \in Actor \ {Page} : errand'[b] = errand[b]
      BY <1>0, <2>4, DoesOne
    <3> QED
      BY <1>0, <2>0, <2>4, <3>1, <3>2, MailsUndisturbed
  <2> QED
    BY <1>2, <2>3, <2>4 DEF RecordMail, mark
<1>3. ASSUME NEW a \in Actor, CommitApiMail(a) PROVE DeliveryTypes' /\ MailsOK'
  <2>1. /\ a # Page /\ errand[a].step \in {"accepted", "failed"}
        /\ mailLog' = [mailLog EXCEPT ![errand[a].mail].status = Outcome(a)]
        /\ doc' = Written(errand[a].sees, Mailed(a)) /\ linked' = WithToken(doc')
        /\ Does(a, NoErrand) /\ UNCHANGED <<files, left, confirmed, clock, requests>>
    BY <1>3 DEF CommitApiMail
  <2>2. errand[a] \in ApiMail
    BY <1>0, <2>1, ErrandFacts DEF MailStep
  <2>3. errand[a].sees \in DocRow /\ errand[a].row \in DocRow /\ Mailed(a) \in DocRow
    <3>1. errand[a].sees \in DocRow /\ errand[a].row \in DocRow
      BY <2>2 DEF ApiMail
    <3>2. [errand[a].row EXCEPT !.status = "sent"] \in DocRow
      BY <3>1 DEF DocRow
    <3> QED
      BY <3>1, <3>2 DEF Mailed
  <2>4. doc' \in DocRow
    BY <2>1, <2>3, WrittenType
  <2>5. linked' \subseteq Token
    BY <2>1, <2>4 DEF WithToken, DeliveryTypes, DocRow
  <2>6. /\ mailLog' \in Seq(MailRow) /\ DOMAIN mailLog' = DOMAIN mailLog
        /\ Len(mailLog') = Len(mailLog)
    BY <1>1, <2>1
  <2>7. DeliveryTypes'
    BY <1>0, <2>1, <2>4, <2>5, <2>6, TypesAfter DEF DeliveryTypes
  <2>8. errand'[a] = NoErrand /\ \A b \in Actor \ {a} : errand'[b] = errand[b]
    BY <1>0, <2>1, DoesOne
  <2> QED
    BY <1>0, <2>1, <2>7, <2>8, MailRecorded
<1> QED
  BY <1>2, <1>3

-----------------------------------------------------------------------------
(* Tokens.  A request that writes a row brings a token of its own when that is
   neither what it read nor none: nobody else has it and the document never had it. *)
Brings(e) == "row" \in DOMAIN e /\ e.row.token \notin {e.sees.token, None}

TokensOK ==
  /\ linked \subseteq 1 .. requests
  /\ doc.token # None => doc.token \in linked
  /\ \A a \in Actor : Brings(errand[a]) => errand[a].row.token \in (1 .. requests) \ linked
  /\ \A a, b \in Actor :
       Brings(errand[a]) /\ Brings(errand[b]) /\ a # b => errand[a].row.token # errand[b].row.token

(* Whatever becomes of the document's token, it is not one it had before. *)
NoneComesBack == doc'.token \in linked => doc'.token = doc.token

LEMMA TokensKept ==
  ASSUME DeliveryTypes, TokensOK, NEW a \in Actor,
         \A b \in Actor \ {a} : errand'[b] = errand[b],
         Brings(errand'[a]) => Brings(errand[a]) /\ errand'[a].row.token = errand[a].row.token,
         linked' = linked, doc'.token = doc.token, requests' \in {requests, requests + 1}
  PROVE  TokensOK'
<1>1. requests \in Nat /\ 1 .. requests \subseteq 1 .. requests'
  BY DEF DeliveryTypes
<1>2. \A b \in Actor : Brings(errand'[b]) =>
        Brings(errand[b]) /\ errand'[b].row.token = errand[b].row.token
  BY DEF Brings
<1>3. \A b \in Actor : Brings(errand'[b]) => errand'[b].row.token \in (1 .. requests') \ linked'
  BY <1>1, <1>2 DEF TokensOK
<1>4. \A b, c \in Actor :
        Brings(errand'[b]) /\ Brings(errand'[c]) /\ b # c => errand'[b].row.token # errand'[c].row.token
  BY <1>2 DEF TokensOK
<1>5. linked' \subseteq 1 .. requests' /\ (doc'.token # None => doc'.token \in linked')
  BY <1>1 DEF TokensOK
<1> QED
  BY <1>3, <1>4, <1>5 DEF TokensOK, Brings

LEMMA TokenMade ==
  ASSUME DeliveryTypes, TokensOK, NEW a \in Actor,
         \A b \in Actor \ {a} : errand'[b] = errand[b],
         Brings(errand'[a]) => errand'[a].row.token = requests + 1,
         linked' = linked, doc' = doc, requests' = requests + 1
  PROVE  TokensOK'
<1>1. requests \in Nat /\ 1 .. requests \subseteq 1 .. requests' /\ requests + 1 \in 1 .. requests'
      /\ requests + 1 \notin 1 .. requests
  BY DEF DeliveryTypes
<1>2. \A b \in Actor \ {a} : Brings(errand'[b]) =>
        Brings(errand[b]) /\ errand'[b].row.token = errand[b].row.token
        /\ errand[b].row.token \in (1 .. requests) \ linked
  BY DEF TokensOK, Brings
<1>3. \A b \in Actor : Brings(errand'[b]) => errand'[b].row.token \in (1 .. requests') \ linked'
  BY <1>1, <1>2 DEF TokensOK
<1>4. \A b, c \in Actor :
        Brings(errand'[b]) /\ Brings(errand'[c]) /\ b # c => errand'[b].row.token # errand'[c].row.token
  BY <1>1, <1>2 DEF TokensOK
<1>5. linked' \subseteq 1 .. requests' /\ (doc'.token # None => doc'.token \in linked')
  BY <1>1 DEF TokensOK
<1> QED
  BY <1>3, <1>4, <1>5 DEF TokensOK, Brings

(* A request writes the row it carries, by the columns it changed. *)
LEMMA TokenCommitted ==
  ASSUME DeliveryTypes, TokensOK, NEW a \in Actor, NEW row \in DocRow,
         \A b \in Actor \ {a} : errand'[b] = errand[b], errand'[a] = NoErrand,
         "row" \in DOMAIN errand[a], errand[a].sees \in DocRow,
         row.token = errand[a].row.token,
         doc' = Written(errand[a].sees, row), linked' = WithToken(doc'), requests' = requests
  PROVE  TokensOK' /\ NoneComesBack
<1>1. doc'.token = (IF row.token = errand[a].sees.token THEN doc.token ELSE row.token) /\ doc' \in DocRow
  BY WrittenType
<1>2. CASE Brings(errand[a])
  <2>1. /\ doc'.token = errand[a].row.token /\ doc'.token # None
        /\ doc'.token \in (1 .. requests) \ linked
    BY <1>1, <1>2 DEF Brings, TokensOK
  <2>2. linked' = linked \cup {doc'.token}
    BY <2>1 DEF WithToken
  <2>3. \A b \in Actor : Brings(errand'[b]) =>
          /\ b # a /\ Brings(errand[b]) /\ errand'[b].row.token = errand[b].row.token
          /\ errand[b].row.token # errand[a].row.token
    BY <1>2 DEF Brings, NoErrand, TokensOK
  <2>4. \A b \in Actor : Brings(errand'[b]) => errand'[b].row.token \in (1 .. requests') \ linked'
    BY <2>1, <2>2, <2>3 DEF TokensOK
  <2>5. \A b, c \in Actor :
          Brings(errand'[b]) /\ Brings(errand'[c]) /\ b # c
            => errand'[b].row.token # errand'[c].row.token
    BY <2>3 DEF TokensOK
  <2>6. linked' \subseteq 1 .. requests' /\ (doc'.token # None => doc'.token \in linked')
    BY <2>1, <2>2 DEF TokensOK
  <2> QED
    BY <2>1, <2>4, <2>5, <2>6 DEF TokensOK, Brings, NoneComesBack
<1>3. CASE ~Brings(errand[a])
  <2>1. doc'.token = doc.token \/ doc'.token = None
    BY <1>1, <1>3 DEF Brings
  <2>2. linked' = linked
    BY <2>1 DEF WithToken, TokensOK
  <2>3. \A b \in Actor : Brings(errand'[b]) =>
          Brings(errand[b]) /\ errand'[b].row.token = errand[b].row.token
    BY DEF Brings, NoErrand
  <2>4. \A b \in Actor : Brings(errand'[b]) => errand'[b].row.token \in (1 .. requests') \ linked'
    BY <2>2, <2>3 DEF TokensOK
  <2>5. \A b, c \in Actor :
          Brings(errand'[b]) /\ Brings(errand'[c]) /\ b # c
            => errand'[b].row.token # errand'[c].row.token
    BY <2>3 DEF TokensOK
  <2>6. linked' \subseteq 1 .. requests' /\ (doc'.token # None => doc'.token \in linked')
    BY <2>1, <2>2 DEF TokensOK
  <2>7. NoneComesBack
    <3>1. linked \subseteq 1 .. MaxRequests /\ 1 .. MaxRequests \subseteq Nat
      BY DeliveryAssumption DEF DeliveryTypes, Token
    <3>2. None \notin linked
      BY <3>1, DeliveryAssumption
    <3> QED
      BY <2>1, <3>2 DEF NoneComesBack
  <2> QED
    BY <2>4, <2>5, <2>6, <2>7 DEF TokensOK, Brings
<1> QED
  BY <1>2, <1>3

LEMMA TokenIssued ==
  ASSUME DeliveryTypes, TokensOK, NEW a \in Actor,
         \A b \in Actor \ {a} : errand'[b] = errand[b], ~Brings(errand'[a]),
         doc'.token = IF doc.token = None THEN requests + 1 ELSE doc.token,
         linked' = linked \cup {doc'.token}, requests' = requests + 1
  PROVE  TokensOK' /\ NoneComesBack
<1>1. requests \in Nat /\ 1 .. requests \subseteq 1 .. requests' /\ requests + 1 \in 1 .. requests'
      /\ requests + 1 \notin 1 .. requests
  BY DEF DeliveryTypes
<1>2. \A b \in Actor : Brings(errand'[b]) =>
        /\ Brings(errand[b]) /\ errand'[b].row.token = errand[b].row.token
        /\ errand[b].row.token \in (1 .. requests) \ linked
  BY DEF TokensOK, Brings
<1>3. doc'.token = requests + 1 \/ doc'.token \in linked
  BY DEF TokensOK
<1>4. \A b \in Actor : Brings(errand'[b]) => errand'[b].row.token \in (1 .. requests') \ linked'
  BY <1>1, <1>2, <1>3
<1>5. \A b, c \in Actor :
        Brings(errand'[b]) /\ Brings(errand'[c]) /\ b # c => errand'[b].row.token # errand'[c].row.token
  BY <1>2 DEF TokensOK
<1>6. linked' \subseteq 1 .. requests'
  BY <1>1, <1>3 DEF TokensOK
<1>7. NoneComesBack
  BY <1>1 DEF TokensOK, NoneComesBack
<1> QED
  BY <1>4, <1>5, <1>6, <1>7 DEF TokensOK, Brings

-----------------------------------------------------------------------------
(* The inductive invariant, and what each step does to it. *)
DeliveryInv == DeliveryTypes /\ MailsOK /\ TokensOK /\ FileOfNumber

DeliveryStepOK == DeliveryInv' /\ NoneComesBack

LEMMA DeliveryInitInv == DocumentDeliveryInit => DeliveryInv
<1> SUFFICES ASSUME DocumentDeliveryInit PROVE DeliveryInv
  OBVIOUS
<1>1. DeliveryTypes
  BY DeliveryTypesInit
<1>2. /\ mailLog = <<>> /\ left = {} /\ confirmed = {} /\ linked = {} /\ requests = 0
      /\ \A a \in Actor : errand[a] = NoErrand
      /\ \A n \in Number : files[n] = None
      /\ doc.token = None
  BY DEF DocumentDeliveryInit
<1>3. MailsOK
  BY <1>2 DEF MailsOK, MailLog, NoErrand, MailStep
<1>4. TokensOK
  BY <1>2 DEF TokensOK, Brings, NoErrand
<1>5. FileOfNumber
  BY <1>2 DEF FileOfNumber
<1> QED
  BY <1>1, <1>3, <1>4, <1>5 DEF DeliveryInv

(* Does says what becomes of every request. *)
LEMMA OthersStay ==
  ASSUME DeliveryTypes, NEW a \in Actor, NEW e, Does(a, e)
  PROVE  errand'[a] = e /\ \A b \in Actor \ {a} : errand'[b] = errand[b]
BY DEF DeliveryTypes, Does

(* A request that begins and brings at most the token of its own number. *)
LEMMA OpenStep ==
  ASSUME DeliveryInv, DeliveryTypes', NEW a \in Actor, Begins(a),
         \A b \in Actor \ {a} : errand'[b] = errand[b],
         Brings(errand'[a]) => errand'[a].row.token = FreshToken,
         errand'[a].step \notin MailStep,
         UNCHANGED <<doc, files, mailLog, left, confirmed, linked>>
  PROVE  DeliveryStepOK
<1>1. MailsOK'
  BY MailsUndisturbed DEF DeliveryInv
<1>2. TokensOK'
  BY TokenMade DEF DeliveryInv, Begins, FreshToken
<1>3. FileOfNumber' /\ NoneComesBack
  BY DEF DeliveryInv, FileOfNumber, NoneComesBack
<1> QED
  BY <1>1, <1>2, <1>3 DEF DeliveryStepOK, DeliveryInv

(* A request goes on and leaves the token and the files alone. *)
LEMMA QuietStep ==
  ASSUME DeliveryInv, DeliveryTypes', MailsOK', NEW a \in Actor,
         \A b \in Actor \ {a} : errand'[b] = errand[b],
         Brings(errand'[a]) => Brings(errand[a]) /\ errand'[a].row.token = errand[a].row.token,
         doc'.token = doc.token, requests' \in {requests, requests + 1},
         FileOfNumber', linked' = linked
  PROVE  DeliveryStepOK
<1>1. TokensOK'
  BY TokensKept DEF DeliveryInv
<1> QED
  BY <1>1 DEF DeliveryStepOK, DeliveryInv, NoneComesBack

LEMMA NothingBrought ==
  ASSUME NEW e \in {NoErrand} \cup PlainRender \cup QueueRender \cup PageErrand \cup PageMail
  PROVE  ~Brings(e) /\ (e \notin PageMail => e.step \notin MailStep)
BY DEF Brings, NoErrand, PlainRender, QueueRender, PageErrand, PageMail, MailStep, RenderStep

LEMMA RowsBrought ==
  ASSUME NEW e \in ApiErrand \cup FlushErrand \cup ApiMail \cup LinkErrand
  PROVE  /\ Brings(e) <=> e.row.token \notin {e.sees.token, None}
         /\ "row" \in DOMAIN e
         /\ e.sees \in DocRow /\ e.row \in DocRow
         /\ e \in ApiErrand \cup FlushErrand \cup LinkErrand => e.step \notin MailStep
BY DEF Brings, ApiErrand, FlushErrand, ApiMail, LinkErrand, MailStep, RenderStep

LEMMA OpenSteps ==
  ASSUME DeliveryInv
  PROVE  /\ \A a \in Actor, by \in By : ShowPdf(a, by) => DeliveryStepOK
         /\ \A a \in Actor, what \in LinkOp : OpenLink(a, what) => DeliveryStepOK
         /\ \A kind \in MailKind, attach \in BOOLEAN : OpenMail(kind, attach) => DeliveryStepOK
         /\ \A a \in Pool, withLink, attach \in BOOLEAN :
              OpenApiMail(a, withLink, attach) => DeliveryStepOK
<1>0. DeliveryTypes /\ Page \in Actor /\ Pool \subseteq Actor
  BY DEF DeliveryInv, Actor
<1>1. ASSUME NEW a \in Actor, NEW by \in By, ShowPdf(a, by) PROVE DeliveryStepOK
  <2>1. DeliveryTypes' /\ errand'[a] \in {NoErrand} \cup PlainRender
    BY <1>0, <1>1, OpenTypes
  <2>2. ~Brings(errand'[a]) /\ errand'[a].step \notin MailStep
    <3>1. errand'[a] \notin PageMail
      BY <2>1 DEF NoErrand, PlainRender, PageMail, RenderStep, MailStep
    <3>2. \A e \in {NoErrand} \cup PlainRender : ~Brings(e) /\ (e \notin PageMail => e.step \notin MailStep)
      BY NothingBrought
    <3> QED
      BY <2>1, <3>1, <3>2 DEF Brings
  <2>3. Begins(a) /\ UNCHANGED <<doc, files, mailLog, left, confirmed, linked>>
    BY <1>1 DEF ShowPdf
  <2>4. \A b \in Actor \ {a} : errand'[b] = errand[b]
    BY <1>0, <1>1 DEF ShowPdf, Does, DeliveryTypes
  <2> QED
    BY <2>1, <2>2, <2>3, <2>4, OpenStep
<1>2. ASSUME NEW a \in Actor, NEW what \in LinkOp, OpenLink(a, what) PROVE DeliveryStepOK
  <2>1. /\ DeliveryTypes' /\ errand'[a] \in LinkErrand /\ errand'[a].sees = doc
        /\ errand'[a].row.token \in {doc.token, None, FreshToken}
    BY <1>0, <1>2, OpenTypes
  <2>2. errand'[a].step \notin MailStep /\ (Brings(errand'[a]) => errand'[a].row.token = FreshToken)
    BY <2>1 DEF LinkErrand, MailStep, Brings
  <2>3. Begins(a) /\ UNCHANGED <<doc, files, mailLog, left, confirmed, linked>>
    BY <1>2 DEF OpenLink
  <2>4. \A b \in Actor \ {a} : errand'[b] = errand[b]
    BY <1>0, <1>2 DEF OpenLink, Does, DeliveryTypes
  <2> QED
    BY <2>1, <2>2, <2>3, <2>4, OpenStep
<1>3. ASSUME NEW kind \in MailKind, NEW attach \in BOOLEAN, OpenMail(kind, attach) PROVE DeliveryStepOK
  <2>1. DeliveryTypes' /\ errand'[Page] \in PageErrand \cup QueueRender
    BY <1>0, <1>3, OpenTypes
  <2>2. ~Brings(errand'[Page]) /\ errand'[Page].step \notin MailStep
    BY <2>1 DEF Brings, PageErrand, QueueRender, MailStep, RenderStep
  <2>3. Begins(Page) /\ UNCHANGED <<doc, files, mailLog, left, confirmed, linked>>
    BY <1>3 DEF OpenMail
  <2>4. \A b \in Actor \ {Page} : errand'[b] = errand[b]
    BY <1>0, <1>3 DEF OpenMail, Does, DeliveryTypes
  <2> QED
    BY <1>0, <2>1, <2>2, <2>3, <2>4, OpenStep
<1>4. ASSUME NEW a \in Pool, NEW withLink \in BOOLEAN, NEW attach \in BOOLEAN,
             OpenApiMail(a, withLink, attach)
      PROVE  DeliveryStepOK
  <2>1. /\ DeliveryTypes' /\ errand'[a] \in ApiErrand /\ errand'[a].sees = doc
        /\ errand'[a].row.token \in {doc.token, FreshToken}
    BY <1>0, <1>4, OpenTypes
  <2>2. errand'[a].step \notin MailStep /\ (Brings(errand'[a]) => errand'[a].row.token = FreshToken)
    BY <2>1 DEF ApiErrand, MailStep, RenderStep, Brings
  <2>3. Begins(a) /\ UNCHANGED <<doc, files, mailLog, left, confirmed, linked>>
    BY <1>4 DEF OpenApiMail
  <2>4. \A b \in Actor \ {a} : errand'[b] = errand[b]
    BY <1>0, <1>4 DEF OpenApiMail, Does, DeliveryTypes
  <2> QED
    BY <1>0, <2>1, <2>2, <2>3, <2>4, OpenStep
<1> QED
  BY <1>1, <1>2, <1>3, <1>4

LEMMA FilesStay ==
  ASSUME DeliveryInv, files' = files
  PROVE  FileOfNumber'
BY DEF DeliveryInv, FileOfNumber

(* The steps of a PDF. *)
LEMMA PdfSteps ==
  ASSUME DeliveryInv, NEW a \in Actor
  PROVE  /\ Store(a) => DeliveryStepOK
         /\ RememberPdf(a) => DeliveryStepOK
         /\ PdfFails(a) => DeliveryStepOK
         /\ a \in Pool /\ RememberWithMail(a) => DeliveryStepOK
<1>0. DeliveryTypes /\ MailsOK
  BY DEF DeliveryInv
<1>1. ASSUME Store(a) PROVE DeliveryStepOK
  <2> DEFINE e == [errand[a] EXCEPT !.step = "stored"]
  <2>1. DeliveryTypes'
    BY <1>0, <1>1, StepTypes
  <2>2. /\ errand[a].step \in RenderStep
        /\ errand[a] \in PlainRender \cup QueueRender \cup ApiErrand
        /\ errand[a].sees \in DocRow
    BY <1>0, <1>1, ErrandFacts DEF Store, RenderStep
  <2>3. e.step = "stored" /\ (Brings(e) => Brings(errand[a]) /\ e.row.token = errand[a].row.token)
    <3>1. errand[a] \in PlainRender \cup QueueRender => e.step = "stored" /\ ~Brings(e)
      BY DEF PlainRender, QueueRender, Brings
    <3>2. errand[a] \in ApiErrand =>
            e.step = "stored" /\ e.row = errand[a].row /\ e.sees = errand[a].sees /\ "row" \in DOMAIN errand[a]
      BY DEF ApiErrand
    <3> QED
      BY <2>2, <3>1, <3>2 DEF Brings
  <2>4. Does(a, e) /\ UNCHANGED <<doc, mailLog, left, confirmed, linked, clock, requests>>
        /\ files' = [files EXCEPT ![errand[a].sees.number] = PdfOf(errand[a].sees)]
    BY <1>1 DEF Store
  <2> HIDE DEF e
  <2>5. errand'[a] = e /\ \A b \in Actor \ {a} : errand'[b] = errand[b]
    BY <1>0, <2>4, OthersStay
  <2>6. Brings(errand'[a]) => Brings(errand[a]) /\ errand'[a].row.token = errand[a].row.token
    BY <2>3, <2>5 DEF Brings
  <2>7. FileOfNumber'
    <3>1. files \in [Number -> Pdf \cup {None}] /\ FileOfNumber
      BY DEF DeliveryInv, DeliveryTypes
    <3>2. PdfOf(errand[a].sees).number = errand[a].sees.number
      BY DEF PdfOf
    <3> QED
      BY <2>4, <3>1, <3>2 DEF FileOfNumber
  <2>8. MailsOK'
    BY <1>0, <2>3, <2>4, <2>5, MailsUndisturbed DEF MailStep
  <2> QED
    BY <2>1, <2>4, <2>5, <2>6, <2>7, <2>8, QuietStep
<1>2. ASSUME errand[a].step \in RenderStep, errand[a].then # "flush", Does(a, Continued(errand[a])),
             DeliveryTypes', doc'.token = doc.token,
             UNCHANGED <<files, mailLog, left, confirmed, linked, clock, requests>>
      PROVE  DeliveryStepOK
  <2>1. errand[a] \in PlainRender \cup QueueRender
    <3>1. errand[a] \in PlainRender \cup QueueRender \cup ApiErrand
      BY <1>0, <1>2, ErrandFacts
    <3> QED
      BY <1>2, <3>1 DEF ApiErrand
  <2>2. Continued(errand[a]) \in {NoErrand} \cup PageErrand
    <3>1. errand[a] \in PlainRender => Continued(errand[a]) = NoErrand
      BY DEF PlainRender, Continued
    <3>2. errand[a] \in QueueRender => Continued(errand[a]) \in PageErrand
      BY DEF QueueRender, Continued, PageErrand
    <3> QED
      BY <2>1, <3>1, <3>2
  <2>3. errand'[a] = Continued(errand[a]) /\ \A b \in Actor \ {a} : errand'[b] = errand[b]
    BY <1>0, <1>2, OthersStay
  <2>4. ~Brings(errand'[a]) /\ errand'[a].step \notin MailStep
    BY <2>2, <2>3 DEF Brings, NoErrand, PageErrand, MailStep
  <2>5. MailsOK'
    BY <1>0, <1>2, <2>3, <2>4, MailsUndisturbed
  <2>6. FileOfNumber'
    BY <1>2, FilesStay
  <2> QED
    BY <1>2, <2>3, <2>4, <2>5, <2>6, QuietStep
<1>3. ASSUME RememberPdf(a) PROVE DeliveryStepOK
  <2>1. DeliveryTypes' /\ doc'.token = doc.token
    BY <1>0, <1>3, StepTypes
  <2> QED
    BY <1>2, <1>3, <2>1 DEF RememberPdf, RenderStep
<1>4. ASSUME PdfFails(a) PROVE DeliveryStepOK
  <2>1. DeliveryTypes' /\ errand[a].step \in RenderStep
    BY <1>0, <1>4, StepTypes DEF PdfFails, RenderStep
  <2>2. errand[a].then # "flush"
    <3>1. errand[a] \in PlainRender \cup QueueRender \cup ApiErrand /\ errand[a].by = "page"
      BY <1>0, <1>4, <2>1, ErrandFacts DEF PdfFails
    <3> QED
      BY <3>1 DEF PlainRender, QueueRender, ApiErrand
  <2> QED
    BY <1>2, <1>4, <2>1, <2>2 DEF PdfFails
<1>5. ASSUME a \in Pool, RememberWithMail(a) PROVE DeliveryStepOK
  <2> DEFINE old == errand[a]
             row == WithPdf(old.row, old.sees.number)
             e == [step |-> "flush", by |-> "api", sees |-> old.sees, row |-> row]
  <2>1. errand[a].step \in RenderStep /\ errand[a].then = "flush"
        /\ Does(a, Continued([errand[a] EXCEPT !.row = WithPdf(@, errand[a].sees.number)]))
        /\ UNCHANGED <<doc, files, mailLog, left, confirmed, linked, clock, requests>>
    BY <1>5 DEF RememberWithMail, RenderStep
  <2>2. old \in ApiErrand
    <3>1. old \in PlainRender \cup ApiErrand
      BY <1>0, <1>5, <2>1, ErrandFacts
    <3> QED
      BY <2>1, <3>1 DEF PlainRender
  <2>3. old.sees \in DocRow /\ old.row \in DocRow /\ old.sees.number \in Number
    BY <2>2 DEF ApiErrand, DocRow
  <2>4. row \in DocRow
    BY <1>0, <2>3, WithPdfType DEF DeliveryTypes
  <2>5. row.token = old.row.token
    BY <2>3 DEF WithPdf, DocRow
  <2>6. Continued([errand[a] EXCEPT !.row = WithPdf(@, errand[a].sees.number)]) = e
    <3>1. PICK c \in ApiErrand : c = errand[a]
      BY <2>2
    <3>2. PICK r : r = WithPdf(c.row, c.sees.number)
      OBVIOUS
    <3>3. [c EXCEPT !.row = r].then = "flush" /\ [c EXCEPT !.row = r].sees = c.sees
          /\ [c EXCEPT !.row = r].row = r
      BY DEF ApiErrand
    <3>4. Continued([c EXCEPT !.row = r]) = [step |-> "flush", by |-> "api", sees |-> c.sees, row |-> r]
      BY <3>3 DEF Continued
    <3> QED
      BY <3>1, <3>2, <3>4
  <2>7. e \in FlushErrand /\ e.row = row /\ e.sees = old.sees /\ e.step = "flush"
    BY <2>3, <2>4 DEF FlushErrand
  <2>8. Does(a, e)
    BY <2>1, <2>6
  <2> HIDE DEF row, e
  <2>9. a # Page /\ e \in PoolErrands
    BY <1>5, <2>7, DeliveryAssumption DEF PoolErrands
  <2>10. DeliveryTypes'
    BY <1>0, <2>1, <2>8, <2>9, TypesAfter DEF DeliveryTypes
  <2>11. errand'[a] = e /\ \A b \in Actor \ {a} : errand'[b] = errand[b]
    BY <1>0, <2>8, OthersStay
  <2>12. Brings(errand'[a]) => Brings(errand[a]) /\ errand'[a].row.token = errand[a].row.token
    <3>1. "row" \in DOMAIN errand[a]
      BY <2>2 DEF ApiErrand
    <3> QED
      BY <2>5, <2>7, <2>11, <3>1 DEF Brings
  <2>13. MailsOK'
    BY <1>0, <2>1, <2>7, <2>11, MailsUndisturbed DEF MailStep
  <2>14. FileOfNumber'
    BY <2>1, FilesStay
  <2> QED
    BY <2>1, <2>10, <2>11, <2>12, <2>13, <2>14, QuietStep
<1> QED
  BY <1>1, <1>3, <1>4, <1>5

(* The steps of a mail. *)
LEMMA MailingSteps ==
  ASSUME DeliveryInv
  PROVE  /\ QueueMail => DeliveryStepOK
         /\ RecordMail => DeliveryStepOK
         /\ MarkMailed => DeliveryStepOK
         /\ \A a \in Pool : FlushMail(a) \/ CommitApiMail(a) => DeliveryStepOK
         /\ \A a \in Actor : SmtpAccepts(a) \/ SmtpFails(a) => DeliveryStepOK
<1>0. /\ DeliveryTypes /\ MailsOK /\ TokensOK
      /\ Page \in Actor /\ Page \notin Pool /\ Pool \subseteq Actor
      /\ \A a \in Actor : a # Page => a \in Pool
  BY DeliveryAssumption DEF DeliveryInv, Actor
<1>1. ASSUME QueueMail PROVE DeliveryStepOK
  <2>1. DeliveryTypes' /\ MailsOK' /\ errand'[Page] \in PageMail
    BY <1>0, <1>1, MailSteps
  <2>2. ~Brings(errand'[Page])
    BY <2>1 DEF Brings, PageMail
  <2>3. UNCHANGED <<doc, files, linked, requests>>
        /\ \A b \in Actor \ {Page} : errand'[b] = errand[b]
    BY <1>0, <1>1 DEF QueueMail, Does, DeliveryTypes
  <2>4. FileOfNumber'
    BY <2>3, FilesStay
  <2> QED
    BY <1>0, <2>1, <2>2, <2>3, <2>4, QuietStep
<1>2. ASSUME RecordMail PROVE DeliveryStepOK
  <2>1. DeliveryTypes' /\ MailsOK'
    BY <1>0, <1>2, RecordMailSteps
  <2>2. PICK e : Does(Page, e) /\ e \in {NoErrand, [step |-> "mark", by |-> "page", kind |-> errand[Page].kind]}
    BY <1>2 DEF RecordMail
  <2>3. errand'[Page] = e /\ \A b \in Actor \ {Page} : errand'[b] = errand[b]
    BY <1>0, <2>2, OthersStay
  <2>4. ~Brings(errand'[Page])
    BY <2>2, <2>3 DEF Brings, NoErrand
  <2>5. UNCHANGED <<doc, files, linked, requests>>
    BY <1>2 DEF RecordMail
  <2>6. FileOfNumber'
    BY <2>5, FilesStay
  <2> QED
    BY <1>0, <2>1, <2>3, <2>4, <2>5, <2>6, QuietStep
<1>3. ASSUME MarkMailed PROVE DeliveryStepOK
  <2>1. /\ Does(Page, NoErrand) /\ UNCHANGED <<files, mailLog, left, confirmed, linked, clock, requests>>
        /\ doc' \in {doc, Stamped(doc), Stamped([doc EXCEPT !.status = "sent"])}
    BY <1>3 DEF MarkMailed
  <2>2. doc \in DocRow /\ [doc EXCEPT !.status = "sent"] \in DocRow
    BY <1>0, DraftRows DEF DeliveryTypes
  <2>3. Stamped(doc) \in DocRow /\ Stamped([doc EXCEPT !.status = "sent"]) \in DocRow
    BY <1>0, <2>2, StampedType DEF DeliveryTypes
  <2>4. Stamped(doc).token = doc.token /\ Stamped([doc EXCEPT !.status = "sent"]).token = doc.token
    BY <2>2 DEF Stamped, DocRow
  <2>5. doc' \in DocRow /\ doc'.token = doc.token
    BY <2>1, <2>2, <2>3, <2>4
  <2>6. NoErrand \in PageErrands
    BY DEF PageErrands, AnyErrand
  <2>7. DeliveryTypes'
    BY <1>0, <2>1, <2>5, <2>6, TypesAfter DEF DeliveryTypes
  <2>8. errand'[Page] = NoErrand /\ \A b \in Actor \ {Page} : errand'[b] = errand[b]
    BY <1>0, <2>1, OthersStay
  <2>9. ~Brings(errand'[Page]) /\ errand'[Page].step \notin MailStep
    BY <2>8 DEF Brings, NoErrand, MailStep
  <2>10. MailsOK'
    BY <1>0, <2>1, <2>8, <2>9, MailsUndisturbed
  <2>11. FileOfNumber'
    BY <2>1, FilesStay
  <2> QED
    BY <1>0, <2>1, <2>5, <2>7, <2>8, <2>9, <2>10, <2>11, QuietStep
<1>4. ASSUME NEW a \in Pool, FlushMail(a) PROVE DeliveryStepOK
  <2>1. /\ DeliveryTypes' /\ MailsOK' /\ errand'[a] \in ApiMail
        /\ errand'[a].sees = errand[a].sees /\ errand'[a].row = errand[a].row
    BY <1>0, <1>4, MailSteps
  <2>2. errand[a] \in ApiErrand \cup FlushErrand
    BY <1>0, <1>4, ErrandFacts DEF FlushMail
  <2>3. Brings(errand'[a]) => Brings(errand[a]) /\ errand'[a].row.token = errand[a].row.token
    BY <2>1, <2>2 DEF Brings, ApiErrand, FlushErrand
  <2>4. UNCHANGED <<doc, files, linked, requests>>
        /\ \A b \in Actor \ {a} : errand'[b] = errand[b]
    BY <1>0, <1>4 DEF FlushMail, Does, DeliveryTypes
  <2>5. FileOfNumber'
    BY <2>4, FilesStay
  <2> QED
    BY <1>0, <2>1, <2>3, <2>4, <2>5, QuietStep
<1>5. ASSUME NEW a \in Pool, CommitApiMail(a) PROVE DeliveryStepOK
  <2>1. DeliveryTypes' /\ MailsOK'
    BY <1>0, <1>5, RecordMailSteps
  <2>2. /\ errand[a].step \in {"accepted", "failed"}
        /\ doc' = Written(errand[a].sees, Mailed(a)) /\ linked' = WithToken(doc')
        /\ Does(a, NoErrand) /\ UNCHANGED <<files, left, confirmed, clock, requests>>
    BY <1>5 DEF CommitApiMail
  <2>3. errand[a] \in ApiMail
    BY <1>0, <2>2, ErrandFacts DEF MailStep
  <2>4. /\ errand[a].sees \in DocRow /\ errand[a].row \in DocRow /\ "row" \in DOMAIN errand[a]
    BY <2>3 DEF ApiMail
  <2>5. Mailed(a) \in DocRow /\ Mailed(a).token = errand[a].row.token
    <3>1. /\ [errand[a].row EXCEPT !.status = "sent"] \in DocRow
          /\ [errand[a].row EXCEPT !.status = "sent"].token = errand[a].row.token
      BY <2>4 DEF DocRow
    <3> QED
      BY <2>4, <3>1 DEF Mailed
  <2>6. errand'[a] = NoErrand /\ \A b \in Actor \ {a} : errand'[b] = errand[b]
    BY <1>0, <2>2, OthersStay
  <2>7. PICK row \in DocRow : row = Mailed(a)
    BY <2>5
  <2>8. TokensOK' /\ NoneComesBack
    BY <1>0, <2>2, <2>4, <2>5, <2>6, <2>7, TokenCommitted
  <2>9. FileOfNumber'
    BY <2>2, FilesStay
  <2> QED
    BY <2>1, <2>8, <2>9 DEF DeliveryStepOK, DeliveryInv
<1>6. ASSUME NEW a \in Actor, SmtpAccepts(a) \/ SmtpFails(a) PROVE DeliveryStepOK
  <2>1. /\ DeliveryTypes' /\ MailsOK'
        /\ errand'[a] = [errand[a] EXCEPT !.step = errand'[a].step]
    BY <1>0, <1>6, MailSteps
  <2>2. errand[a] \in PageMail \cup ApiMail
    <3>1. errand[a].step \in MailStep
      BY <1>6 DEF SmtpAccepts, SmtpFails, MailStep
    <3> QED
      BY <1>0, <3>1, ErrandFacts
  <2>3. Brings(errand'[a]) => Brings(errand[a]) /\ errand'[a].row.token = errand[a].row.token
    <3>1. PICK s : s = errand'[a].step
      OBVIOUS
    <3>2. PICK e \in PageMail \cup ApiMail : e = errand[a]
      BY <2>2
    <3>3. e \in PageMail => "row" \notin DOMAIN [e EXCEPT !.step = s]
      BY DEF PageMail
    <3>4. e \in ApiMail => /\ "row" \in DOMAIN e /\ [e EXCEPT !.step = s].row = e.row
                           /\ [e EXCEPT !.step = s].sees = e.sees
      BY DEF ApiMail
    <3>5. errand'[a] = [e EXCEPT !.step = s]
      BY <2>1, <3>1, <3>2
    <3> QED
      BY <3>2, <3>3, <3>4, <3>5 DEF Brings
  <2>4. UNCHANGED <<doc, files, linked, requests>>
        /\ \A b \in Actor \ {a} : errand'[b] = errand[b]
    BY <1>0, <1>6 DEF SmtpAccepts, SmtpFails, Does, DeliveryTypes
  <2>5. FileOfNumber'
    BY <2>4, FilesStay
  <2> QED
    BY <1>0, <2>1, <2>3, <2>4, <2>5, QuietStep
<1> QED
  BY <1>1, <1>2, <1>3, <1>4, <1>5, <1>6

(* The steps that write the document for good, and the clock. *)
LEMMA DocumentSteps ==
  ASSUME DeliveryInv
  PROVE  /\ Edit \/ Visit \/ Tick => DeliveryStepOK
         /\ \A a \in Pool : Issue(a) => DeliveryStepOK
         /\ \A a \in Actor : MarkPaid(a) \/ Revert(a) \/ CommitLink(a) \/ Lost(a) => DeliveryStepOK
<1>0. /\ DeliveryTypes /\ MailsOK /\ TokensOK /\ doc \in DocRow
      /\ Page \in Actor /\ Page \notin Pool /\ Pool \subseteq Actor
  BY DeliveryAssumption DEF DeliveryInv, DeliveryTypes, Actor
<1>1. ASSUME NEW a \in Actor, NEW inv \in DocRow, inv.token = doc.token,
             Saves(a, inv) \/ UNCHANGED <<files, errand, mailLog, left, confirmed, clock>>,
             DeliveryTypes', doc' = Stamped(inv), Begins(a), linked' = linked
      PROVE  DeliveryStepOK
  <2>1. doc'.token = doc.token
    BY <1>1 DEF Stamped, DocRow
  <2>2. requests' = requests + 1 /\ errand[a] = NoErrand /\ UNCHANGED <<files, mailLog, left, confirmed>>
    BY <1>1 DEF Begins, Saves
  <2>3. PICK e : /\ errand'[a] = e /\ e \in {NoErrand} \cup PlainRender
                 /\ \A b \in Actor \ {a} : errand'[b] = errand[b]
    <3>1. CASE Saves(a, inv)
      <4>1. Does(a, Regeneration(Stamped(inv)))
        BY <3>1 DEF Saves
      <4>2. errand'[a] = Regeneration(Stamped(inv)) /\ \A b \in Actor \ {a} : errand'[b] = errand[b]
        BY <1>0, <4>1, OthersStay
      <4>3. Stamped(inv) \in DocRow
        BY <1>0, StampedType DEF DeliveryTypes
      <4>4. Regeneration(Stamped(inv)) \in {NoErrand} \cup PlainRender
        BY <4>3, RegenerationType
      <4> QED
        BY <4>2, <4>4
    <3>2. CASE UNCHANGED errand
      BY <2>2, <3>2
    <3> QED
      BY <1>1, <3>1, <3>2
  <2>4. ~Brings(errand'[a]) /\ errand'[a].step \notin MailStep
    <3>1. e = NoErrand \/ e \in PlainRender
      BY <2>3
    <3> QED
      BY <2>3, <3>1 DEF Brings, NoErrand, PlainRender, MailStep, RenderStep
  <2>5. MailsOK'
    BY <1>0, <2>2, <2>3, <2>4, MailsUndisturbed
  <2>6. FileOfNumber'
    BY <2>2, FilesStay
  <2> QED
    BY <1>1, <2>1, <2>2, <2>3, <2>4, <2>5, <2>6, QuietStep
<1>2. ASSUME Edit PROVE DeliveryStepOK
  <2>1. /\ Begins(Page) /\ doc.text < MaxText /\ linked' = linked
        /\ Saves(Page, [doc EXCEPT !.text = @ + 1])
    BY <1>2 DEF Edit
  <2>2. [doc EXCEPT !.text = @ + 1] \in DocRow /\ [doc EXCEPT !.text = @ + 1].token = doc.token
    <3>1. [doc EXCEPT !.text = @ + 1] \in DocRow
      BY <1>0, <2>1, DraftRows
    <3> QED
      BY <1>0, <3>1 DEF DocRow
  <2>3. PICK inv \in DocRow : inv = [doc EXCEPT !.text = @ + 1]
    BY <2>2
  <2>4. Saves(Page, inv) /\ inv.token = doc.token
    BY <2>1, <2>2, <2>3
  <2>5. DeliveryTypes' /\ doc' = Stamped(inv)
    BY <1>0, <2>1, <2>4, SavesTypes
  <2> QED
    BY <1>0, <1>1, <2>1, <2>4, <2>5
<1>3. ASSUME NEW a \in Actor, NEW inv \in DocRow, inv.token = doc.token, ChangesStatus(a, inv)
      PROVE  DeliveryStepOK
  <2>1. DeliveryTypes' /\ doc' = Stamped(inv) /\ linked' = linked
    BY <1>0, <1>3, ChangesStatusTypes
  <2>2. Begins(a) /\ (Saves(a, inv) \/ UNCHANGED <<files, errand, mailLog, left, confirmed, clock>>)
    BY <1>3 DEF ChangesStatus
  <2> QED
    BY <1>1, <1>3, <2>1, <2>2
<1>4. ASSUME NEW a \in Actor, MarkPaid(a) PROVE DeliveryStepOK
  <2>1. PICK inv \in DocRow : inv = [doc EXCEPT !.status = "paid"]
    BY <1>0, DraftRows
  <2>2. inv.token = doc.token
    BY <1>0, <2>1 DEF DocRow
  <2>3. ChangesStatus(a, inv)
    BY <1>4, <2>1 DEF MarkPaid
  <2> QED
    BY <1>3, <2>2, <2>3
<1>5. ASSUME NEW a \in Actor, Revert(a) PROVE DeliveryStepOK
  <2>1. PICK inv \in DocRow : inv = [doc EXCEPT !.status = "draft", !.number = "DRAFT",
                                               !.path = None, !.generated = None]
    BY <1>0, DraftRows
  <2>2. inv.token = doc.token
    BY <1>0, <2>1 DEF DocRow
  <2>3. ChangesStatus(a, inv)
    BY <1>5, <2>1 DEF Revert
  <2> QED
    BY <1>3, <2>2, <2>3
<1>6. ASSUME NEW a \in Pool, Issue(a) PROVE DeliveryStepOK
  <2>1. /\ DeliveryTypes' /\ linked' = linked \cup {doc'.token}
        /\ doc'.token = IF doc.token = None THEN FreshToken ELSE doc.token
        /\ errand'[a] \in {NoErrand} \cup PlainRender
        /\ \A b \in Actor \ {a} : errand'[b] = errand[b]
    BY <1>0, <1>6, IssueTypes
  <2>2. requests' = requests + 1 /\ UNCHANGED <<files, mailLog, left, confirmed>>
    BY <1>6 DEF Issue, Begins
  <2>3. ~Brings(errand'[a]) /\ errand'[a].step \notin MailStep
    <3>1. errand'[a] = NoErrand \/ errand'[a] \in PlainRender
      BY <2>1
    <3> QED
      BY <3>1 DEF Brings, NoErrand, PlainRender, MailStep, RenderStep
  <2>4. MailsOK'
    BY <1>0, <2>1, <2>2, <2>3, MailsUndisturbed
  <2>5. TokensOK' /\ NoneComesBack
    BY <1>0, <2>1, <2>2, <2>3, TokenIssued DEF FreshToken
  <2>6. FileOfNumber'
    BY <2>2, FilesStay
  <2> QED
    BY <2>1, <2>4, <2>5, <2>6 DEF DeliveryStepOK, DeliveryInv
<1>7. ASSUME NEW a \in Actor, CommitLink(a) PROVE DeliveryStepOK
  <2>1. DeliveryTypes' /\ errand[a] \in LinkErrand
    BY <1>0, <1>7, StepTypes, ErrandFacts DEF CommitLink
  <2>2. errand[a].sees \in DocRow /\ errand[a].row \in DocRow /\ "row" \in DOMAIN errand[a]
    BY <2>1 DEF LinkErrand
  <2>3. /\ doc' = Written(errand[a].sees, errand[a].row) /\ linked' = WithToken(doc')
        /\ Does(a, NoErrand) /\ UNCHANGED <<files, mailLog, left, confirmed, clock, requests>>
    BY <1>7 DEF CommitLink
  <2>4. errand'[a] = NoErrand /\ \A b \in Actor \ {a} : errand'[b] = errand[b]
    BY <1>0, <2>3, OthersStay
  <2>5. PICK row \in DocRow : row = errand[a].row
    BY <2>2
  <2>6. TokensOK' /\ NoneComesBack
    BY <1>0, <2>2, <2>3, <2>4, <2>5, TokenCommitted
  <2>7. MailsOK'
    BY <1>0, <2>3, <2>4, MailsUndisturbed DEF NoErrand, MailStep
  <2>8. FileOfNumber'
    BY <2>3, FilesStay
  <2> QED
    BY <2>1, <2>6, <2>7, <2>8 DEF DeliveryStepOK, DeliveryInv
<1>8. ASSUME NEW a \in Actor, Lost(a) PROVE DeliveryStepOK
  <2>1. DeliveryTypes'
    BY <1>0, <1>8, StepTypes
  <2>2. Does(a, NoErrand) /\ UNCHANGED <<doc, files, mailLog, left, confirmed, linked, clock, requests>>
    BY <1>8 DEF Lost
  <2>3. errand'[a] = NoErrand /\ \A b \in Actor \ {a} : errand'[b] = errand[b]
    BY <1>0, <2>2, OthersStay
  <2>4. ~Brings(errand'[a]) /\ errand'[a].step \notin MailStep
    BY <2>3 DEF Brings, NoErrand, MailStep
  <2>5. MailsOK'
    BY <1>0, <2>2, <2>3, <2>4, MailsUndisturbed
  <2>6. FileOfNumber'
    BY <2>2, FilesStay
  <2> QED
    BY <2>1, <2>2, <2>3, <2>4, <2>5, <2>6, QuietStep
<1>9. ASSUME doc' \in DocRow, doc'.token = doc.token, clock' \in 0 .. MaxClock,
             UNCHANGED <<files, errand, mailLog, left, confirmed, linked, requests>>
      PROVE  DeliveryStepOK
  <2>1. DeliveryTypes'
    BY <1>0, <1>9 DEF DeliveryTypes
  <2>2. MailsOK'
    BY <1>0, <1>9, MailsUndisturbed
  <2>3. FileOfNumber'
    BY <1>9, FilesStay
  <2> QED
    BY <1>0, <1>9, <2>1, <2>2, <2>3, QuietStep DEF Brings
<1>10. ASSUME Visit PROVE DeliveryStepOK
  <2>1. doc' = Stamped(doc) /\ UNCHANGED <<files, errand, mailLog, left, confirmed, linked, clock, requests>>
    BY <1>10 DEF Visit
  <2>2. Stamped(doc) \in DocRow
    BY <1>0, StampedType DEF DeliveryTypes
  <2>3. Stamped(doc).token = doc.token
    BY <1>0 DEF Stamped, DocRow
  <2> QED
    BY <1>0, <1>9, <2>1, <2>2, <2>3 DEF DeliveryTypes
<1>11. ASSUME Tick PROVE DeliveryStepOK
  <2>1. clock' \in 0 .. MaxClock /\ UNCHANGED <<doc, files, errand, mailLog, left, confirmed, linked, requests>>
    BY <1>0, <1>11, DeliveryAssumption DEF Tick, DeliveryTypes
  <2> QED
    BY <1>0, <1>9, <2>1
<1> QED
  BY <1>2, <1>4, <1>5, <1>6, <1>7, <1>8, <1>10, <1>11

LEMMA DeliveryStep == DeliveryInv /\ [DocumentDeliveryNext]_deliveryVars => DeliveryStepOK
<1> SUFFICES ASSUME DeliveryInv, [DocumentDeliveryNext]_deliveryVars PROVE DeliveryStepOK
  OBVIOUS
<1>1. CASE Edit \/ Visit \/ Tick
  BY <1>1, DocumentSteps
<1>2. CASE \E kind \in MailKind, attach \in BOOLEAN : OpenMail(kind, attach)
  BY <1>2, OpenSteps
<1>3. CASE QueueMail \/ RecordMail \/ MarkMailed
  BY <1>3, MailingSteps
<1>4. ASSUME NEW a \in Pool,
             \/ Issue(a) \/ ShowPdf(a, "page") \/ ShowPdf(a, "api")
             \/ \E withLink, attach \in BOOLEAN : OpenApiMail(a, withLink, attach)
             \/ FlushMail(a) \/ CommitApiMail(a) \/ RememberWithMail(a)
      PROVE  DeliveryStepOK
  <2>1. a \in Actor /\ "page" \in By /\ "api" \in By
    BY DEF Actor, By
  <2>2. CASE Issue(a)
    BY <2>2, DocumentSteps
  <2>3. CASE ShowPdf(a, "page") \/ ShowPdf(a, "api")
    BY <2>1, <2>3, OpenSteps
  <2>4. CASE \E withLink, attach \in BOOLEAN : OpenApiMail(a, withLink, attach)
    BY <2>4, OpenSteps
  <2>5. CASE FlushMail(a) \/ CommitApiMail(a)
    BY <2>5, MailingSteps
  <2>6. CASE RememberWithMail(a)
    BY <2>1, <2>6, PdfSteps
  <2> QED
    BY <1>4, <2>2, <2>3, <2>4, <2>5, <2>6
<1>5. ASSUME NEW a \in Actor,
             \/ MarkPaid(a) \/ Revert(a)
             \/ \E what \in LinkOp : OpenLink(a, what)
             \/ CommitLink(a) \/ Store(a) \/ RememberPdf(a) \/ PdfFails(a)
             \/ SmtpAccepts(a) \/ SmtpFails(a) \/ Lost(a)
      PROVE  DeliveryStepOK
  <2>1. CASE MarkPaid(a) \/ Revert(a) \/ CommitLink(a) \/ Lost(a)
    BY <2>1, DocumentSteps
  <2>2. CASE \E what \in LinkOp : OpenLink(a, what)
    BY <2>2, OpenSteps
  <2>3. CASE Store(a) \/ RememberPdf(a) \/ PdfFails(a)
    BY <2>3, PdfSteps
  <2>4. CASE SmtpAccepts(a) \/ SmtpFails(a)
    BY <2>4, MailingSteps
  <2> QED
    BY <1>5, <2>1, <2>2, <2>3, <2>4
<1>6. CASE UNCHANGED deliveryVars
  BY <1>6 DEF deliveryVars, DeliveryStepOK, DeliveryInv, DeliveryTypes, MailsOK, MailLog, TokensOK,
              Brings, FileOfNumber, NoneComesBack
<1> QED
  BY <1>1, <1>2, <1>3, <1>4, <1>5, <1>6 DEF DocumentDeliveryNext

(* The type invariant of the delivery: the row, the files and the log are well
   formed and every request is at one of its steps, however they overlap. *)
THEOREM DeliveryTypeCorrect == DocumentDeliverySpec => []DocumentDeliveryTypeOK
<1>1. DeliveryInv => DocumentDeliveryTypeOK
  <2> SUFFICES ASSUME DeliveryInv PROVE DocumentDeliveryTypeOK
    OBVIOUS
  <2>1. DeliveryTypes
    BY DEF DeliveryInv
  <2>2. \A a \in Actor : errand[a].step \in Step
    <3>1. \A a \in Actor : errand[a] \in PageErrands \cup PoolErrands
      BY <2>1 DEF DeliveryTypes
    <3>2. \A e \in PageErrands : e.step \in Step
      BY DEF PageErrands, AnyErrand, NoErrand, PlainRender, LinkErrand, QueueRender, PageErrand,
             PageMail, RenderStep, MailStep, Step
    <3>3. \A e \in PoolErrands : e.step \in Step
      BY DEF PoolErrands, AnyErrand, NoErrand, PlainRender, LinkErrand, ApiErrand, FlushErrand,
             ApiMail, RenderStep, MailStep, Step
    <3> QED
      BY <3>1, <3>2, <3>3
  <2> QED
    BY <2>1, <2>2 DEF DeliveryTypes, DocumentDeliveryTypeOK
<1>2. DeliveryInv /\ [DocumentDeliveryNext]_deliveryVars => DeliveryInv'
  BY DeliveryStep DEF DeliveryStepOK
<1> QED
  BY <1>1, <1>2, DeliveryInitInv, PTL DEF DocumentDeliverySpec

(* The log of the mails never says that one was sent that did not leave, nor that one
   failed whose acceptance was learned, and shows whatever left through a page: for
   every overlap of the page, the threads of the API, lost answers of the mail server
   and ends of the process (send_via_smtp, the rows of InvoiceEmail). *)
THEOREM MailsAreLogged == DocumentDeliverySpec => []MailLog
<1>1. DeliveryInv => MailLog
  BY DEF DeliveryInv, MailsOK
<1>2. DeliveryInv /\ [DocumentDeliveryNext]_deliveryVars => DeliveryInv'
  BY DeliveryStep DEF DeliveryStepOK
<1> QED
  BY <1>1, <1>2, DeliveryInitInv, PTL DEF DocumentDeliverySpec

(* A stored PDF shows the number it is named after, whoever renders and reverts at
   the same time: the file is written with the number of the row it was made from. *)
THEOREM FilesShowTheirNumber == DocumentDeliverySpec => []FileOfNumber
<1>1. DeliveryInv => FileOfNumber
  BY DEF DeliveryInv
<1>2. DeliveryInv /\ [DocumentDeliveryNext]_deliveryVars => DeliveryInv'
  BY DeliveryStep DEF DeliveryStepOK
<1> QED
  BY <1>1, <1>2, DeliveryInitInv, PTL DEF DocumentDeliverySpec

(* The token of a public link that was withdrawn or replaced never is the
   document's again: no request writes back what it read earlier. *)
THEOREM WithdrawnTokens == DocumentDeliverySpec => WithdrawnStaysWithdrawn
<1>1. DeliveryInv /\ [DocumentDeliveryNext]_deliveryVars => DeliveryInv'
  BY DeliveryStep DEF DeliveryStepOK
<1>2. DeliveryInv /\ [DocumentDeliveryNext]_deliveryVars
        => [doc'.token \in linked => doc'.token = doc.token]_deliveryVars
  BY DeliveryStep DEF DeliveryStepOK, NoneComesBack
<1> QED
  BY <1>1, <1>2, DeliveryInitInv, PTL DEF DocumentDeliverySpec, WithdrawnStaysWithdrawn

-----------------------------------------------------------------------------
(***************************************************************************)
(* BankMailbox: no mail is skipped.  MailboxInv says that what a run has   *)
(* fetched since the last UID it has seen has no gap.                      *)
(***************************************************************************)

LEMMA GreatestExists ==
  ASSUME NEW B \in Nat, NEW S, S \subseteq 0..B, S # {}
  PROVE  \E x \in S : \A y \in S : x >= y
<1> DEFINE T == {n \in Nat : \E x \in S : n = B - x}
<1>1. T \subseteq Nat
  OBVIOUS
<1>2. T # {}
  <2>1. PICK x : x \in S
    OBVIOUS
  <2>2. B - x \in T
    BY <2>1
  <2> QED
    BY <2>2
<1> HIDE DEF T
<1>3. PICK m \in T : \A n \in T : ~(<<n, m>> \in OpToRel(<, Nat))
  BY <1>1, <1>2, NatLessThanWellFounded, WFMin
<1> USE DEF T
<1>4. PICK x \in S : m = B - x
  BY <1>3
<1>5. ASSUME NEW y \in S PROVE x >= y
  <2>1. B - y \in T
    BY <1>5
  <2>2. ~(B - y < B - x)
    BY <2>1, <1>3, <1>4 DEF OpToRel
  <2> QED
    BY <2>2
<1> QED
  BY <1>4, <1>5

LEMMA MaxOfUids ==
  ASSUME NEW S, S \subseteq UID, S # {}
  PROVE  Max(S) \in S /\ \A y \in S : Max(S) >= y
<1>1. MaxMail \in Nat /\ S \subseteq 0..MaxMail
  BY MailboxAssumption DEF UID
<1>2. \E x \in S : \A y \in S : x >= y
  BY <1>1, GreatestExists
<1> QED
  BY <1>2 DEF Max

-----------------------------------------------------------------------------
Full == Len(inbox) = arrived /\ \A i \in 1..arrived : inbox[i] = i

(* What a run has fetched has no gap, but for what its FETCH missed. *)
SessionOK(s) ==
  /\ s.got \subseteq 1..arrived /\ s.missed \subseteq 1..arrived
  /\ s.step = "store" /\ s.seen.lastUid # None /\ ~holes =>
       \A u \in UID, g \in s.got : s.seen.lastUid < u /\ u <= g => u \in s.got \cup s.missed

MailboxInv ==
  /\ MailboxTypeOK
  /\ inbox \in Seq(UID)
  /\ ~holes => Full
  /\ \A r \in MailRun : mailRun[r] # None => SessionOK(mailRun[r])
  /\ NoMailSkipped

LEMMA MailboxInitInv == MailboxInit => MailboxInv
<1> SUFFICES ASSUME MailboxInit PROVE MailboxInv
  OBVIOUS
<1>1. MailboxTypeOK
  BY MailboxAssumption DEF MailboxInit, MailboxTypeOK, MailAccount, MailParser
<1> QED
  BY <1>1, MailboxAssumption DEF MailboxInit, MailboxInv, Full, NoMailSkipped

LEMMA ArriveMailStep == MailboxInv /\ ArriveMail => MailboxInv'
<1> SUFFICES ASSUME MailboxInv, ArriveMail PROVE MailboxInv'
  OBVIOUS
<1>0. MaxMail \in Nat /\ arrived \in 0..MaxMail /\ inbox \in Seq(UID) /\ arrived < MaxMail
      /\ \A i \in DOMAIN inbox : inbox[i] \in 1..arrived
  BY MailboxAssumption DEF MailboxInv, MailboxTypeOK, ArriveMail
<1>1. /\ arrived' = arrived + 1 /\ inbox' = Append(inbox, arrived + 1) /\ arrived + 1 \in UID
      /\ UNCHANGED <<mailAccount, mailRows, mailRun, baseline, unfetched, holes, mailSaves>>
  BY <1>0 DEF ArriveMail, UID
<1>2. inbox' \in Seq(UID) /\ \A i \in DOMAIN inbox' : inbox'[i] \in 1..arrived'
  BY <1>0, <1>1
<1>3. MailboxTypeOK'
  BY <1>0, <1>1, <1>2 DEF MailboxInv, MailboxTypeOK
<1>4. ~holes' => Full'
  BY <1>0, <1>1 DEF MailboxInv, Full
<1>5. \A r \in MailRun : mailRun'[r] # None => SessionOK(mailRun[r])'
  BY <1>0, <1>1 DEF MailboxInv, SessionOK
<1>6. NoMailSkipped'
  BY <1>1 DEF MailboxInv, NoMailSkipped
<1> QED
  BY <1>1, <1>2, <1>3, <1>4, <1>5, <1>6 DEF MailboxInv, SessionOK

LEMMA ExpungeMailStep == ASSUME NEW u \in UID PROVE MailboxInv /\ ExpungeMail(u) => MailboxInv'
<1> SUFFICES ASSUME MailboxInv, ExpungeMail(u) PROVE MailboxInv'
  OBVIOUS
<1>0. inbox \in Seq(UID) /\ \A i \in DOMAIN inbox : inbox[i] \in 1..arrived
  BY DEF MailboxInv, MailboxTypeOK
<1>1. PICK i \in DOMAIN inbox : inbox' = RemoveAt(inbox, i)
  BY DEF ExpungeMail
<1>2. holes' = TRUE /\ UNCHANGED <<arrived, mailAccount, mailRows, mailRun, baseline, unfetched, mailSaves>>
  BY DEF ExpungeMail
<1>3. inbox' = SubSeq(inbox, 1, i-1) \o SubSeq(inbox, i+1, Len(inbox))
  BY <1>1 DEF RemoveAt
<1>4. inbox' \in Seq(UID) /\ \A j \in DOMAIN inbox' : \E k \in DOMAIN inbox : inbox'[j] = inbox[k]
  <2> DEFINE x == SubSeq(inbox, 1, i-1)  y == SubSeq(inbox, i+1, Len(inbox))
  <2>1. i \in 1..Len(inbox) /\ Len(inbox) \in Nat
    BY <1>0
  <2>2. /\ x \in Seq(UID) /\ Len(x) = i - 1
        /\ \A j \in 1..(i-1) : x[j] = inbox[j]
    BY <1>0, <2>1
  <2>3. /\ y \in Seq(UID) /\ Len(y) = Len(inbox) - i
        /\ \A j \in 1..(Len(inbox) - i) : y[j] = inbox[i + j]
    BY <1>0, <2>1
  <2> HIDE DEF x, y
  <2>4. inbox' = x \o y
    BY <1>3 DEF x, y
  <2>5. inbox' \in Seq(UID) /\ Len(inbox') = Len(inbox) - 1
    BY <2>1, <2>2, <2>3, <2>4
  <2>6. ASSUME NEW j \in DOMAIN inbox' PROVE \E k \in DOMAIN inbox : inbox'[j] = inbox[k]
    <3>1. j \in 1..(Len(inbox) - 1) /\ DOMAIN inbox = 1..Len(inbox)
      BY <1>0, <2>5
    <3>2. CASE j <= i - 1
      <4>1. inbox'[j] = inbox[j]
        BY <2>1, <2>2, <2>3, <2>4, <3>1, <3>2
      <4> QED
        BY <3>1, <4>1
    <3>3. CASE j > i - 1
      <4>1. inbox'[j] = y[j - (i - 1)]
        BY <2>1, <2>2, <2>3, <2>4, <3>1, <3>3
      <4>2. j - (i - 1) \in 1..(Len(inbox) - i)
        BY <2>1, <3>1, <3>3
      <4>3. y[j - (i - 1)] = inbox[i + (j - (i - 1))] /\ i + (j - (i - 1)) \in 1..Len(inbox)
        BY <2>1, <2>3, <4>2
      <4> QED
        BY <3>1, <4>1, <4>3
    <3> QED
      BY <2>1, <3>1, <3>2, <3>3
  <2> QED
    BY <2>5, <2>6
<1>5. \A j \in DOMAIN inbox' : inbox'[j] \in 1..arrived'
  BY <1>0, <1>2, <1>4
<1>6. MailboxTypeOK'
  BY <1>2, <1>5 DEF MailboxInv, MailboxTypeOK
<1>7. \A r \in MailRun : mailRun'[r] # None => SessionOK(mailRun[r])'
  BY <1>2 DEF MailboxInv, SessionOK
<1> QED
  BY <1>2, <1>4, <1>6, <1>7 DEF MailboxInv, NoMailSkipped, SessionOK

LEMMA AccountSteps ==
  ASSUME MailboxInv
  PROVE  /\ \A on \in BOOLEAN, parser \in MailParser : SaveMailAccount(on, parser) => MailboxInv'
         /\ RemoveMailAccount => MailboxInv'
<1>1. ASSUME NEW on \in BOOLEAN, NEW parser \in MailParser, SaveMailAccount(on, parser)
      PROVE  MailboxInv'
  <2>1. /\ mailAccount # None /\ mailSaves < MaxMailSaves /\ mailSaves' = mailSaves + 1
        /\ UNCHANGED <<inbox, arrived, mailRows, mailRun, baseline, unfetched, holes>>
    BY <1>1 DEF SaveMailAccount
  <2>2. PICK last \in {None, mailAccount.lastUid} :
          mailAccount' = [on |-> on, parser |-> parser, lastUid |-> last]
    BY <1>1 DEF SaveMailAccount
  <2>3. mailAccount \in MailAccount
    BY <2>1 DEF MailboxInv, MailboxTypeOK
  <2>4. mailAccount' \in MailAccount /\ mailAccount'.lastUid = last
    BY <2>2, <2>3 DEF MailAccount
  <2>5. mailSaves' \in 0..MaxMailSaves
    BY <2>1, MailboxAssumption DEF MailboxInv, MailboxTypeOK
  <2>6. MailboxTypeOK'
    BY <2>1, <2>4, <2>5 DEF MailboxInv, MailboxTypeOK
  <2>7. NoMailSkipped'
    BY <2>1, <2>4 DEF MailboxInv, NoMailSkipped
  <2>8. \A r \in MailRun : mailRun'[r] # None => SessionOK(mailRun[r])'
    BY <2>1 DEF MailboxInv, SessionOK
  <2> QED
    BY <2>1, <2>6, <2>7, <2>8 DEF MailboxInv, SessionOK, Full
<1>2. ASSUME RemoveMailAccount PROVE MailboxInv'
  <2>1. /\ mailAccount' = None /\ mailRows' = <<>>
        /\ UNCHANGED <<inbox, arrived, mailRun, baseline, unfetched, holes, mailSaves>>
    BY <1>2 DEF RemoveMailAccount
  <2>2. MailboxTypeOK' /\ NoMailSkipped'
    BY <2>1 DEF MailboxInv, MailboxTypeOK, NoMailSkipped
  <2>3. \A r \in MailRun : mailRun'[r] # None => SessionOK(mailRun[r])'
    BY <2>1 DEF MailboxInv, SessionOK
  <2> QED
    BY <2>1, <2>2, <2>3 DEF MailboxInv, SessionOK, Full
<1> QED
  BY <1>1, <1>2

(* A step of one run that leaves the mailbox, the account and the rows alone. *)
LEMMA RunStep ==
  ASSUME MailboxInv, NEW r \in MailRun, NEW s \in MailSession \cup {None},
         mailRun' = [mailRun EXCEPT ![r] = s], s # None => SessionOK(s),
         UNCHANGED <<inbox, arrived, mailAccount, mailRows, baseline, unfetched, holes, mailSaves>>
  PROVE  MailboxInv'
<1>1. mailRun' \in [MailRun -> MailSession \cup {None}] /\ mailRun'[r] = s
      /\ \A q \in MailRun \ {r} : mailRun'[q] = mailRun[q]
  BY DEF MailboxInv, MailboxTypeOK
<1>2. MailboxTypeOK' /\ NoMailSkipped'
  BY <1>1 DEF MailboxInv, MailboxTypeOK, NoMailSkipped
<1>3. \A q \in MailRun : mailRun'[q] # None => SessionOK(mailRun[q])'
  <2> SUFFICES ASSUME NEW q \in MailRun, mailRun'[q] # None PROVE SessionOK(mailRun[q])'
    OBVIOUS
  <2>1. CASE q = r
    BY <1>1, <2>1 DEF SessionOK
  <2>2. CASE q # r
    BY <1>1, <2>2 DEF MailboxInv, SessionOK
  <2> QED
    BY <2>1, <2>2
<1> QED
  BY <1>2, <1>3 DEF MailboxInv, Full

LEMMA RunSteps ==
  ASSUME MailboxInv, NEW r \in MailRun
  PROVE  /\ StartMailRun(r) => MailboxInv'
         /\ FetchMails(r) => MailboxInv'
         /\ DropMailRun(r) => MailboxInv'
<1>1. ASSUME StartMailRun(r) PROVE MailboxInv'
  <2>1. PICK acc : acc = mailAccount
    OBVIOUS
  <2>2. acc \in MailAccount
    BY <1>1, <2>1 DEF StartMailRun, MailboxInv, MailboxTypeOK
  <2> DEFINE s == [step |-> "search", seen |-> acc, got |-> {}, missed |-> {}]
  <2>3. s \in MailSession /\ SessionOK(s)
    BY <2>2 DEF MailSession, SessionOK
  <2>4. /\ mailRun' = [mailRun EXCEPT ![r] = s]
        /\ UNCHANGED <<inbox, arrived, mailAccount, mailRows, baseline, unfetched, holes, mailSaves>>
    BY <1>1, <2>1 DEF StartMailRun
  <2> QED
    BY <2>3, <2>4, RunStep
<1>2. ASSUME FetchMails(r) PROVE MailboxInv'
  <2>1. PICK old \in MailSession : old = mailRun[r]
    BY <1>2 DEF FetchMails, MailboxInv, MailboxTypeOK
  <2>2. PICK found : found = Searched(mailRun[r].seen.lastUid)
    OBVIOUS
  <2>a. PICK missed \in FailedFetches(Searched(mailRun[r].seen.lastUid)) :
          mailRun' = [mailRun EXCEPT ![r] =
            [mailRun[r] EXCEPT !.step = "store", !.got = Searched(mailRun[r].seen.lastUid) \ missed,
                               !.missed = missed]]
    BY <1>2, Zenon DEF FetchMails
  <2>3. /\ mailRun' = [mailRun EXCEPT ![r] =
                         [old EXCEPT !.step = "store", !.got = found \ missed, !.missed = missed]]
        /\ UNCHANGED <<inbox, arrived, mailAccount, mailRows, baseline, unfetched, holes, mailSaves>>
        /\ missed \subseteq found
    <3>1. missed \in {{}} \cup {{u} : u \in found}
      BY <2>2, <2>a, Zenon DEF FailedFetches
    <3> QED
      BY <1>2, <2>1, <2>2, <2>a, <3>1 DEF FetchMails
  <2> DEFINE s == [old EXCEPT !.step = "store", !.got = found \ missed, !.missed = missed]
  <2>4. mailRun' = [mailRun EXCEPT ![r] = s]
    BY <2>3
  <2>5. /\ inbox \in Seq(UID) /\ arrived \in 0..MaxMail
        /\ \A i \in DOMAIN inbox : inbox[i] \in 1..arrived
        /\ ~holes => Full
    BY DEF MailboxInv, MailboxTypeOK
  <2>6. found \subseteq 1..arrived /\ 1..arrived \subseteq UID
    BY <2>1, <2>2, <2>5, MailboxAssumption DEF Searched, UID
  <2>7. s \in MailSession
    BY <2>1, <2>3, <2>6 DEF MailSession
  <2>8. s.got = found \ missed /\ s.missed = missed /\ s.seen = old.seen /\ s.step = "store"
    BY <2>1 DEF MailSession
  <2>9. ASSUME ~holes, old.seen.lastUid # None, NEW u \in UID, NEW g \in found,
               old.seen.lastUid < u, u <= g
        PROVE  u \in found
    <3>1. old.seen.lastUid \in UID
      BY <2>1, <2>9 DEF MailSession, MailAccount
    <3>2. g \in 1..arrived /\ DOMAIN inbox = 1..arrived /\ \A i \in 1..arrived : inbox[i] = i
      BY <2>5, <2>6, <2>9 DEF Full
    <3>3. u \in 1..arrived /\ u >= old.seen.lastUid + 1 /\ inbox[u] = u
      BY <2>5, <2>9, <3>1, <3>2, MailboxAssumption DEF UID
    <3> QED
      BY <2>1, <2>2, <2>9, <3>2, <3>3 DEF Searched
  <2> HIDE DEF s
  <2>10. SessionOK(s)
    BY <2>3, <2>6, <2>8, <2>9 DEF SessionOK
  <2> QED
    BY <2>3, <2>4, <2>7, <2>10, RunStep
<1>3. ASSUME DropMailRun(r) PROVE MailboxInv'
  BY <1>3, RunStep DEF DropMailRun
<1> QED
  BY <1>1, <1>2, <1>3

LEMMA RowsAfterDomain ==
  ASSUME NEW new
  PROVE  /\ DOMAIN RowsAfter(new) = DOMAIN mailRows \cup new
         /\ (\A u \in DOMAIN mailRows : mailRows[u] \in {"stored", "parse_failed", "done"}) =>
              \A u \in DOMAIN RowsAfter(new) : RowsAfter(new)[u] \in {"stored", "parse_failed", "done"}
<1>1. DOMAIN RowsAfter(new) = DOMAIN mailRows \cup new
  BY DEF RowsAfter
<1>2. ASSUME \A u \in DOMAIN mailRows : mailRows[u] \in {"stored", "parse_failed", "done"},
             NEW u \in DOMAIN mailRows \cup new
      PROVE  RowsAfter(new)[u] \in {"stored", "parse_failed", "done"}
  <2>1. Processed(u) \in {"stored", "parse_failed", "done"}
    BY DEF Processed
  <2>2. CASE u \in new
    BY <2>1, <2>2 DEF RowsAfter
  <2>3. CASE u \notin new
    BY <1>2, <2>1, <2>3 DEF RowsAfter
  <2> QED
    BY <2>2, <2>3
<1> QED
  BY <1>1, <1>2

(* What a run read goes into the table, if the account is as it was. *)
LEMMA StoreMailsStep == ASSUME MailboxInv, NEW r \in MailRun, StoreMails(r) PROVE MailboxInv'
<1>1. PICK s \in MailSession : s = mailRun[r]
  BY DEF StoreMails, MailboxInv, MailboxTypeOK
<1>2. /\ s.step = "store" /\ mailAccount = s.seen
      /\ mailRun' = [mailRun EXCEPT ![r] = None]
      /\ UNCHANGED <<inbox, arrived, holes, mailSaves>>
  BY <1>1 DEF StoreMails
<1>3. /\ mailAccount \in MailAccount /\ mailAccount # None /\ s.seen \in MailAccount
      /\ s.got \subseteq 1..arrived /\ s.missed \subseteq 1..arrived
      /\ arrived \in 0..MaxMail /\ 1..arrived \subseteq UID /\ UID \subseteq Int /\ None \notin UID
  <2>1. SessionOK(s)
    BY <1>1, MailboxAssumption DEF MailboxInv, SessionOK
  <2>2. mailAccount \in MailAccount /\ mailAccount # None
    BY <1>2, MailboxAssumption DEF MailSession
  <2>3. arrived \in 0..MaxMail
    BY DEF MailboxInv, MailboxTypeOK
  <2>4. UID \subseteq Int /\ 1..arrived \subseteq UID
    BY <2>3, MailboxAssumption DEF UID
  <2> QED
    BY <1>2, <2>1, <2>2, <2>3, <2>4, MailboxAssumption DEF SessionOK
<1>4. /\ mailRun' \in [MailRun -> MailSession \cup {None}]
      /\ \A q \in MailRun : mailRun'[q] # None => mailRun[q] # None /\ mailRun'[q] = mailRun[q]
  BY <1>2 DEF MailboxInv, MailboxTypeOK
<1>5. \A q \in MailRun : mailRun'[q] # None => SessionOK(mailRun[q])'
  BY <1>2, <1>4 DEF MailboxInv, SessionOK
<1>6. ~holes' => Full'
  BY <1>2 DEF MailboxInv, Full
<1>7. ASSUME NEW last \in UID, mailAccount' = [mailAccount EXCEPT !.lastUid = last]
      PROVE  mailAccount' \in MailAccount /\ mailAccount'.lastUid = last
  BY <1>3, <1>7 DEF MailAccount
<1>8. DOMAIN mailRows \subseteq UID /\ baseline \in 0..arrived /\ unfetched \subseteq UID
      /\ \A u \in DOMAIN mailRows : mailRows[u] \in {"stored", "parse_failed", "done"}
  BY DEF MailboxInv, MailboxTypeOK
<1>9. ASSUME MailboxTypeOK', NoMailSkipped' PROVE MailboxInv'
  BY <1>2, <1>5, <1>6, <1>9 DEF MailboxInv
<1>10. CASE /\ s.seen.lastUid = None /\ s.got # {}
            /\ mailAccount' = [mailAccount EXCEPT !.lastUid = Max(s.got)]
            /\ baseline' = Max(s.got) /\ UNCHANGED <<mailRows, unfetched>>
  <2>1. Max(s.got) \in s.got
    BY <1>3, <1>10, MaxOfUids
  <2>2. mailAccount' \in MailAccount /\ mailAccount'.lastUid = Max(s.got)
    BY <1>3, <1>7, <1>10, <2>1
  <2>3. baseline' \in 0..arrived'
    BY <1>2, <1>3, <1>10, <2>1
  <2>4. MailboxTypeOK'
    BY <1>2, <1>4, <1>8, <1>10, <2>2, <2>3 DEF MailboxInv, MailboxTypeOK
  <2>5. NoMailSkipped'
    <3> SUFFICES ASSUME NEW u \in Notice, baseline' < u, u <= mailAccount'.lastUid PROVE FALSE
      BY DEF NoMailSkipped
    <3>1. u \in Int
      BY MailboxAssumption DEF UID
    <3>2. PICK m \in Int : m = Max(s.got)
      BY <1>3, <2>1
    <3> QED
      BY <1>10, <2>2, <3>1, <3>2
  <2> QED
    BY <1>9, <2>4, <2>5
<1>11. CASE /\ s.seen.lastUid = None /\ s.got = {}
            /\ mailRows' = RowsAfter({}) /\ UNCHANGED <<mailAccount, baseline, unfetched>>
  <2>1. /\ DOMAIN mailRows' = DOMAIN mailRows
        /\ \A u \in DOMAIN mailRows' : mailRows'[u] \in {"stored", "parse_failed", "done"}
    BY <1>8, <1>11, RowsAfterDomain
  <2>2. MailboxTypeOK' /\ NoMailSkipped'
    BY <1>2, <1>4, <1>8, <1>11, <2>1 DEF MailboxInv, MailboxTypeOK, NoMailSkipped
  <2> QED
    BY <1>9, <2>2
<1>12. CASE /\ s.seen.lastUid # None
            /\ mailRows' = RowsAfter(MailsToStore(s))
            /\ mailAccount' = [mailAccount EXCEPT !.lastUid = Max(s.got \cup {s.seen.lastUid})]
            /\ unfetched' = unfetched \cup s.missed /\ UNCHANGED baseline
  <2> DEFINE L == s.seen.lastUid
             S == s.got \cup {L}
  <2>1. L \in UID
    BY <1>3, <1>12 DEF MailAccount
  <2>2. Max(S) \in S /\ S \subseteq UID
    BY <1>3, <2>1, MaxOfUids
  <2>3. mailAccount' \in MailAccount /\ mailAccount'.lastUid = Max(S)
    BY <1>7, <1>12, <2>2
  <2>4. /\ DOMAIN mailRows' = DOMAIN mailRows \cup MailsToStore(s)
        /\ \A u \in DOMAIN mailRows' : mailRows'[u] \in {"stored", "parse_failed", "done"}
    BY <1>8, <1>12, RowsAfterDomain
  <2>5. DOMAIN mailRows' = DOMAIN mailRows \cup (s.got \cap Notice)
    BY <2>4 DEF MailsToStore
  <2>6. MailboxTypeOK'
    BY <1>2, <1>3, <1>4, <1>8, <1>12, <2>3, <2>4, <2>5 DEF MailboxInv, MailboxTypeOK
  <2>7. ASSUME ~holes', NEW u \in Notice \ unfetched', baseline' < u, u <= mailAccount'.lastUid
        PROVE  u \in DOMAIN mailRows'
    <3> HIDE DEF S
    <3>1. u \notin unfetched /\ u \notin s.missed /\ ~holes /\ baseline < u /\ baseline \in Int
      BY <1>2, <1>8, <1>12, <2>7
    <3>2. mailAccount.lastUid = L
      BY <1>2
    <3>3. CASE u <= L
      <4>1. u \in DOMAIN mailRows
        BY <1>3, <1>12, <2>7, <3>1, <3>2, <3>3 DEF MailboxInv, NoMailSkipped
      <4> QED
        BY <2>5, <4>1
    <3>4. CASE ~(u <= L)
      <4>1. Max(S) \in s.got /\ u \in UID /\ L < u
        <5> USE DEF S
        <5> QED
          <6>1. L \in Int /\ u \in UID /\ u \in Int
            BY <1>3, <2>1, <2>7, MailboxAssumption
          <6>2. PICK m \in S : m = Max(S)
            BY <2>2
          <6>3. m \in Int /\ u <= m
            BY <1>3, <2>2, <2>3, <2>7, <6>2
          <6>4. L < u /\ m # L
            BY <3>4, <6>1, <6>3
          <6> QED
            BY <6>1, <6>2, <6>4
      <4>2. SessionOK(s)
        BY <1>1, MailboxAssumption DEF MailboxInv, SessionOK
      <4>3. u \in s.got \cup s.missed
        BY <1>2, <1>12, <2>3, <2>7, <3>1, <4>1, <4>2 DEF SessionOK
      <4> QED
        BY <2>5, <3>1, <4>3
    <3> QED
      BY <3>3, <3>4
  <2>8. NoMailSkipped'
    BY <2>7 DEF NoMailSkipped
  <2> QED
    BY <1>9, <2>6, <2>8
<1> QED
  BY <1>1, <1>10, <1>11, <1>12 DEF StoreMails

LEMMA MailboxStep == MailboxInv /\ [MailboxNext]_mailboxVars => MailboxInv'
<1> SUFFICES ASSUME MailboxInv, [MailboxNext]_mailboxVars PROVE MailboxInv'
  OBVIOUS
<1>1. CASE UNCHANGED mailboxVars
  BY <1>1 DEF mailboxVars, MailboxInv, MailboxTypeOK, Full, SessionOK, NoMailSkipped
<1>2. CASE MailboxNext
  BY <1>2, ArriveMailStep, ExpungeMailStep, AccountSteps, RunSteps, StoreMailsStep DEF MailboxNext
<1> QED
  BY <1>1, <1>2

(* The type invariant of the mailbox: its account, the rows and the runs. *)
THEOREM MailboxTypeCorrect == MailboxSpec => []MailboxTypeOK
<1>1. MailboxInv => MailboxTypeOK
  BY DEF MailboxInv
<1> QED
  BY <1>1, MailboxInitInv, MailboxStep, PTL DEF MailboxSpec

(* The last UID of an account never gets ahead of what is stored, whichever runs
   overlap and however the account is saved meanwhile: what a run sets it to has
   no mail below it that neither it nor an earlier run has read. *)
THEOREM EveryMailIsStored == MailboxSpec => []NoMailSkipped
<1>1. MailboxInv => NoMailSkipped
  BY DEF MailboxInv
<1> QED
  BY <1>1, MailboxInitInv, MailboxStep, PTL DEF MailboxSpec

-----------------------------------------------------------------------------
(* What came before the baseline *)

\* The account is never behind its baseline, and nobody is ahead of the mailbox.
LastOK ==
  mailAccount # None /\ mailAccount.lastUid # None =>
    baseline <= mailAccount.lastUid /\ mailAccount.lastUid <= arrived

\* A run reads the last UID it knows and what follows.
ReadOK(s) ==
  s.seen.lastUid # None =>
    /\ s.seen.lastUid <= arrived
    /\ s.step = "store" /\ ~holes => \A g \in s.got : g >= s.seen.lastUid

OldMailsInv == LastOK /\ \A r \in MailRun : mailRun[r] # None => ReadOK(mailRun[r])

LEMMA FetchReads ==
  ASSUME MailboxInv, OldMailsInv, NEW r \in MailRun, FetchMails(r)
  PROVE  ReadOK(mailRun[r])'
<1>1. PICK old \in MailSession : old = mailRun[r]
  BY DEF FetchMails, MailboxInv, MailboxTypeOK
<1>2. PICK found : found = Searched(mailRun[r].seen.lastUid)
  OBVIOUS
<1>3. PICK missed \in FailedFetches(Searched(mailRun[r].seen.lastUid)) :
        mailRun' = [mailRun EXCEPT ![r] =
          [mailRun[r] EXCEPT !.step = "store", !.got = Searched(mailRun[r].seen.lastUid) \ missed,
                             !.missed = missed]]
  BY Zenon DEF FetchMails
<1>4. PICK new : new = mailRun'[r]
  OBVIOUS
<1>5. new = [old EXCEPT !.step = "store", !.got = found \ missed, !.missed = missed]
  BY <1>1, <1>2, <1>3, <1>4 DEF MailboxInv, MailboxTypeOK
<1>6. new.seen = old.seen /\ new.got \subseteq found
  BY <1>1, <1>5 DEF MailSession
<1>7. UNCHANGED <<arrived, holes>>
  BY DEF FetchMails
<1>8. old # None /\ old.seen \in MailAccount
  BY <1>1 DEF FetchMails, MailSession
<1>9. old.seen.lastUid # None => old.seen.lastUid <= arrived /\ old.seen.lastUid \in UID
  BY <1>1, <1>8 DEF OldMailsInv, ReadOK, MailAccount
<1>10. ASSUME old.seen.lastUid # None, ~holes, NEW g \in found PROVE g >= old.seen.lastUid
  <2>1. DOMAIN inbox = 1..arrived /\ (\A i \in 1..arrived : inbox[i] = i) /\ arrived \in Nat
    BY <1>10, MailboxAssumption DEF MailboxInv, MailboxTypeOK, Full
  <2>2. PICK j \in 1..arrived : g = j /\ (j >= old.seen.lastUid + 1 \/ j = Len(inbox))
    BY <1>1, <1>2, <1>10, <2>1 DEF Searched
  <2>3. Len(inbox) = arrived
    BY <1>10 DEF MailboxInv, Full
  <2>4. old.seen.lastUid \in Int /\ old.seen.lastUid <= arrived
    BY <1>9, <1>10 DEF UID
  <2> QED
    BY <2>1, <2>2, <2>3, <2>4
<1> QED
  BY <1>4, <1>6, <1>7, <1>9, <1>10 DEF ReadOK

LEMMA StoreKeepsLast ==
  ASSUME MailboxInv, OldMailsInv, NEW r \in MailRun, StoreMails(r)
  PROVE  /\ LastOK'
         /\ ~holes => \A u \in DOMAIN mailRows' \ DOMAIN mailRows : u >= baseline
<1>1. PICK s \in MailSession : s = mailRun[r]
  BY DEF StoreMails, MailboxInv, MailboxTypeOK
<1>2. s # None /\ s.step = "store" /\ mailAccount = s.seen /\ UNCHANGED <<inbox, arrived, holes>>
  BY <1>1 DEF StoreMails
<1>3. mailAccount \in MailAccount /\ mailAccount # None
  BY <1>2, MailboxAssumption DEF MailSession
<1>4. /\ arrived \in Nat /\ baseline \in Nat /\ baseline <= arrived
      /\ s.got \subseteq 1..arrived /\ 1..arrived \subseteq UID /\ UID \subseteq Int
  <2>1. SessionOK(s)
    BY <1>1, <1>2 DEF MailboxInv
  <2>2. arrived \in 0..MaxMail /\ baseline \in 0..arrived
    BY DEF MailboxInv, MailboxTypeOK
  <2> QED
    BY <2>1, <2>2, MailboxAssumption DEF SessionOK, UID
<1>5. ASSUME NEW last \in UID, mailAccount' = [mailAccount EXCEPT !.lastUid = last]
      PROVE  mailAccount'.lastUid = last
  BY <1>3, <1>5 DEF MailAccount
<1>6. CASE /\ s.seen.lastUid = None /\ s.got # {}
           /\ mailAccount' = [mailAccount EXCEPT !.lastUid = Max(s.got)]
           /\ baseline' = Max(s.got) /\ UNCHANGED <<mailRows, unfetched>>
  <2>1. Max(s.got) \in 1..arrived
    BY <1>4, <1>6, MaxOfUids
  <2>2. PICK m \in 1..arrived : m = Max(s.got)
    BY <2>1
  <2>3. mailAccount'.lastUid = m /\ baseline' = m
    BY <1>4, <1>5, <1>6, <2>2
  <2> QED
    BY <1>2, <1>4, <1>6, <2>3 DEF LastOK
<1>7. CASE /\ s.seen.lastUid = None /\ s.got = {}
           /\ mailRows' = RowsAfter({}) /\ UNCHANGED <<mailAccount, baseline, unfetched>>
  <2>1. DOMAIN mailRows' = DOMAIN mailRows
    BY <1>7, RowsAfterDomain
  <2> QED
    BY <1>2, <1>7, <2>1 DEF OldMailsInv, LastOK
<1>8. CASE /\ s.seen.lastUid # None
           /\ mailRows' = RowsAfter(MailsToStore(s))
           /\ mailAccount' = [mailAccount EXCEPT !.lastUid = Max(s.got \cup {s.seen.lastUid})]
           /\ unfetched' = unfetched \cup s.missed /\ UNCHANGED baseline
  <2>1. PICK L \in UID : L = s.seen.lastUid
    BY <1>2, <1>3, <1>8 DEF MailAccount
  <2>2. baseline <= L /\ L <= arrived
    BY <1>2, <1>3, <1>8, <2>1 DEF OldMailsInv, LastOK
  <2>3. PICK m : m = Max(s.got \cup {L})
    OBVIOUS
  <2>4. m \in s.got \cup {L} /\ m >= L
    <3>1. s.got \cup {L} \subseteq UID
      BY <1>4
    <3> QED
      BY <2>3, <3>1, MaxOfUids
  <2>5. m \in UID /\ m <= arrived /\ baseline <= m
    BY <1>4, <2>2, <2>4
  <2>6. mailAccount'.lastUid = m
    BY <1>5, <1>8, <2>1, <2>3, <2>5
  <2>7. LastOK'
    BY <1>2, <1>8, <2>5, <2>6 DEF LastOK
  <2>8. DOMAIN mailRows' \ DOMAIN mailRows \subseteq s.got
    BY <1>8, RowsAfterDomain DEF MailsToStore
  <2>9. ASSUME ~holes, NEW u \in s.got PROVE u >= baseline
    <3>1. u >= L /\ u \in Int /\ L \in Int
      BY <1>1, <1>2, <1>4, <1>8, <2>1, <2>9 DEF OldMailsInv, ReadOK
    <3> QED
      BY <1>4, <2>2, <3>1
  <2> QED
    BY <2>7, <2>8, <2>9
<1> QED
  BY <1>1, <1>6, <1>7, <1>8 DEF StoreMails

LEMMA OldMailsStep ==
  MailboxInv /\ OldMailsInv /\ [MailboxNext]_mailboxVars => OldMailsInv'
<1> SUFFICES ASSUME MailboxInv, OldMailsInv, [MailboxNext]_mailboxVars PROVE OldMailsInv'
  OBVIOUS
<1>0. /\ arrived \in Nat /\ baseline \in Nat /\ mailAccount \in MailAccount \cup {None}
      /\ mailRun \in [MailRun -> MailSession \cup {None}]
  BY MailboxAssumption DEF MailboxInv, MailboxTypeOK
<1>1. CASE UNCHANGED mailboxVars
  BY <1>1 DEF mailboxVars, OldMailsInv, LastOK, ReadOK
<1>2. CASE ArriveMail
  <2>1. arrived' = arrived + 1 /\ UNCHANGED <<mailAccount, mailRun, baseline, holes>>
    BY <1>2 DEF ArriveMail
  <2>2. LastOK'
    <3> SUFFICES ASSUME mailAccount # None, mailAccount.lastUid # None
                 PROVE  baseline <= mailAccount.lastUid /\ mailAccount.lastUid <= arrived + 1
      BY <2>1 DEF LastOK
    <3>1. mailAccount.lastUid \in Int /\ baseline <= mailAccount.lastUid /\ mailAccount.lastUid <= arrived
      BY <1>0 DEF OldMailsInv, LastOK, MailAccount, UID
    <3> QED
      BY <1>0, <3>1
  <2>3. ASSUME NEW r \in MailRun, mailRun[r] # None PROVE ReadOK(mailRun[r])'
    <3>1. PICK s \in MailSession : s = mailRun[r] /\ s = mailRun'[r]
      BY <1>0, <2>1, <2>3
    <3>2. ReadOK(s)
      BY <2>3, <3>1 DEF OldMailsInv
    <3>3. s.seen.lastUid # None => s.seen.lastUid \in Int
      BY <3>1 DEF MailSession, MailAccount, UID
    <3>4. s.seen.lastUid # None => s.seen.lastUid <= arrived'
      BY <1>0, <2>1, <3>2, <3>3 DEF ReadOK
    <3> QED
      BY <2>1, <3>1, <3>2, <3>4 DEF ReadOK
  <2> QED
    BY <2>1, <2>2, <2>3 DEF OldMailsInv
<1>3. ASSUME NEW u \in UID, ExpungeMail(u) PROVE OldMailsInv'
  BY <1>3 DEF ExpungeMail, OldMailsInv, LastOK, ReadOK
<1>4. ASSUME NEW on \in BOOLEAN, NEW parser \in MailParser, SaveMailAccount(on, parser)
      PROVE  OldMailsInv'
  <2>1. /\ mailAccount # None /\ UNCHANGED <<arrived, mailRun, baseline, holes>>
        /\ mailAccount'.lastUid = None \/ mailAccount'.lastUid = mailAccount.lastUid
    BY <1>4 DEF SaveMailAccount
  <2> QED
    BY <2>1 DEF OldMailsInv, LastOK, ReadOK
<1>5. CASE RemoveMailAccount
  BY <1>5 DEF RemoveMailAccount, OldMailsInv, LastOK, ReadOK
<1>6. ASSUME NEW r \in MailRun, UNCHANGED <<arrived, holes>>, LastOK',
             \A q \in MailRun \ {r} : mailRun'[q] = mailRun[q],
             mailRun'[r] # None => ReadOK(mailRun[r])'
      PROVE  OldMailsInv'
  BY <1>6 DEF OldMailsInv, ReadOK
<1>7. ASSUME NEW r \in MailRun, StartMailRun(r) PROVE OldMailsInv'
  <2>1. PICK acc \in MailAccount : acc = mailAccount
    BY <1>0, <1>7 DEF StartMailRun
  <2>2. PICK s : s = [step |-> "search", seen |-> acc, got |-> {}, missed |-> {}]
    OBVIOUS
  <2>3. /\ mailRun' = [mailRun EXCEPT ![r] = s]
        /\ UNCHANGED <<arrived, holes, mailAccount, baseline>> /\ mailAccount # None
    BY <1>7, <2>1, <2>2 DEF StartMailRun
  <2>4. mailRun'[r] = s /\ (\A q \in MailRun \ {r} : mailRun'[q] = mailRun[q])
    BY <1>0, <2>3
  <2>5. s.seen = mailAccount /\ s.step = "search"
    BY <2>1, <2>2
  <2>6. LastOK'
    BY <2>3 DEF OldMailsInv, LastOK
  <2>7. ReadOK(mailRun[r])'
    BY <2>3, <2>4, <2>5 DEF OldMailsInv, LastOK, ReadOK
  <2> QED
    BY <1>6, <2>3, <2>4, <2>6, <2>7
<1>8. ASSUME NEW r \in MailRun, FetchMails(r) PROVE OldMailsInv'
  <2>1. /\ \A q \in MailRun \ {r} : mailRun'[q] = mailRun[q]
        /\ UNCHANGED <<arrived, holes, mailAccount, baseline>>
    BY <1>0, <1>8 DEF FetchMails
  <2>2. LastOK'
    BY <2>1 DEF OldMailsInv, LastOK
  <2>3. ReadOK(mailRun[r])'
    BY <1>8, FetchReads
  <2> QED
    BY <1>6, <2>1, <2>2, <2>3
<1>9. ASSUME NEW r \in MailRun, StoreMails(r) PROVE OldMailsInv'
  <2>1. /\ mailRun' = [mailRun EXCEPT ![r] = None] /\ UNCHANGED <<arrived, holes>>
    BY <1>9 DEF StoreMails
  <2>2. mailRun'[r] = None /\ (\A q \in MailRun \ {r} : mailRun'[q] = mailRun[q])
    BY <1>0, <2>1
  <2>3. LastOK'
    BY <1>9, StoreKeepsLast
  <2> QED
    BY <1>6, <2>1, <2>2, <2>3
<1>10. ASSUME NEW r \in MailRun, DropMailRun(r) PROVE OldMailsInv'
  <2>1. /\ mailRun' = [mailRun EXCEPT ![r] = None]
        /\ UNCHANGED <<arrived, holes, mailAccount, baseline>>
    BY <1>10 DEF DropMailRun
  <2>2. mailRun'[r] = None /\ (\A q \in MailRun \ {r} : mailRun'[q] = mailRun[q])
    BY <1>0, <2>1
  <2>3. LastOK'
    BY <2>1 DEF OldMailsInv, LastOK
  <2> QED
    BY <1>6, <2>1, <2>2, <2>3
<1> QED
  BY <1>1, <1>2, <1>3, <1>4, <1>5, <1>7, <1>8, <1>9, <1>10 DEF MailboxNext

(* Mails from before the account was followed stay out of its table, but for the last
   one: what the run mailbox_baseline finds is all that can happen while nobody deletes
   mails.  A run reads nothing below the last UID it knows, and an account is never
   behind its baseline, even when it is saved and started over meanwhile. *)
THEOREM OldMailsStayOut == MailboxSpec => HistoryStays
<1>1. MailboxInit => OldMailsInv
  BY DEF MailboxInit, OldMailsInv, LastOK
<1>2. ASSUME MailboxInv, OldMailsInv, [MailboxNext]_mailboxVars
      PROVE  [~holes => \A u \in DOMAIN mailRows' \ DOMAIN mailRows : u >= baseline]_mailboxVars
  <2> SUFFICES ASSUME MailboxNext, ~holes, NEW u \in DOMAIN mailRows' \ DOMAIN mailRows
               PROVE  u >= baseline
    BY <1>2
  <2>1. CASE DOMAIN mailRows' \subseteq DOMAIN mailRows
    BY <2>1
  <2>2. ASSUME NEW r \in MailRun, StoreMails(r) PROVE u >= baseline
    BY <1>2, <2>2, StoreKeepsLast
  <2>3. ASSUME \/ ArriveMail
               \/ \E v \in UID : ExpungeMail(v)
               \/ \E on \in BOOLEAN, parser \in MailParser : SaveMailAccount(on, parser)
               \/ \E r \in MailRun : StartMailRun(r) \/ FetchMails(r) \/ DropMailRun(r)
        PROVE  UNCHANGED mailRows
    BY <2>3 DEF ArriveMail, ExpungeMail, SaveMailAccount, StartMailRun, FetchMails, DropMailRun
  <2>4. ASSUME RemoveMailAccount PROVE DOMAIN mailRows' = {}
    BY <2>4 DEF RemoveMailAccount
  <2> QED
    BY <2>1, <2>2, <2>3, <2>4 DEF MailboxNext
<1> QED
  BY <1>1, <1>2, MailboxInitInv, MailboxStep, OldMailsStep, PTL DEF MailboxSpec, HistoryStays

-----------------------------------------------------------------------------
(***************************************************************************)
(* DocumentImport: documents are imported once, and own exports whole.     *)
(* ImportInv ties what was made to the maps of the subject and of the run  *)
(* that is at work.                                                        *)
(***************************************************************************)

Batch ==
  [file : PaperFile, rest : Seq(Ext), mode : Conflicts, papers : SUBSET PaperRow,
   payments : SUBSET ImportedPayment, map : [Ext -> 0 .. MaxPapers],
   pays : [PayId -> 0 .. MaxPapers], new : SUBSET PaperRow, left : SUBSET Ext]

ImportTypes ==
  /\ paperFormat \in PaperFormat
  /\ papers \subseteq PaperRow /\ payments \subseteq ImportedPayment
  /\ paperMap \in [Ext -> 0 .. MaxPapers] /\ payMap \in [PayId -> 0 .. MaxPapers]
  /\ batch \in Batch \cup {NoBatch}
  /\ batch # NoBatch => batch.new \subseteq batch.papers
  /\ lastId \in 0 .. MaxPapers /\ paperWrites \in 0 .. MaxPaperWrites

(* What was made has the id that the maps remember for it. *)
MadeOK ==
  \A m \in made :
    \/ m.ext \in Ext /\ paperMap[m.ext] = m.id /\ m.id # 0
    \/ m.ext \in PayId /\ payMap[m.ext] = m.id /\ m.id # 0

(* No row has an id that was not given out yet. *)
IdsOK ==
  /\ \A q \in payments : q.paper <= lastId
  /\ batch # NoBatch =>
       /\ \A q \in batch.payments : q.paper <= lastId
       /\ \A p \in batch.new : p.id <= lastId

(* A run forgets nothing that is remembered, and remembers what it makes. *)
BatchOK ==
  batch # NoBatch =>
    /\ \A x \in Ext : paperMap[x] # 0 => batch.map[x] = paperMap[x]
    /\ \A pay \in PayId : payMap[pay] # 0 => batch.pays[pay] = payMap[pay]
    /\ \A p \in batch.new : p.ext \in Ext /\ batch.map[p.ext] = p.id /\ p.id # 0
    /\ \A p \in batch.new, q \in batch.payments :
         q.paper = p.id => batch.pays[q.pay] = q.id /\ q.id # 0

(* A document of an own export is remembered, left out or yet to come. *)
WholeOK ==
  batch # NoBatch /\ IsNative =>
    \A k \in DOMAIN PapersOf[batch.file] :
      \/ batch.map[PapersOf[batch.file][k]] # 0
      \/ PapersOf[batch.file][k] \in batch.left
      \/ \E i \in DOMAIN batch.rest : batch.rest[i] = PapersOf[batch.file][k]

ImportInv == ImportTypes /\ MadeOK /\ IdsOK /\ BatchOK /\ WholeOK

-----------------------------------------------------------------------------
(* The helpers. *)
LEMMA OrdersAreWhole ==
  ASSUME NEW f \in PaperFile, NEW rest \in Orders(f)
  PROVE  /\ rest \in Seq(Ext)
         /\ IsNative => \A k \in DOMAIN PapersOf[f] : \E i \in DOMAIN rest : rest[i] = PapersOf[f][k]
<1> DEFINE s == PapersOf[f]
<1>1. s \in Seq(Ext) /\ DOMAIN s = 1 .. Len(s) /\ Len(s) \in Nat
  BY DocumentImportAssumption
<1>2. CASE IsNative
  <2>1. PICK o \in SortedPositions(s) : rest = [i \in DOMAIN o |-> s[o[i]]]
    BY <1>2 DEF Orders
  <2>2. o \in Bijection(DOMAIN s, DOMAIN s)
    BY <2>1 DEF SortedPositions
  <2>3. o \in [DOMAIN s -> DOMAIN s] /\ \A k \in DOMAIN s : \E i \in DOMAIN s : o[i] = k
    BY <2>2 DEF Bijection, Injection, Surjection
  <2> HIDE DEF s
  <2>4. rest \in [1 .. Len(s) -> Ext]
    BY <1>1, <2>1, <2>3
  <2>5. rest \in Seq(Ext)
    BY <1>1, <2>4
  <2>6. \A k \in DOMAIN s : \E i \in DOMAIN rest : rest[i] = s[k]
    BY <2>1, <2>3
  <2> QED
    BY <2>5, <2>6 DEF s
<1>3. CASE ~IsNative
  BY <1>1, <1>3 DEF Orders
<1> QED
  BY <1>2, <1>3

LEMMA SetToSeqOf ==
  ASSUME NEW S, IsFiniteSet(S)
  PROVE  /\ Len(SetToSeq(S)) \in Nat
         /\ \A e \in S : (CHOOSE k \in DOMAIN SetToSeq(S) : SetToSeq(S)[k] = e) \in 1 .. Len(SetToSeq(S))
<1> DEFINE n == Cardinality(S)
<1>1. n \in Nat /\ ExistsBijection(1 .. n, S)
  BY FS_CardinalityType
<1>2. PICK g : g \in Bijection(1 .. n, S)
  BY <1>1 DEF ExistsBijection
<1>3. g \in [1 .. n -> S] /\ IsInjective(g)
  BY <1>2 DEF Bijection, Injection
<1>4. SetToSeq(S) \in [1 .. n -> S] /\ IsInjective(SetToSeq(S))
  BY <1>3 DEF SetToSeq
<1>5. SetToSeq(S) \in Injection(1 .. n, S)
  BY <1>4 DEF Injection
<1>6. Cardinality(1 .. n) = n /\ IsFiniteSet(1 .. n)
  BY <1>1, FS_Interval
<1>7. SetToSeq(S) \in Surjection(1 .. n, S)
  BY <1>5, <1>6, FS_Injection
<1>8. \A e \in S : \E k \in 1 .. n : SetToSeq(S)[k] = e
  BY <1>7 DEF Surjection
<1>9. Len(SetToSeq(S)) = n /\ DOMAIN SetToSeq(S) = 1 .. n
  BY <1>1, <1>4
<1> HIDE DEF n
<1> QED
  BY <1>1, <1>8, <1>9

LEMMA BatchIsNoNone == \A b \in Batch : b # NoBatch
<1> SUFFICES ASSUME NEW b \in Batch PROVE b # NoBatch
  OBVIOUS
<1>1. "file" \in DOMAIN b
  BY DEF Batch
<1>2. "file" \notin DOMAIN NoBatch
  BY DEF NoBatch
<1> QED
  BY <1>1, <1>2

(* What a run is after it has gone on with its next document. *)
GoneOn(b, c) ==
  /\ c \in Batch
  /\ c.file = b.file /\ c.papers = b.papers /\ c.payments = b.payments
  /\ c.map = b.map /\ c.pays = b.pays /\ c.new = b.new /\ c.left = b.left
  /\ \A i \in DOMAIN b.rest : b.rest[i] # Head(b.rest) =>
       \E j \in DOMAIN c.rest : c.rest[j] = b.rest[i]

LEMMA RestTail ==
  ASSUME NEW b \in Batch, b.rest # <<>>, NEW c, c = [b EXCEPT !.rest = Tail(b.rest)]
  PROVE  GoneOn(b, c)
<1>1. b.rest \in Seq(Ext) /\ Tail(b.rest) \in Seq(Ext)
  BY DEF Batch
<1>2. c.rest = Tail(b.rest)
  BY DEF Batch
<1>3. \A i \in DOMAIN b.rest : b.rest[i] # Head(b.rest) =>
        \E j \in DOMAIN Tail(b.rest) : Tail(b.rest)[j] = b.rest[i]
  <2> SUFFICES ASSUME NEW i \in DOMAIN b.rest, b.rest[i] # Head(b.rest)
               PROVE  \E j \in DOMAIN Tail(b.rest) : Tail(b.rest)[j] = b.rest[i]
    OBVIOUS
  <2>1. PICK t \in Seq(Ext) : t = b.rest
    BY <1>1
  <2>2. i \in 1 .. Len(t) /\ i # 1 /\ t # <<>>
    BY <2>1
  <2>3. i - 1 \in DOMAIN Tail(t) /\ Tail(t)[i - 1] = t[i]
    BY <2>2
  <2> QED
    BY <2>1, <2>3
<1> QED
  BY <1>1, <1>2, <1>3 DEF Batch, GoneOn

LEMMA MoreInBatch ==
  ASSUME NEW b \in Batch, NEW P \in SUBSET PaperRow, NEW N \in SUBSET PaperRow,
         NEW M \in [Ext -> 0 .. MaxPapers], NEW Q \in SUBSET ImportedPayment,
         NEW Y \in [PayId -> 0 .. MaxPapers], NEW c,
         c = [b EXCEPT !.papers = P, !.new = N, !.map = M, !.payments = Q, !.pays = Y]
  PROVE  /\ c \in Batch
         /\ c.rest = b.rest /\ c.file = b.file /\ c.left = b.left
         /\ c.papers = P /\ c.new = N /\ c.map = M /\ c.payments = Q /\ c.pays = Y
BY DEF Batch

LEMMA LeftInBatch ==
  ASSUME NEW b \in Batch, NEW L \in SUBSET Ext, NEW c, c = [b EXCEPT !.left = L]
  PROVE  /\ c \in Batch
         /\ c.rest = b.rest /\ c.file = b.file /\ c.left = L
         /\ c.papers = b.papers /\ c.new = b.new /\ c.map = b.map
         /\ c.payments = b.payments /\ c.pays = b.pays
BY DEF Batch

(* A run that goes on without touching a map or a row, and remembers or leaves
   out the document it was at if its file is an own export. *)
LEMMA GoesOn ==
  ASSUME ImportInv, batch # NoBatch, NEW c \in Batch, Keeps(c), lastId' = lastId,
         c.rest = batch.rest, batch.rest # <<>>, c.file = batch.file, c.papers = batch.papers,
         c.new = batch.new, c.map = batch.map, c.payments = batch.payments, c.pays = batch.pays,
         batch.left \subseteq c.left,
         IsNative => c.map[Head(batch.rest)] # 0 \/ Head(batch.rest) \in c.left
  PROVE  ImportInv'
<1>a. PICK e : e = [c EXCEPT !.rest = Tail(c.rest)]
  OBVIOUS
<1>b. c.rest # <<>>
  OBVIOUS
<1>c. GoneOn(c, e)
  BY <1>a, <1>b, RestTail
<1>d. batch' = e
  BY <1>a DEF Keeps
<1>1. /\ batch' \in Batch /\ batch' # NoBatch
      /\ batch'.file = batch.file /\ batch'.papers = batch.papers
      /\ batch'.payments = batch.payments /\ batch'.map = batch.map /\ batch'.pays = batch.pays
      /\ batch'.new = batch.new /\ batch'.left = c.left
      /\ \A i \in DOMAIN batch.rest : batch.rest[i] # Head(batch.rest) =>
           \E j \in DOMAIN batch'.rest : batch'.rest[j] = batch.rest[i]
  BY <1>c, <1>d, BatchIsNoNone DEF GoneOn
<1>2. /\ paperFormat' = paperFormat /\ papers' = papers /\ payments' = payments
      /\ paperMap' = paperMap /\ payMap' = payMap /\ made' = made /\ paperWrites' = paperWrites
  BY DEF Keeps
<1>3. ImportTypes'
  BY <1>1, <1>2 DEF ImportInv, ImportTypes
<1>4. MadeOK'
  BY <1>2 DEF ImportInv, MadeOK
<1>5. IdsOK' /\ BatchOK'
  BY <1>1, <1>2 DEF ImportInv, IdsOK, BatchOK
<1>6. WholeOK'
  BY <1>1, <1>2 DEF ImportInv, WholeOK, IsNative
<1> QED
  BY <1>3, <1>4, <1>5, <1>6 DEF ImportInv

LEMMA SkipSteps ==
  ASSUME ImportInv, SkipMapped \/ SkipNumber \/ SkipBroken
  PROVE  ImportInv'
<1>1. batch # NoBatch /\ batch.rest # <<>> /\ batch \in Batch
  BY DEF SkipMapped, SkipNumber, SkipBroken, InBatch, ImportInv, ImportTypes
<1>2. batch.rest \in Seq(Ext) /\ Head(batch.rest) \in Ext /\ batch.left \in SUBSET Ext
  BY <1>1 DEF Batch
<1>3. CASE SkipMapped
  BY <1>1, <1>3, GoesOn DEF SkipMapped, ImportRow
<1>4. CASE SkipNumber
  <2>a. PICK b \in Batch : b = batch
    BY <1>1
  <2>b. PICK L \in SUBSET Ext : L = batch.left \cup {ImportRow}
    BY <1>2 DEF ImportRow
  <2>1. PICK c : c = [b EXCEPT !.left = L]
    OBVIOUS
  <2>2. Keeps(c) /\ lastId' = lastId
    BY <1>4, <2>a, <2>b, <2>1 DEF SkipNumber
  <2>3. /\ c \in Batch
        /\ c.rest = batch.rest /\ c.file = batch.file /\ c.left = batch.left \cup {ImportRow}
        /\ c.papers = batch.papers /\ c.new = batch.new /\ c.map = batch.map
        /\ c.payments = batch.payments /\ c.pays = batch.pays
    BY <2>a, <2>b, <2>1, LeftInBatch
  <2> QED
    BY <1>1, <2>2, <2>3, GoesOn DEF ImportRow
<1>5. CASE SkipBroken
  BY <1>1, <1>5, GoesOn DEF SkipBroken
<1> QED
  BY <1>3, <1>4, <1>5

LEMMA StartStep ==
  ASSUME ImportInv, NEW f \in PaperFile, StartBatch(f)
  PROVE  ImportInv'
<1>1. PICK mode \in Conflicts, rest \in Orders(f) :
         batch' = [file |-> f, rest |-> rest, mode |-> mode, papers |-> papers,
                   payments |-> payments, map |-> paperMap, pays |-> payMap,
                   new |-> {}, left |-> {}]
  BY DEF StartBatch
<1>2. /\ paperFormat' = paperFormat /\ papers' = papers /\ payments' = payments
      /\ paperMap' = paperMap /\ payMap' = payMap /\ made' = made
      /\ lastId' = lastId /\ paperWrites' = paperWrites
  BY DEF StartBatch
<1>3. rest \in Seq(Ext)
  BY OrdersAreWhole
<1>4. /\ batch' \in Batch /\ batch'.file = f /\ batch'.rest = rest
      /\ batch'.payments = payments /\ batch'.map = paperMap /\ batch'.pays = payMap
      /\ batch'.new = {}
  BY <1>1, <1>3 DEF Batch, ImportInv, ImportTypes
<1>5. ImportTypes' /\ MadeOK' /\ IdsOK' /\ BatchOK'
  BY <1>2, <1>4 DEF ImportInv, ImportTypes, MadeOK, IdsOK, BatchOK
<1>6. WholeOK'
  BY <1>2, <1>4, OrdersAreWhole DEF WholeOK, IsNative
<1> QED
  BY <1>5, <1>6 DEF ImportInv

LEMMA AbortStep ==
  ASSUME ImportInv, AbortBatch
  PROVE  ImportInv'
BY DEF AbortBatch, ImportInv, ImportTypes, MadeOK, IdsOK, BatchOK, WholeOK

LEMMA CommitStep ==
  ASSUME ImportInv, CommitBatch
  PROVE  ImportInv'
<1>1. batch \in Batch /\ batch # NoBatch
  BY DEF CommitBatch, ImportInv, ImportTypes
<1> DEFINE kept == {q \in batch.payments : \E p \in batch.new : q.paper = p.id}
<1>2. /\ papers' = papers \cup batch.new /\ payments' = payments \cup kept
      /\ paperMap' = batch.map /\ payMap' = batch.pays /\ batch' = NoBatch
      /\ paperFormat' = paperFormat /\ lastId' = lastId /\ paperWrites' = paperWrites
  BY DEF CommitBatch
<1>3. made' = made \cup {[ext |-> p.ext, id |-> p.id] : p \in batch.new}
                  \cup {[ext |-> q.pay, id |-> q.id] : q \in kept}
  BY DEF CommitBatch
<1>4. /\ batch.papers \subseteq PaperRow /\ batch.payments \subseteq ImportedPayment
      /\ batch.new \subseteq PaperRow
      /\ batch.map \in [Ext -> 0 .. MaxPapers] /\ batch.pays \in [PayId -> 0 .. MaxPapers]
  BY <1>1 DEF Batch
<1>5. ImportTypes'
  BY <1>2, <1>4 DEF ImportInv, ImportTypes
<1>6. MadeOK'
  <2> SUFFICES ASSUME NEW m \in made'
               PROVE  \/ m.ext \in Ext /\ batch.map[m.ext] = m.id /\ m.id # 0
                      \/ m.ext \in PayId /\ batch.pays[m.ext] = m.id /\ m.id # 0
    BY <1>2 DEF MadeOK
  <2>1. CASE m \in made
    BY <2>1, <1>1 DEF ImportInv, MadeOK, BatchOK
  <2>2. CASE \E p \in batch.new : m = [ext |-> p.ext, id |-> p.id]
    BY <2>2, <1>1 DEF ImportInv, BatchOK
  <2>3. CASE \E q \in kept : m = [ext |-> q.pay, id |-> q.id]
    <3>1. PICK q \in kept : m = [ext |-> q.pay, id |-> q.id]
      BY <2>3
    <3>2. batch.pays[q.pay] = q.id /\ q.id # 0
      BY <1>1 DEF ImportInv, BatchOK
    <3>3. q.pay \in PayId
      BY <1>4 DEF ImportedPayment
    <3> QED
      BY <3>1, <3>2, <3>3
  <2> QED
    BY <1>3, <2>1, <2>2, <2>3
<1>7. IdsOK' /\ BatchOK' /\ WholeOK'
  BY <1>1, <1>2 DEF ImportInv, IdsOK, BatchOK, WholeOK
<1> QED
  BY <1>5, <1>6, <1>7 DEF ImportInv

LEMMA NewPaperIsRow ==
  ASSUME ImportTypes, batch # NoBatch, NEW x \in Ext, NEW s \in SourcesFor(x), NEW n \in NumberFor(x),
         lastId + 1 <= MaxPapers
  PROVE  /\ NewPaper(x, s, n) \in PaperRow
         /\ NewPaper(x, s, n).id = lastId + 1 /\ NewPaper(x, s, n).ext = x
<1>1. DataOf[x].number \in PaperNumber /\ DataOf[x].kind \in {"invoice", "credit_note"}
      /\ DataOf[x].cents \in Nat
  BY DocumentImportAssumption
<1>2. n \in PaperNumber
  BY <1>1 DEF NumberFor, FreeNumbers
<1>3. lastId + 1 \in PaperId
  BY DocumentImportAssumption DEF ImportTypes, PaperId
<1>4. batch.papers \subseteq PaperRow
  BY DEF ImportTypes, Batch
<1>5. (IF s = None THEN None ELSE s.id) \in PaperId \cup {None}
  <2>1. s = None \/ s \in PaperRow
    BY <1>4 DEF SourcesFor
  <2> QED
    BY <2>1 DEF PaperRow
<1> QED
  BY <1>1, <1>2, <1>3, <1>5 DEF NewPaper, PaperRow

LEMMA ImportStep ==
  ASSUME ImportInv, ImportPaper
  PROVE  ImportInv'
<1> DEFINE x == ImportRow
           P == PaysFor(x)
           pays == SetToSeq(P)
           paidAs(pay) == lastId + 1 + CHOOSE k \in DOMAIN pays : pays[k] = pay
           fresh == {[id |-> paidAs(pay), pay |-> pay, paper |-> lastId + 1] : pay \in P}
           M == [batch.map EXCEPT ![x] = lastId + 1]
           Y == [pay \in PayId |-> IF pay \in P THEN paidAs(pay) ELSE batch.pays[pay]]
<1>1. /\ batch \in Batch /\ batch # NoBatch /\ batch.rest # <<>>
      /\ ImportTypes /\ lastId \in Nat /\ MaxPapers \in Nat
  BY DocumentImportAssumption DEF ImportInv, ImportTypes, ImportPaper, InBatch
<1>2. /\ batch.rest \in Seq(Ext) /\ batch.papers \subseteq PaperRow
      /\ batch.payments \subseteq ImportedPayment /\ batch.new \subseteq PaperRow
      /\ batch.map \in [Ext -> 0 .. MaxPapers] /\ batch.pays \in [PayId -> 0 .. MaxPapers]
  BY <1>1 DEF Batch
<1>3. x \in Ext
  BY <1>1, <1>2 DEF ImportRow
<1>4. P \subseteq PayId /\ IsFiniteSet(P)
  <2>1. P \subseteq PayId
    BY <1>3, DocumentImportAssumption DEF PaysFor
  <2> QED
    BY <2>1, FS_Subset, DocumentImportAssumption
<1>5. /\ lastId' = lastId + 1 + Len(pays) /\ lastId' <= MaxPapers
      /\ batch.map[x] = 0 /\ \A pay \in P : batch.pays[pay] = 0
  BY DEF ImportPaper
<1>6. /\ Len(pays) \in Nat
      /\ \A pay \in P : (CHOOSE k \in DOMAIN pays : pays[k] = pay) \in 1 .. Len(pays)
  BY <1>4, SetToSeqOf
<1>7. PICK s \in SourcesFor(x), n \in NumberFor(x) :
        Keeps([batch EXCEPT
          !.papers = @ \cup {NewPaper(x, s, n)}, !.new = @ \cup {NewPaper(x, s, n)},
          !.map = M, !.payments = @ \cup fresh, !.pays = Y])
  BY DEF ImportPaper, RememberedAs
<1>8. lastId + 1 <= MaxPapers /\ lastId + 1 \in 1 .. MaxPapers /\ lastId' \in 0 .. MaxPapers
      /\ lastId < lastId'
  BY <1>1, <1>5, <1>6
<1>9. PICK p \in PaperRow : p = NewPaper(x, s, n) /\ p.id = lastId + 1 /\ p.ext = x
  BY <1>1, <1>3, <1>8, NewPaperIsRow
<1>10. \A pay \in P : paidAs(pay) \in 1 .. MaxPapers
  <2> SUFFICES ASSUME NEW pay \in P PROVE paidAs(pay) \in 1 .. MaxPapers
    OBVIOUS
  <2>1. PICK j : j = CHOOSE k \in DOMAIN pays : pays[k] = pay
    OBVIOUS
  <2>2. PICK l : l = Len(pays)
    OBVIOUS
  <2>3. j \in 1 .. l
    BY <1>6, <2>1, <2>2
  <2>4. l \in Nat /\ lastId + 1 + l <= MaxPapers
    BY <1>5, <1>6, <2>2
  <2>5. lastId + 1 + j \in 1 .. MaxPapers
    BY <1>1, <2>3, <2>4
  <2> QED
    BY <2>1, <2>5
<1>11. M \in [Ext -> 0 .. MaxPapers] /\ M[x] = lastId + 1
       /\ \A y \in Ext : y # x => M[y] = batch.map[y]
  <2> HIDE DEF x
  <2> QED
    BY <1>2, <1>3, <1>8
<1>12. Y \in [PayId -> 0 .. MaxPapers] /\ fresh \subseteq ImportedPayment
  <2> HIDE DEF paidAs, P
  <2>1. Y \in [PayId -> 0 .. MaxPapers]
    BY <1>2, <1>10
  <2>2. fresh \subseteq ImportedPayment
    BY <1>4, <1>8, <1>10 DEF ImportedPayment, PaperId
  <2> QED
    BY <2>1, <2>2
<1>13. /\ \A pay \in PayId : pay \notin P => Y[pay] = batch.pays[pay]
       /\ \A q \in fresh : Y[q.pay] = q.id /\ q.id # 0 /\ q.paper = lastId + 1
  <2> HIDE DEF paidAs, P
  <2> QED
    BY <1>4, <1>10
<1> HIDE DEF x, P, M, Y, fresh
<1>14. PICK c : c = [batch EXCEPT !.papers = batch.papers \cup {p}, !.new = batch.new \cup {p},
                                  !.map = M, !.payments = batch.payments \cup fresh, !.pays = Y]
  OBVIOUS
<1>15. Keeps(c)
  BY <1>7, <1>9, <1>14
<1>16. /\ c \in Batch
       /\ c.rest = batch.rest /\ c.file = batch.file /\ c.left = batch.left
       /\ c.papers = batch.papers \cup {p} /\ c.new = batch.new \cup {p} /\ c.map = M
       /\ c.payments = batch.payments \cup fresh /\ c.pays = Y
  BY <1>1, <1>2, <1>9, <1>11, <1>12, <1>14 DEF Batch
<1>17. PICK e : e = [c EXCEPT !.rest = Tail(c.rest)]
  OBVIOUS
<1>18. c.rest # <<>>
  BY <1>1, <1>16
<1>19. GoneOn(c, e)
  BY <1>16, <1>17, <1>18, RestTail
<1>20. batch' = e
  BY <1>15, <1>17 DEF Keeps
<1>21. /\ batch' \in Batch /\ batch' # NoBatch
       /\ batch'.file = batch.file /\ batch'.papers = batch.papers \cup {p}
       /\ batch'.payments = batch.payments \cup fresh /\ batch'.map = M /\ batch'.pays = Y
       /\ batch'.new = batch.new \cup {p} /\ batch'.left = batch.left
       /\ \A i \in DOMAIN batch.rest : batch.rest[i] # Head(batch.rest) =>
            \E j \in DOMAIN batch'.rest : batch'.rest[j] = batch.rest[i]
  BY <1>16, <1>19, <1>20, BatchIsNoNone DEF GoneOn
<1>22. /\ paperFormat' = paperFormat /\ papers' = papers /\ payments' = payments
       /\ paperMap' = paperMap /\ payMap' = payMap /\ made' = made /\ paperWrites' = paperWrites
  BY <1>15 DEF Keeps
<1>23. ImportTypes'
  <2>1. batch'.new \subseteq batch'.papers
    BY <1>1, <1>21 DEF ImportTypes
  <2> QED
    BY <1>1, <1>8, <1>21, <1>22, <2>1 DEF ImportTypes
<1>24. MadeOK'
  BY <1>22 DEF ImportInv, MadeOK
<1>25. IdsOK'
  <2>1. \A q \in payments : q.paper <= lastId
    BY DEF ImportInv, IdsOK
  <2>2. \A q \in batch.payments : q.paper <= lastId
    BY <1>1 DEF ImportInv, IdsOK
  <2>3. \A r \in batch.new : r.id <= lastId
    BY <1>1 DEF ImportInv, IdsOK
  <2>4. \A q \in payments : q.paper \in Nat
    BY <1>1 DEF ImportTypes, ImportedPayment, PaperId
  <2>5. \A q \in batch.payments : q.paper \in Nat
    BY <1>2 DEF ImportedPayment, PaperId
  <2>6. \A r \in batch.new : r.id \in Nat
    BY <1>2 DEF PaperRow, PaperId
  <2>7. lastId' \in Nat /\ lastId + 1 <= lastId'
    BY <1>1, <1>5, <1>6
  <2>8. \A q \in payments : q.paper <= lastId'
    BY <1>1, <2>1, <2>4, <2>7
  <2>9. \A q \in batch.payments : q.paper <= lastId'
    BY <1>1, <2>2, <2>5, <2>7
  <2>10. \A r \in batch.new : r.id <= lastId'
    BY <1>1, <2>3, <2>6, <2>7
  <2>11. \A q \in fresh : q.paper <= lastId'
    BY <1>13, <2>7
  <2> QED
    BY <1>9, <1>21, <1>22, <2>7, <2>8, <2>9, <2>10, <2>11 DEF IdsOK
<1>26. BatchOK'
  <2>1. /\ \A y \in Ext : paperMap[y] # 0 => batch.map[y] = paperMap[y]
        /\ \A pay \in PayId : payMap[pay] # 0 => batch.pays[pay] = payMap[pay]
        /\ \A r \in batch.new : r.ext \in Ext /\ batch.map[r.ext] = r.id /\ r.id # 0
        /\ \A r \in batch.new, q \in batch.payments :
             q.paper = r.id => batch.pays[q.pay] = q.id /\ q.id # 0
    BY <1>1 DEF ImportInv, BatchOK
  <2>2. \A y \in Ext : paperMap[y] # 0 => M[y] = paperMap[y]
    BY <1>5, <1>11, <2>1
  <2>3. \A pay \in PayId : payMap[pay] # 0 => Y[pay] = payMap[pay]
    BY <1>5, <1>13, <2>1
  <2>4. \A r \in batch.new \cup {p} : r.ext \in Ext /\ M[r.ext] = r.id /\ r.id # 0
    BY <1>1, <1>3, <1>5, <1>9, <1>11, <2>1
  <2>5. ASSUME NEW r \in batch.new \cup {p}, NEW q \in batch.payments \cup fresh, q.paper = r.id
        PROVE  Y[q.pay] = q.id /\ q.id # 0
    <3>1. CASE q \in fresh
      BY <3>1, <1>13
    <3>2. CASE q \in batch.payments /\ r \in batch.new
      <4>1. batch.pays[q.pay] = q.id /\ q.id # 0 /\ q.pay \in PayId
        BY <3>2, <2>1, <2>5, <1>2 DEF ImportedPayment
      <4> QED
        BY <4>1, <1>5, <1>13
    <3>3. CASE q \in batch.payments /\ r = p
      <4>1. q.paper <= lastId /\ q.paper \in Nat
        BY <3>3, <1>1, <1>2 DEF ImportInv, IdsOK, ImportedPayment, PaperId
      <4> QED
        BY <4>1, <3>3, <2>5, <1>1, <1>9
    <3> QED
      BY <3>1, <3>2, <3>3
  <2> QED
    BY <1>21, <1>22, <2>2, <2>3, <2>4, <2>5 DEF BatchOK
<1>27. WholeOK'
  <2> SUFFICES ASSUME IsNative', NEW k \in DOMAIN PapersOf[batch.file]
               PROVE  \/ M[PapersOf[batch.file][k]] # 0
                      \/ PapersOf[batch.file][k] \in batch.left
                      \/ \E j \in DOMAIN batch'.rest : batch'.rest[j] = PapersOf[batch.file][k]
    BY <1>21 DEF WholeOK
  <2>1. PICK y : y = PapersOf[batch.file][k]
    OBVIOUS
  <2>2. y \in Ext
    BY <1>1, <2>1, DocumentImportAssumption DEF Batch
  <2>3. \/ batch.map[y] # 0 \/ y \in batch.left
        \/ \E i \in DOMAIN batch.rest : batch.rest[i] = y
    BY <1>1, <1>22, <2>1 DEF ImportInv, WholeOK, IsNative
  <2>4. CASE y = x
    BY <2>1, <2>4, <1>1, <1>11
  <2>5. CASE y # x
    <3>1. M[y] = batch.map[y]
      BY <1>11, <2>2, <2>5
    <3>2. x = Head(batch.rest)
      BY DEF x, ImportRow
    <3> QED
      BY <1>21, <2>1, <2>3, <2>5, <3>1, <3>2
  <2> QED
    BY <2>4, <2>5
<1> QED
  BY <1>23, <1>24, <1>25, <1>26, <1>27 DEF ImportInv

(* The other handlers do not touch the run or the maps. *)
LEMMA ElsewhereStep ==
  ASSUME ImportInv, Elsewhere, lastId' \in Nat, lastId <= lastId', lastId' <= MaxPapers,
         papers' \subseteq PaperRow, payments' \subseteq payments
  PROVE  ImportInv'
<1>1. /\ paperFormat' = paperFormat /\ paperMap' = paperMap /\ payMap' = payMap
      /\ batch' = batch /\ made' = made /\ paperWrites' \in 0 .. MaxPaperWrites
  BY DocumentImportAssumption DEF Elsewhere, ImportInv, ImportTypes
<1>2. ImportTypes'
  BY <1>1, DocumentImportAssumption DEF ImportInv, ImportTypes
<1>3. MadeOK' /\ BatchOK' /\ WholeOK'
  BY <1>1 DEF ImportInv, MadeOK, BatchOK, WholeOK, IsNative
<1>4. IdsOK'
  <2>1. lastId \in Nat /\ \A q \in payments : q.paper \in Nat /\ q.paper <= lastId
    BY DocumentImportAssumption DEF ImportInv, ImportTypes, IdsOK, ImportedPayment, PaperId
  <2>2. \A q \in payments' : q.paper <= lastId'
    BY <2>1
  <2>3. CASE batch # NoBatch
    <3>1. batch.payments \subseteq ImportedPayment /\ batch.new \subseteq PaperRow
      BY <2>3 DEF ImportInv, ImportTypes, Batch
    <3>2. \A q \in batch.payments : q.paper \in Nat /\ q.paper <= lastId
      BY <2>3, <3>1 DEF ImportInv, IdsOK, ImportedPayment, PaperId
    <3>3. \A p \in batch.new : p.id \in Nat /\ p.id <= lastId
      BY <2>3, <3>1 DEF ImportInv, IdsOK, PaperRow, PaperId
    <3>4. \A q \in batch.payments : q.paper <= lastId'
      BY <2>1, <3>2
    <3>5. \A p \in batch.new : p.id <= lastId'
      BY <2>1, <3>3
    <3> QED
      BY <1>1, <2>2, <3>4, <3>5 DEF IdsOK
  <2> QED
    BY <1>1, <2>2, <2>3 DEF IdsOK
<1> QED
  BY <1>2, <1>3, <1>4 DEF ImportInv

LEMMA CreatePaperStep ==
  ASSUME ImportInv, NEW n \in PaperNumber, CreatePaper(n)
  PROVE  ImportInv'
<1>1. lastId \in 0 .. MaxPapers /\ papers \subseteq PaperRow
  BY DEF ImportInv, ImportTypes
<1>2. /\ lastId' = lastId + 1 /\ lastId < MaxPapers /\ Elsewhere /\ payments' = payments
      /\ papers' = papers \cup {[id |-> lastId + 1, ext |-> None, number |-> n, kind |-> "invoice",
                                 source |-> None, cents |-> 1]}
  BY DEF CreatePaper
<1>3. [id |-> lastId + 1, ext |-> None, number |-> n, kind |-> "invoice",
       source |-> None, cents |-> 1] \in PaperRow
  BY <1>1, <1>2, DocumentImportAssumption DEF PaperRow, PaperId
<1> QED
  BY <1>1, <1>2, <1>3, ElsewhereStep, DocumentImportAssumption

LEMMA DeleteStep ==
  ASSUME ImportInv,
         \/ \E p \in papers : DeletePaper(p)
         \/ \E q \in payments : DeleteImportedPayment(q)
  PROVE  ImportInv'
<1>1. lastId \in Nat /\ lastId <= MaxPapers /\ papers \subseteq PaperRow
  BY DocumentImportAssumption DEF ImportInv, ImportTypes
<1>2. lastId' = lastId /\ Elsewhere /\ payments' \subseteq payments
  BY DEF DeletePaper, DeleteImportedPayment
<1>3. \A q \in PaperRow : [q EXCEPT !.source = None] \in PaperRow
  BY DEF PaperRow
<1>4. papers' \subseteq PaperRow
  <2>1. CASE \E p \in papers : DeletePaper(p)
    BY <2>1, <1>1, <1>3 DEF DeletePaper
  <2>2. CASE \E q \in payments : DeleteImportedPayment(q)
    BY <2>2, <1>1 DEF DeleteImportedPayment
  <2> QED
    BY <2>1, <2>2
<1> QED
  BY <1>1, <1>2, <1>4, ElsewhereStep

LEMMA ImportStutter == ImportInv /\ UNCHANGED paperVars => ImportInv'
BY DEF paperVars, ImportInv, ImportTypes, MadeOK, IdsOK, BatchOK, WholeOK, IsNative

LEMMA ImportInvStep == ImportInv /\ [DocumentImportNext]_paperVars => ImportInv'
<1> SUFFICES ASSUME ImportInv, [DocumentImportNext]_paperVars
             PROVE  ImportInv'
  OBVIOUS
<1>1. CASE \E f \in PaperFile : StartBatch(f)
  BY <1>1, StartStep
<1>2. CASE SkipMapped \/ SkipNumber \/ SkipBroken
  BY <1>2, SkipSteps
<1>3. CASE ImportPaper
  BY <1>3, ImportStep
<1>4. CASE CommitBatch
  BY <1>4, CommitStep
<1>5. CASE AbortBatch
  BY <1>5, AbortStep
<1>6. CASE \E n \in PaperNumber : CreatePaper(n)
  BY <1>6, CreatePaperStep
<1>7. CASE \/ \E p \in papers : DeletePaper(p)
           \/ \E q \in payments : DeleteImportedPayment(q)
  BY <1>7, DeleteStep
<1>8. CASE UNCHANGED paperVars
  BY <1>8, ImportStutter
<1> QED
  BY <1>1, <1>2, <1>3, <1>4, <1>5, <1>6, <1>7, <1>8 DEF DocumentImportNext

LEMMA ImportInvInit == DocumentImportInit => ImportInv
<1> SUFFICES ASSUME DocumentImportInit PROVE ImportInv
  OBVIOUS
<1>1. ImportTypes
  BY DocumentImportAssumption DEF DocumentImportInit, ImportTypes
<1> QED
  BY <1>1 DEF DocumentImportInit, ImportInv, MadeOK, IdsOK, BatchOK, WholeOK

LEMMA ImportInvariant == DocumentImportSpec => []ImportInv
BY ImportInvInit, ImportInvStep, PTL DEF DocumentImportSpec

-----------------------------------------------------------------------------
(* The type invariant of the imports: what the process keeps about a run is a
   run of one of the known files, over rows and maps of the right shape. *)
THEOREM DocumentImportTypeCorrect == DocumentImportSpec => []DocumentImportTypeOK
<1>1. ImportInv => DocumentImportTypeOK
  BY DEF ImportInv, ImportTypes, DocumentImportTypeOK, Batch
<1> QED
  BY <1>1, ImportInvariant, PTL

(* A document or a payment of a file is made once, however often its file is
   imported and whatever is deleted in between (_import_invoice, the import
   maps): what was made is what the map remembers. *)
THEOREM ImportedDocumentsOnce == DocumentImportSpec => []PaperImportedOnce
<1>1. ImportInv => PaperImportedOnce
  BY DocumentImportAssumption DEF ImportInv, MadeOK, PaperImportedOnce
<1> QED
  BY <1>1, ImportInvariant, PTL

(* A committed import of an own export has the whole file, but for the numbers
   that the user asked to skip (process_import_run). *)
THEOREM NativeImportsAreWhole == DocumentImportSpec => NativeImportWhole
<1> DEFINE WholeStep ==
      IsNative /\ batch # NoBatch /\ batch' = NoBatch /\ paperMap' # paperMap =>
        \A k \in DOMAIN PapersOf[batch.file] :
          paperMap'[PapersOf[batch.file][k]] # 0 \/ PapersOf[batch.file][k] \in batch.left
<1>1. ImportInv /\ [DocumentImportNext]_paperVars => WholeStep
  <2> SUFFICES ASSUME ImportInv, [DocumentImportNext]_paperVars, IsNative, batch # NoBatch,
                      batch' = NoBatch, paperMap' # paperMap
               PROVE  \A k \in DOMAIN PapersOf[batch.file] :
                        \/ paperMap'[PapersOf[batch.file][k]] # 0
                        \/ PapersOf[batch.file][k] \in batch.left
    OBVIOUS
  <2>1. CommitBatch
    BY DEF paperVars, DocumentImportNext, StartBatch, SkipMapped, SkipNumber, ImportPaper,
           SkipBroken, Keeps, AbortBatch, CreatePaper, DeletePaper, DeleteImportedPayment, Elsewhere
  <2>2. paperMap' = batch.map /\ batch.rest = <<>>
    BY <2>1 DEF CommitBatch
  <2> QED
    BY <2>2 DEF ImportInv, WholeOK
<1>2. [][WholeStep]_paperVars <=> NativeImportWhole
  BY DEF NativeImportWhole
<1> QED
  BY <1>1, ImportInvariant, PTL DEF DocumentImportSpec, NativeImportWhole
=============================================================================
