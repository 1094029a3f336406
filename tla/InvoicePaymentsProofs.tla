----------------------- MODULE InvoicePaymentsProofs -----------------------
(***************************************************************************)
(* Proofs about InvoicePayments for every set of documents, payments,      *)
(* transactions and handlers: the links are well founded however handlers  *)
(* overlap, and without overlap dates follow the status, paid documents    *)
(* have a payment, a transaction pays once and keeps its pairing, and a    *)
(* draft or cancelled document is paid only by payments it has kept.       *)
(***************************************************************************)
EXTENDS InvoicePayments, TLAPS, FiniteSetTheorems

-----------------------------------------------------------------------------
(* What a handler has decided on *)

AddRow == [manual : BOOLEAN, tx : Tx \cup {None}]

\* The dates of a row follow its status.
Dated(d) ==
  /\ d.paid <=> d.status = "paid"
  /\ d.status = "sent" => d.sent
  /\ d.status \in {"draft", "issued"} => ~d.sent

\* A change is about one payment at most, and adds none to what it deletes.
Shaped(c) ==
  /\ c \in Change
  /\ c.add = {} \/ \E a \in AddRow : c.add = {a}
  /\ c.after = None => c.add = {}

\* No two transactions are paired with the same payment.
LinksDisjoint ==
  \A t, u \in Tx : link[t] # None /\ link[u] # None /\ link[t].payment = link[u].payment => t = u

Typed ==
  /\ row \in [Invoice -> Row \cup {None}]
  /\ payment \in [Payment -> PaymentRow \cup {None}]
  /\ link \in [Tx -> Link \cup {None}]

Sound == Typed /\ LinksWellFounded /\ LinksDisjoint

\* Who removes a payment knows every transaction that points to it, or is refused
\* because the transaction points to a document that goes.
KnowsLinks(c) ==
  \A p \in c.remove, t \in Tx :
    link[t] # None /\ link[t].payment = p =>
      t \in c.clear \/ (c.after = None /\ link[t].invoice = c.invoice)

\* What a handler decides is sound for the state that it has read.
Fitting(c) ==
  LET i == c.invoice IN
  /\ c.before = row[i]
  /\ c.before = None => c.add = {} /\ c.after # None
  /\ c.add # {} => c.before # None /\ Payable(c.before)
  /\ c.remove \subseteq PaymentsOf(i)
  /\ \A t \in c.clear : link[t] # None /\ link[t].payment \in c.remove
  /\ \A a \in c.add : a.tx # None => link[a.tx] = None
  /\ c.after # None /\ (c.before # None => Dated(c.before)) => Dated(c.after)
  /\ c.after # None /\ c.after.status = "paid" =>
       \/ c.add # {}
       \/ PaymentsOf(i) \ c.remove # {}
       \/ c.before # None /\ c.before.status = "paid" /\ c.remove = {}

Begun(c) == Shaped(c) /\ KnowsLinks(c) /\ Fitting(c)

-----------------------------------------------------------------------------
(* Transitions of a row *)

LEMMA RevertTargetType ==
  ASSUME NEW d \in Row
  PROVE  /\ RevertTarget(d) \in {"sent", "issued", "draft", "none"}
         /\ d.status = "paid" => RevertTarget(d) = IF d.sent THEN "sent" ELSE "issued"
         /\ d.status = "cancelled" => RevertTarget(d) = IF d.sent THEN "sent" ELSE "issued"
BY DEF Row, Status, RevertTarget

LEMMA TargetsType ==
  ASSUME NEW d \in Row
  PROVE  Targets(d) \subseteq Status /\ "none" \notin Targets(d)
BY RevertTargetType DEF Row, Status, Targets

LEMMA MovedType ==
  ASSUME NEW d \in Row, NEW target \in Status
  PROVE  /\ Moved(d, target) \in Row /\ Moved(d, target).status = target
         /\ Dated(d) => Dated(Moved(d, target))
BY DEF Row, Status, Moved, Dated

LEMMA RefreshedType ==
  ASSUME NEW d \in Row, NEW remaining
  PROVE  /\ Refreshed(d, remaining) \in Row
         /\ Refreshed(d, remaining).status = "paid" => remaining # {}
         /\ Dated(d) => Dated(Refreshed(d, remaining))
BY RevertTargetType DEF Row, Status, Refreshed, Dated

-----------------------------------------------------------------------------
(* Every handler begins a change that is sound *)

LEMMA PaymentsOfType ==
  ASSUME NEW i \in Invoice
  PROVE  PaymentsOf(i) \subseteq Payment /\ UnlinkedManual(i) \subseteq PaymentsOf(i)
BY DEF PaymentsOf, UnlinkedManual

\* Update is a change with nothing but a row in it; handlers replace its other fields.
LEMMA UpdateType ==
  ASSUME Typed, NEW i \in Invoice, NEW after \in Row \cup {None}, NEW thread \in {"loop", "pool"}
  PROVE  Update(i, after, thread) \in Change
BY DEF Typed, Update, Change

LEMMA AlteredType ==
  ASSUME NEW c \in Change, NEW add \in SUBSET AddRow, NEW remove \in SUBSET Payment,
         NEW clear \in SUBSET Tx, NEW note \in SUBSET [payment : Payment, manual : BOOLEAN]
  PROVE  /\ [c EXCEPT !.add = add] \in Change
         /\ [c EXCEPT !.note = note] \in Change
         /\ [c EXCEPT !.remove = remove] \in Change
         /\ [c EXCEPT !.add = add, !.remove = remove] \in Change
         /\ [c EXCEPT !.remove = remove, !.clear = clear] \in Change
BY DEF Change, AddRow

\* A change that touches neither payments nor links.
LEMMA UpdateBegun ==
  ASSUME Sound, NEW i \in Invoice, NEW thread \in {"loop", "pool"}, NEW after \in Row,
         (row[i] # None => Dated(row[i])) => Dated(after), after.status # "paid"
  PROVE  Begun(Update(i, after, thread)) /\ Update(i, after, thread).invoice = i
<1> DEFINE c == Update(i, after, thread)
<1>1. c \in Change
  BY UpdateType DEF Sound
<1>2. after # None
  BY PaymentsAssumption
<1>3. /\ c.invoice = i /\ c.before = row[i] /\ c.after = after /\ c.add = {}
      /\ c.remove = {} /\ c.clear = {}
  BY DEF Update
<1> HIDE DEF c
<1>4. Shaped(c) /\ KnowsLinks(c)
  BY <1>1, <1>2, <1>3 DEF Shaped, KnowsLinks
<1>5. Fitting(c)
  BY <1>2, <1>3 DEF Fitting
<1> QED BY <1>3, <1>4, <1>5 DEF Begun, c

LEMMA StatusChangeBegun ==
  ASSUME Sound, NEW i \in Invoice, row[i] # None, NEW drop \in BOOLEAN,
         NEW thread \in {"loop", "pool"}, NEW target \in Targets(row[i])
  PROVE  LET c == StatusChange(i, target, drop, thread) IN Begun(c) /\ c.invoice = i
<1> DEFINE c == StatusChange(i, target, drop, thread)
           add == IF target = "paid" THEN {Manual} ELSE {}
           remove == IF drop /\ row[i].status = "paid" /\ target \in {"issued", "sent"}
                       THEN UnlinkedManual(i) ELSE {}
<1>1. row[i] \in Row
  BY DEF Sound, Typed
<1>2. target \in Status
  BY <1>1, TargetsType
<1>3. /\ Moved(row[i], target) \in Row
      /\ Moved(row[i], target).status = target
      /\ Dated(row[i]) => Dated(Moved(row[i], target))
  BY <1>1, <1>2, MovedType
<1>4. /\ c.invoice = i /\ c.before = row[i] /\ c.after = Moved(row[i], target)
      /\ c.add = add /\ c.remove = remove /\ c.clear = {}
  BY DEF StatusChange, Update
<1>5. Manual \in AddRow /\ Manual.tx = None
  BY DEF Manual, AddRow
<1>6. remove \subseteq UnlinkedManual(i) /\ remove \subseteq PaymentsOf(i)
  BY PaymentsOfType
<1>7. c.after # None
  BY <1>3, <1>4, PaymentsAssumption
<1>8. add \in SUBSET AddRow /\ remove \in SUBSET Payment
  BY <1>5, <1>6, PaymentsOfType
<1>9. c \in Change
  BY <1>3, <1>8, UpdateType, AlteredType DEF StatusChange, Sound
<1>10. add = {} \/ add = {Manual}
  OBVIOUS
<1>11. target = "paid" => add = {Manual}
  OBVIOUS
<1>12. add # {} => Payable(row[i])
  BY <1>1, RevertTargetType DEF Targets, Payable
<1> HIDE DEF c, add, remove
<1>13. Shaped(c)
  BY <1>4, <1>5, <1>7, <1>9, <1>10 DEF Shaped
<1>14. KnowsLinks(c)
  BY <1>4, <1>6 DEF KnowsLinks, UnlinkedManual, LinkedTo
<1>15. Fitting(c)
  <2>1. c.before # None /\ c.after # None
    BY <1>4, <1>7
  <2>2. \A a \in c.add : a.tx = None
    BY <1>4, <1>5, <1>10
  <2>3. c.after.status = "paid" => c.add # {}
    BY <1>3, <1>4, <1>11
  <2>4. c.add # {} => Payable(c.before)
    BY <1>4, <1>12
  <2> QED BY <1>3, <1>4, <1>6, <2>1, <2>2, <2>3, <2>4 DEF Fitting
<1> QED BY <1>4, <1>13, <1>14, <1>15 DEF Begun, c

\* A transaction pays a document: match by hand, through the API, by a sync.
LEMMA PairingBegun ==
  ASSUME Sound, NEW i \in Invoice, row[i] # None, Payable(row[i]), NEW t \in Tx, link[t] = None,
         NEW thread \in {"loop", "pool"}
  PROVE  Begun(Pairing(i, t, thread)) /\ Pairing(i, t, thread).invoice = i
<1> DEFINE c == Pairing(i, t, thread)
           a == [manual |-> FALSE, tx |-> t]
<1>1. row[i] \in Row
  BY DEF Sound, Typed
<1>2. /\ Moved(row[i], "paid") \in Row
      /\ Dated(row[i]) => Dated(Moved(row[i], "paid"))
  BY <1>1, MovedType DEF Status
<1>3. /\ c.invoice = i /\ c.before = row[i] /\ c.after = Moved(row[i], "paid")
      /\ c.add = {a} /\ c.remove = {} /\ c.clear = {}
  BY DEF Pairing, Update
<1>4. a \in AddRow /\ a.tx = t
  BY DEF AddRow
<1>5. c \in Change
  BY <1>2, <1>4, UpdateType, AlteredType DEF Pairing, Sound
<1>6. c.after # None
  BY <1>2, <1>3, PaymentsAssumption
<1> HIDE DEF c, a
<1>7. Shaped(c) /\ KnowsLinks(c)
  BY <1>3, <1>4, <1>5, <1>6 DEF Shaped, KnowsLinks
<1>8. Fitting(c)
  BY <1>2, <1>3, <1>4, <1>6 DEF Fitting
<1> QED BY <1>3, <1>7, <1>8 DEF Begun, c

\* Payments of the document go, with every link to them, and the document stays.
LEMMA RemovalBegun ==
  ASSUME Sound, NEW i \in Invoice, row[i] # None, NEW ps \in SUBSET PaymentsOf(i)
  PROVE  LET c == [Update(i, Refreshed(row[i], PaymentsOf(i) \ ps), "pool") EXCEPT
                     !.remove = ps, !.clear = LinkedTo(ps)]
         IN  Begun(c) /\ c.invoice = i
<1> DEFINE after == Refreshed(row[i], PaymentsOf(i) \ ps)
           c == [Update(i, after, "pool") EXCEPT !.remove = ps, !.clear = LinkedTo(ps)]
<1>1. row[i] \in Row
  BY DEF Sound, Typed
<1>2. /\ after \in Row /\ after # None
      /\ after.status = "paid" => PaymentsOf(i) \ ps # {}
      /\ Dated(row[i]) => Dated(after)
  BY <1>1, RefreshedType, PaymentsAssumption
<1> HIDE DEF after
<1>3. /\ c.invoice = i /\ c.before = row[i] /\ c.after = after
      /\ c.add = {} /\ c.remove = ps /\ c.clear = LinkedTo(ps)
  BY DEF Update
<1>4. c \in Change
  BY <1>2, UpdateType, AlteredType, PaymentsOfType DEF Sound, LinkedTo
<1> HIDE DEF c
<1>5. Shaped(c) /\ KnowsLinks(c)
  BY <1>2, <1>3, <1>4 DEF Shaped, KnowsLinks, LinkedTo
<1>6. Fitting(c)
  BY <1>2, <1>3 DEF Fitting, LinkedTo
<1> QED BY <1>3, <1>5, <1>6 DEF Begun, c, after

\* The document goes with its payments; the links that stay are those to itself.
LEMMA DeletionBegun ==
  ASSUME Sound, NEW c \in Change, row[c.invoice] # None, c.before = row[c.invoice],
         c.after = None, c.add = {}, c.remove = PaymentsOf(c.invoice),
         \A t \in c.clear : link[t] # None /\ link[t].payment \in PaymentsOf(c.invoice)
  PROVE  Begun(c)
<1>1. Shaped(c)
  BY DEF Shaped
<1>2. KnowsLinks(c)
  BY DEF KnowsLinks, Sound, LinksWellFounded, PaymentsOf
<1>3. Fitting(c)
  BY DEF Fitting
<1> QED BY <1>1, <1>2, <1>3 DEF Begun

\* Every handler of an existing document.
LEMMA ChangesBegun ==
  ASSUME Sound, NEW i \in Invoice, row[i] # None, NEW c \in Changes(i)
  PROVE  Begun(c) /\ c.invoice = i
<1>1. row[i] \in Row
  BY DEF Sound, Typed
<1>2. CASE c \in SetStatus(i) \cup BulkStatus(i) \cup ApiBulkAction(i)
  <2>1. PICK drop \in BOOLEAN, thread \in {"loop", "pool"}, target \in Targets(row[i]) :
          c = StatusChange(i, target, drop, thread)
    <3>1. CASE c \in SetStatus(i)
      BY <3>1 DEF SetStatus
    <3>2. CASE c \in BulkStatus(i)
      BY <3>2 DEF BulkStatus
    <3>3. CASE c \in ApiBulkAction(i)
      BY <3>3 DEF ApiBulkAction
    <3> QED BY <1>2, <3>1, <3>2, <3>3
  <2> QED BY <2>1, StatusChangeBegun
<1>3. CASE c \in IssueDraft(i)
  <2> DEFINE after == [row[i] EXCEPT !.status = "issued", !.final = TRUE]
  <2>1. row[i].status = "draft" /\ c = Update(i, after, "pool")
    BY <1>3 DEF IssueDraft
  <2>2. /\ after \in Row /\ after.status = "issued"
        /\ Dated(row[i]) => Dated(after)
    BY <1>1, <2>1 DEF Row, Status, Dated
  <2> HIDE DEF after
  <2> QED BY <2>1, <2>2, UpdateBegun
<1>4. CASE c \in IssueFromEditor(i)
  <2> DEFINE after == [status |-> "issued", sent |-> FALSE, paid |-> FALSE, final |-> TRUE]
  <2>1. c = Update(i, after, "loop")
    BY <1>4 DEF IssueFromEditor
  <2>2. after \in Row /\ after.status = "issued" /\ Dated(after)
    BY DEF Row, Status, Dated
  <2> HIDE DEF after
  <2> QED BY <2>1, <2>2, UpdateBegun
<1>5. CASE c \in SendEmail(i)
  <2> DEFINE after == [row[i] EXCEPT !.status = "sent", !.sent = TRUE]
  <2>1. /\ row[i].status = "issued"
        /\ \E thread \in {"loop", "pool"} : c = Update(i, after, thread)
    BY <1>5 DEF SendEmail
  <2>2. /\ after \in Row /\ after.status = "sent"
        /\ Dated(row[i]) => Dated(after)
    BY <1>1, <2>1 DEF Row, Status, Dated
  <2> HIDE DEF after
  <2> QED BY <2>1, <2>2, UpdateBegun
<1>6. CASE c \in DeleteInvoice(i)
  <2> DEFINE clear == {t \in Tx : link[t] # None /\ link[t].invoice = i}
                        \cup LinkedTo(PaymentsOf(i))
  <2>1. c = [Update(i, None, "pool") EXCEPT !.remove = PaymentsOf(i), !.clear = clear]
    BY <1>6 DEF DeleteInvoice
  <2>2. clear \in SUBSET Tx
    BY DEF LinkedTo
  <2>3. \A t \in clear : link[t] # None /\ link[t].payment \in PaymentsOf(i)
    <3> SUFFICES ASSUME NEW t \in clear
                 PROVE  link[t] # None /\ link[t].payment \in PaymentsOf(i)
      OBVIOUS
    <3>1. t \in Tx /\ link[t] # None
      BY DEF LinkedTo
    <3>2. link[t].payment \in Payment
      BY <3>1 DEF Sound, Typed, Link
    <3> QED BY <3>1, <3>2 DEF LinkedTo, PaymentsOf, Sound, LinksWellFounded
  <2> HIDE DEF clear
  <2>4. c \in Change
    BY <2>1, <2>2, UpdateType, AlteredType, PaymentsOfType DEF Sound
  <2>5. /\ c.invoice = i /\ c.before = row[i] /\ c.after = None
        /\ c.add = {} /\ c.remove = PaymentsOf(i) /\ c.clear = clear
    BY <2>1 DEF Update
  <2> QED BY <2>3, <2>4, <2>5, DeletionBegun
<1>7. CASE c \in DeleteDraft(i)
  <2>1. c = [Update(i, None, "pool") EXCEPT !.remove = PaymentsOf(i)]
    BY <1>7 DEF DeleteDraft
  <2>2. c \in Change
    BY <2>1, UpdateType, AlteredType, PaymentsOfType DEF Sound
  <2>3. /\ c.invoice = i /\ c.before = row[i] /\ c.after = None
        /\ c.add = {} /\ c.remove = PaymentsOf(i) /\ c.clear = {}
    BY <2>1 DEF Update
  <2> QED BY <2>2, <2>3, DeletionBegun
<1>8. CASE c \in CreatePayment(i)
  <2>1. PICK a \in AddRow :
          a.tx = None /\ c = [Update(i, Moved(row[i], "paid"), "pool") EXCEPT !.add = {a}]
    <3>1. PICK manual \in BOOLEAN :
            c = [Update(i, Moved(row[i], "paid"), "pool") EXCEPT
                   !.add = {[manual |-> manual, tx |-> None]}]
      BY <1>8 DEF CreatePayment
    <3>2. [manual |-> manual, tx |-> None] \in AddRow
      BY DEF AddRow
    <3> QED BY <3>1, <3>2
  <2>2. /\ Moved(row[i], "paid") \in Row
        /\ Dated(row[i]) => Dated(Moved(row[i], "paid"))
    BY <1>1, MovedType DEF Status
  <2>3. c \in Change
    BY <2>1, <2>2, UpdateType, AlteredType DEF Sound
  <2>4. /\ c.invoice = i /\ c.before = row[i] /\ c.after = Moved(row[i], "paid")
        /\ c.add = {a} /\ c.remove = {} /\ c.clear = {}
    BY <2>1 DEF Update
  <2>5. c.after # None
    BY <2>2, <2>4, PaymentsAssumption
  <2>6. Shaped(c) /\ KnowsLinks(c)
    BY <2>3, <2>4, <2>5 DEF Shaped, KnowsLinks
  <2>7. Payable(row[i])
    BY <1>8 DEF CreatePayment
  <2>8. Fitting(c)
    BY <2>1, <2>2, <2>4, <2>5, <2>7 DEF Fitting
  <2> QED BY <2>4, <2>6, <2>8 DEF Begun
<1>9. CASE c \in PatchPayment(i)
  <2> DEFINE after == Refreshed(row[i], PaymentsOf(i))
  <2>1. PICK note \in SUBSET [payment : Payment, manual : BOOLEAN] :
          c = [Update(i, after, "pool") EXCEPT !.note = note]
    <3>1. PICK p \in PaymentsOf(i), manual \in BOOLEAN :
            c = [Update(i, after, "pool") EXCEPT
                   !.note = {[payment |-> p, manual |-> manual]} \ {NoteOf(p)}]
      BY <1>9 DEF PatchPayment
    <3>2. [payment |-> p, manual |-> manual] \in [payment : Payment, manual : BOOLEAN]
      BY PaymentsOfType
    <3> QED BY <3>1, <3>2
  <2>2. /\ after \in Row /\ after # None
        /\ after.status = "paid" => PaymentsOf(i) # {}
        /\ Dated(row[i]) => Dated(after)
    BY <1>1, RefreshedType, PaymentsAssumption
  <2> HIDE DEF after
  <2>3. c \in Change
    BY <2>1, <2>2, UpdateType, AlteredType DEF Sound
  <2>4. /\ c.invoice = i /\ c.before = row[i] /\ c.after = after
        /\ c.add = {} /\ c.remove = {} /\ c.clear = {}
    BY <2>1 DEF Update
  <2>5. Shaped(c) /\ KnowsLinks(c)
    BY <2>2, <2>3, <2>4 DEF Shaped, KnowsLinks
  <2>6. Fitting(c)
    BY <2>2, <2>4 DEF Fitting
  <2> QED BY <2>4, <2>5, <2>6 DEF Begun
<1>10. CASE c \in DeletePayment(i)
  <2>1. PICK p \in PaymentsOf(i) :
          c = [Update(i, Refreshed(row[i], PaymentsOf(i) \ {p}), "pool") EXCEPT
                 !.remove = {p}, !.clear = LinkedTo({p})]
    BY <1>10 DEF DeletePayment
  <2>2. {p} \in SUBSET PaymentsOf(i)
    OBVIOUS
  <2> QED BY <2>1, <2>2, RemovalBegun
<1>11. CASE c \in ApiMatch(i) \cup PageMatch(i) \cup RetryMatching(i)
  <2>1. PICK t \in Tx, thread \in {"loop", "pool"} : link[t] = None /\ c = Pairing(i, t, thread)
    BY <1>11 DEF ApiMatch, PageMatch, RetryMatching
  <2>2. Payable(row[i])
    BY <1>11 DEF ApiMatch, PageMatch, RetryMatching, Candidates, Payable
  <2> QED BY <2>1, <2>2, PairingBegun
<1>12. CASE c \in Unmatch(i)
  <2>1. PICK t \in Tx :
          /\ link[t] # None /\ link[t].invoice = i
          /\ c = [Update(i, Refreshed(row[i], PaymentsOf(i) \ {link[t].payment}), "pool") EXCEPT
                    !.remove = {link[t].payment}, !.clear = {t}]
    BY <1>12 DEF Unmatch
  <2>2. link[t].payment \in Payment
    BY <2>1 DEF Sound, Typed, Link
  <2>3. link[t].payment \in PaymentsOf(i)
    BY <2>1, <2>2 DEF PaymentsOf, Sound, LinksWellFounded
  <2>4. LinkedTo({link[t].payment}) = {t}
    BY <2>1 DEF LinkedTo, Sound, LinksDisjoint
  <2>5. {link[t].payment} \in SUBSET PaymentsOf(i)
    BY <2>3
  <2>6. c = [Update(i, Refreshed(row[i], PaymentsOf(i) \ {link[t].payment}), "pool") EXCEPT
               !.remove = {link[t].payment}, !.clear = LinkedTo({link[t].payment})]
    BY <2>1, <2>4
  <2> QED BY <2>5, <2>6, RemovalBegun
<1> QED BY <1>2, <1>3, <1>4, <1>5, <1>6, <1>7, <1>8, <1>9, <1>10, <1>11, <1>12 DEF Changes

LEMMA CreateBegun ==
  ASSUME Sound, NEW i \in Invoice, row[i] = None, NEW c, c \in CreateInvoice(i)
  PROVE  Begun(c) /\ c.invoice = i
<1>1. PICK after \in {[status |-> "draft", sent |-> FALSE, paid |-> FALSE, final |-> FALSE],
                      [status |-> "issued", sent |-> FALSE, paid |-> FALSE, final |-> TRUE]},
           thread \in {"loop", "pool"} :
        c = Update(i, after, thread)
  BY DEF CreateInvoice
<1>2. CASE after = [status |-> "draft", sent |-> FALSE, paid |-> FALSE, final |-> FALSE]
  <2>1. after \in Row /\ Dated(after) /\ after.status # "paid"
    BY <1>2 DEF Row, Status, Dated
  <2> QED BY <1>1, <2>1, UpdateBegun
<1>3. CASE after = [status |-> "issued", sent |-> FALSE, paid |-> FALSE, final |-> TRUE]
  <2>1. after \in Row /\ Dated(after) /\ after.status # "paid"
    BY <1>3 DEF Row, Status, Dated
  <2> QED BY <1>1, <2>1, UpdateBegun
<1> QED BY <1>1, <1>2, <1>3

-----------------------------------------------------------------------------
(* What a commit writes *)

\* Whatever it adds, it adds as one payment that nobody knows of.
OneNew(c, new) ==
  /\ new \subseteq FreshPayments
  /\ c.add = {} => new = {}
  /\ \A a : c.add = {a} => \E p \in FreshPayments : new = {p}

WrittenPayment(c, new, p) ==
  /\ p \in new =>
       /\ payment'[p] \in PaymentRow
       /\ payment'[p].invoice = c.invoice
       /\ \E a \in c.add : payment'[p].tx = a.tx
  /\ p \notin new /\ p \in c.remove => payment'[p] = None
  /\ p \notin new /\ p \notin c.remove =>
       IF payment[p] = None THEN payment'[p] = None
       ELSE /\ payment'[p] \in PaymentRow
            /\ payment'[p].invoice = payment[p].invoice
            /\ payment'[p].tx = payment[p].tx

WrittenLink(c, new, t) ==
  \/ /\ \E a \in c.add : a.tx = t
     /\ \E p \in new : link'[t] = [invoice |-> c.invoice, payment |-> p]
  \/ /\ ~ \E a \in c.add : a.tx = t
     /\ t \in c.clear
     /\ link'[t] = None
  \/ /\ ~ \E a \in c.add : a.tx = t
     /\ t \notin c.clear
     /\ link'[t] = link[t]

Written(c, new) ==
  /\ OneNew(c, new)
  /\ Accepted(c)
  /\ row' = [row EXCEPT ![c.invoice] = NewRow(c)]
  /\ DOMAIN payment' = Payment /\ payment' = [p \in Payment |-> payment'[p]]
  /\ \A p \in Payment : WrittenPayment(c, new, p)
  /\ link' = [t \in Tx |-> link'[t]]
  /\ \A t \in Tx : WrittenLink(c, new, t)

LEMMA CommitWrites ==
  ASSUME TypeOK, NEW r \in Request, NEW c, c = req[r], Shaped(c), Commit(r)
  PROVE  \E new : Written(c, new)
<1>1. PICK new \in {ps \in SUBSET FreshPayments : Cardinality(ps) = Cardinality(req[r].add)} :
        /\ payment' = [p \in Payment |-> NewPayment(req[r], new, p)]
        /\ link' = [t \in Tx |-> NewLink(req[r], new, t)]
  BY DEF Commit
<1>2. Accepted(c) /\ row' = [row EXCEPT ![c.invoice] = NewRow(c)]
  <2>1. Accepted(c)
    BY DEF Commit, Accepted
  <2>2. NewRow(c) = NewRow(req[r])
    BY DEF NewRow
  <2>3. row' = [row EXCEPT ![c.invoice] = NewRow(c)]
    BY <2>2 DEF Commit
  <2> QED BY <2>1, <2>3
<1>3. c.invoice \in Invoice /\ c.add \subseteq AddRow /\ c.note \subseteq [payment : Payment, manual : BOOLEAN]
  BY DEF Shaped, Change, AddRow
<1>4. OneNew(c, new)
  <2>1. IsFiniteSet(new)
    BY FS_Subset, PaymentsAssumption DEF FreshPayments
  <2>2. CASE c.add = {}
    <3>1. Cardinality(new) = 0
      BY <2>2, FS_EmptySet
    <3>2. new = {}
      BY <2>1, <3>1, FS_EmptySet
    <3> QED BY <2>2, <3>2 DEF OneNew
  <2>3. CASE \E a : c.add = {a}
    <3>1. Cardinality(new) = 1
      BY <2>3, FS_Singleton
    <3>2. PICK p : new = {p}
      BY <2>1, <3>1, FS_Singleton
    <3>3. p \in FreshPayments
      BY <3>2
    <3> QED BY <2>3, <3>2, <3>3 DEF OneNew
  <2> QED BY <2>2, <2>3 DEF Shaped
<1>5. ASSUME NEW p \in Payment
      PROVE  WrittenPayment(c, new, p)
  <2>1. CASE p \in new
    <3>1. PICK a \in c.add : a = CHOOSE x \in c.add : TRUE
      BY <1>4, <2>1 DEF OneNew, Shaped
    <3>2. payment'[p] = [invoice |-> c.invoice, manual |-> a.manual, tx |-> a.tx]
      BY <1>1, <2>1, <3>1 DEF NewPayment
    <3>3. a.manual \in BOOLEAN /\ a.tx \in Tx \cup {None}
      BY <1>3 DEF AddRow
    <3> QED BY <1>3, <2>1, <3>2, <3>3 DEF WrittenPayment, PaymentRow
  <2>2. CASE p \notin new /\ p \in c.remove
    BY <1>1, <2>2 DEF WrittenPayment, NewPayment
  <2>3. CASE p \notin new /\ p \notin c.remove
    <3>1. payment'[p] = IF \E n \in c.note : n.payment = p
                          THEN [payment[p] EXCEPT !.manual = ~@] ELSE payment[p]
      BY <1>1, <2>3 DEF NewPayment
    <3>2. CASE payment[p] = None
      <4>1. ~ \E n \in c.note : n.payment = p
        BY <1>2, <3>2 DEF Accepted
      <4> QED BY <2>3, <3>1, <3>2, <4>1 DEF WrittenPayment
    <3>3. CASE payment[p] # None
      <4>1. payment[p] \in PaymentRow
        BY <3>3 DEF TypeOK
      <4>2. /\ payment'[p] \in PaymentRow
            /\ payment'[p].invoice = payment[p].invoice
            /\ payment'[p].tx = payment[p].tx
        BY <3>1, <4>1 DEF PaymentRow
      <4> QED BY <2>3, <3>3, <4>2 DEF WrittenPayment
    <3> QED BY <3>2, <3>3
  <2> QED BY <2>1, <2>2, <2>3
<1>6. ASSUME NEW t \in Tx
      PROVE  WrittenLink(c, new, t)
  <2>1. CASE \E a \in c.add : a.tx = t
    <3>1. PICK p \in new : p = CHOOSE x \in new : TRUE
      BY <1>4, <2>1 DEF OneNew, Shaped
    <3>2. link'[t] = [invoice |-> c.invoice, payment |-> p]
      BY <1>1, <2>1, <3>1 DEF NewLink
    <3> QED BY <2>1, <3>2 DEF WrittenLink
  <2>2. CASE ~ \E a \in c.add : a.tx = t
    BY <1>1, <2>2 DEF WrittenLink, NewLink
  <2> QED BY <2>1, <2>2
<1>7. /\ DOMAIN payment' = Payment /\ payment' = [p \in Payment |-> payment'[p]]
      /\ link' = [t \in Tx |-> link'[t]]
  BY <1>1
<1> QED BY <1>2, <1>4, <1>5, <1>6, <1>7 DEF Written

LEMMA NewRowType ==
  ASSUME Typed, NEW c \in Change, Accepted(c)
  PROVE  /\ NewRow(c) \in Row \cup {None}
         /\ NewRow(c) = None => c.after = None \/ (row[c.invoice] = None /\ c.add = {})
         /\ row[c.invoice] = c.before => NewRow(c) = c.after
<1>1. /\ c.invoice \in Invoice /\ row[c.invoice] \in Row \cup {None}
      /\ c.before \in Row \cup {None} /\ c.after \in Row \cup {None}
  BY DEF Typed, Change
<1>2. CASE c.after = None
  BY <1>2 DEF NewRow
<1>3. CASE c.after # None /\ c.before = None
  BY <1>1, <1>3 DEF NewRow
<1>4. CASE c.after # None /\ c.before # None /\ row[c.invoice] = None
  BY <1>1, <1>4 DEF NewRow, Accepted
<1>5. CASE c.after # None /\ c.before # None /\ row[c.invoice] # None
  <2> DEFINE now == row[c.invoice]
             m == Merged(now, c.before, c.after)
  <2>1. NewRow(c) = m
    BY <1>5 DEF NewRow
  <2>2. now \in Row /\ c.before \in Row /\ c.after \in Row
    BY <1>1, <1>5
  <2> HIDE DEF now
  <2>3. DOMAIN c.after = {"status", "sent", "paid", "final"}
    BY <2>2 DEF Row
  <2>4. m = [f \in {"status", "sent", "paid", "final"} |->
               IF c.before[f] # c.after[f] THEN c.after[f] ELSE now[f]]
    BY <2>3 DEF Merged
  <2>5. m \in Row
    BY <2>2, <2>4 DEF Row
  <2>6. m # None
    BY <2>5, PaymentsAssumption
  <2>7. now = c.before => m = c.after
    BY <2>2, <2>4 DEF Row
  <2> QED BY <1>5, <2>1, <2>5, <2>6, <2>7 DEF now
<1> QED BY <1>2, <1>3, <1>4, <1>5

\* However handlers overlap, a commit leaves no link and no payment in the air.
LEMMA CommitSound ==
  ASSUME Sound, NEW c, Shaped(c), KnowsLinks(c), NEW new, Written(c, new)
  PROVE  Sound'
<1>1. c \in Change /\ c.invoice \in Invoice /\ Accepted(c)
  BY DEF Shaped, Change, Written
<1>2. row' = [row EXCEPT ![c.invoice] = NewRow(c)]
  BY DEF Written
<1>3. /\ NewRow(c) \in Row \cup {None}
      /\ NewRow(c) = None => c.after = None \/ (row[c.invoice] = None /\ c.add = {})
  BY <1>1, NewRowType DEF Sound
<1>4. /\ new \subseteq Payment /\ \A p \in new : payment[p] = None
      /\ \A p, q \in new : p = q
      /\ new # {} => c.add # {}
  BY DEF Written, OneNew, FreshPayments, Shaped
<1>5. ASSUME NEW p \in Payment PROVE WrittenPayment(c, new, p)
  BY DEF Written
<1>6. ASSUME NEW t \in Tx PROVE WrittenLink(c, new, t)
  BY DEF Written
<1>7. \A t, u \in Tx : (\E a \in c.add : a.tx = t) /\ (\E a \in c.add : a.tx = u) => t = u
  BY DEF Shaped
<1>8. ASSUME NEW t \in Tx, link[t] # None
      PROVE  /\ link[t].payment \in Payment /\ link[t].payment \notin new
             /\ payment[link[t].payment] # None
             /\ payment[link[t].payment].invoice = link[t].invoice
             /\ t \notin c.clear => link[t].payment \notin c.remove
  <2>1. /\ link[t].payment \in Payment /\ payment[link[t].payment] # None
        /\ payment[link[t].payment].invoice = link[t].invoice
    BY <1>8 DEF Sound, Typed, Link, LinksWellFounded
  <2>2. t \notin c.clear => link[t].payment \notin c.remove
    BY <1>1, <1>8 DEF KnowsLinks, Accepted
  <2> QED BY <1>4, <2>1, <2>2
<1>9. Typed'
  <2>1. row' \in [Invoice -> Row \cup {None}]
    BY <1>1, <1>2, <1>3 DEF Sound, Typed
  <2>2. ASSUME NEW p \in Payment PROVE payment'[p] \in PaymentRow \cup {None}
    BY <1>5 DEF WrittenPayment
  <2>3. ASSUME NEW t \in Tx PROVE link'[t] \in Link \cup {None}
    <3>1. CASE \E p \in new : link'[t] = [invoice |-> c.invoice, payment |-> p]
      BY <1>1, <1>4, <3>1 DEF Link
    <3>2. CASE link'[t] = None \/ link'[t] = link[t]
      BY <3>2 DEF Sound, Typed
    <3> QED BY <1>6, <3>1, <3>2 DEF WrittenLink
  <2>4. payment' \in [Payment -> PaymentRow \cup {None}]
    BY <2>2 DEF Written
  <2>5. link' \in [Tx -> Link \cup {None}]
    BY <2>3 DEF Written
  <2> QED BY <2>1, <2>4, <2>5 DEF Typed
<1>10. ASSUME NEW p \in Payment, payment'[p] # None
       PROVE  row'[payment'[p].invoice] # None
  <2>1. CASE p \in new
    <3>1. payment'[p].invoice = c.invoice /\ c.add # {}
      BY <1>4, <1>5, <2>1 DEF WrittenPayment
    <3>2. NewRow(c) # None
      BY <1>3, <3>1 DEF Shaped
    <3> QED BY <1>1, <1>2, <3>1, <3>2 DEF Sound, Typed
  <2>2. CASE p \notin new
    <3>1. /\ p \notin c.remove /\ payment[p] # None
          /\ payment'[p].invoice = payment[p].invoice
      BY <1>5, <1>10, <2>2 DEF WrittenPayment
    <3>2. payment[p].invoice \in Invoice /\ row[payment[p].invoice] # None
      BY <3>1 DEF Sound, Typed, PaymentRow, LinksWellFounded
    <3>3. CASE payment[p].invoice = c.invoice
      <4>1. c.after # None
        BY <1>1, <3>1, <3>3 DEF Accepted, PaymentsOf
      <4>2. NewRow(c) # None
        BY <1>3, <3>2, <3>3, <4>1
      <4> QED BY <1>1, <1>2, <3>1, <3>3, <4>2 DEF Sound, Typed
    <3>4. CASE payment[p].invoice # c.invoice
      BY <1>2, <3>1, <3>2, <3>4 DEF Sound, Typed
    <3> QED BY <3>3, <3>4
  <2> QED BY <2>1, <2>2
<1>11. ASSUME NEW t \in Tx, link'[t] # None
       PROVE  /\ payment'[link'[t].payment] # None
              /\ payment'[link'[t].payment].invoice = link'[t].invoice
  <2>1. CASE \E p \in new : link'[t] = [invoice |-> c.invoice, payment |-> p]
    <3>1. PICK p \in new : link'[t] = [invoice |-> c.invoice, payment |-> p]
      BY <2>1
    <3>2. link'[t].payment = p /\ link'[t].invoice = c.invoice /\ p \in Payment
      BY <1>4, <3>1
    <3>3. payment'[p] # None /\ payment'[p].invoice = c.invoice
      BY <1>5, <3>2, PaymentsAssumption DEF WrittenPayment
    <3> QED BY <3>2, <3>3
  <2>2. CASE t \notin c.clear /\ link'[t] = link[t]
    <3>1. link[t].payment \in Payment \ (new \cup c.remove)
      BY <1>8, <1>11, <2>2
    <3>2. /\ payment'[link[t].payment] # None
          /\ payment'[link[t].payment].invoice = payment[link[t].payment].invoice
      BY <1>5, <1>8, <1>11, <2>2, <3>1, PaymentsAssumption DEF WrittenPayment
    <3> QED BY <1>8, <1>11, <2>2, <3>2
  <2> QED BY <1>6, <1>11, <2>1, <2>2 DEF WrittenLink
<1>12. ASSUME NEW t \in Tx, NEW u \in Tx, link'[t] # None, link'[u] # None,
              link'[t].payment = link'[u].payment
       PROVE  t = u
  <2>1. ASSUME NEW v \in Tx, link'[v] # None
        PROVE  \/ (\E a \in c.add : a.tx = v) /\ link'[v].payment \in new
               \/ link'[v] = link[v] /\ link[v].payment \notin new
    <3>1. CASE (\E a \in c.add : a.tx = v)
      <4>1. PICK p \in new : link'[v] = [invoice |-> c.invoice, payment |-> p]
        BY <1>6, <3>1 DEF WrittenLink
      <4> QED BY <3>1, <4>1
    <3>2. CASE ~ \E a \in c.add : a.tx = v
      <4>1. link'[v] = link[v]
        BY <1>6, <2>1, <3>2 DEF WrittenLink
      <4> QED BY <1>8, <2>1, <4>1
    <3> QED BY <3>1, <3>2
  <2>2. CASE link'[t].payment \in new
    BY <1>7, <1>12, <2>1, <2>2
  <2>3. CASE link'[t].payment \notin new
    <3>1. link'[t] = link[t] /\ link'[u] = link[u]
      BY <1>12, <2>1, <2>3
    <3> QED BY <1>12, <3>1 DEF Sound, LinksDisjoint
  <2> QED BY <2>2, <2>3
<1> QED BY <1>9, <1>10, <1>11, <1>12 DEF Sound, LinksWellFounded, LinksDisjoint

-----------------------------------------------------------------------------
(* Handlers that overlap *)

Inv ==
  /\ TypeOK /\ LinksWellFounded /\ LinksDisjoint
  /\ \A r \in Request : req[r] # None => Shaped(req[r]) /\ KnowsLinks(req[r])

LEMMA InvSound == Inv => Sound
BY DEF Inv, TypeOK, Sound, Typed

LEMMA InitInv == Init => Inv
BY PaymentsAssumption DEF Init, Inv, TypeOK, LinksWellFounded, LinksDisjoint, Idle

\* What Begin leaves behind.
LEMMA BeginBegins ==
  ASSUME Inv, NEW r \in Request, NEW changes, Begin(r, changes), \A c \in changes : Begun(c)
  PROVE  /\ \E c : Begun(c) /\ req' = [req EXCEPT ![r] = c]
         /\ UNCHANGED <<row, payment, link>>
         /\ overlaps' \in 0..MaxOverlaps
         /\ overlaps' = 0 => overlaps = 0 /\ \A s \in Request : req[s] = None
<1>1. /\ \E c : Begun(c) /\ req' = [req EXCEPT ![r] = c]
      /\ UNCHANGED <<row, payment, link>>
  BY DEF Begin
<1>2. overlaps \in Nat /\ overlaps \in 0..MaxOverlaps /\ MaxOverlaps \in Nat
  BY PaymentsAssumption DEF Inv, TypeOK
<1>3. CASE InFlight = {}
  <2>1. \A s \in Request : req[s] = None
    BY <1>3 DEF InFlight, Idle
  <2>2. overlaps' = overlaps
    BY <1>3 DEF Begin
  <2>3. overlaps' \in 0..MaxOverlaps /\ (overlaps' = 0 => overlaps = 0)
    BY <1>2, <2>2
  <2> QED BY <1>1, <2>1, <2>3
<1>4. CASE InFlight # {}
  <2>1. overlaps < MaxOverlaps /\ overlaps' = overlaps + 1
    BY <1>4 DEF Begin
  <2>2. overlaps' \in 0..MaxOverlaps /\ overlaps' # 0
    BY <1>2, <2>1
  <2> QED BY <1>1, <2>2
<1> QED BY <1>3, <1>4

\* Every step begins a sound change, commits one or gives one up.
LEMMA Steps ==
  ASSUME Inv, [Next]_vars
  PROVE  \/ \E r \in Request : \E changes :
              Begin(r, changes) /\ \A c \in changes : Begun(c)
         \/ \E r \in Request : Commit(r) \/ Abandon(r)
         \/ UNCHANGED vars
<1>1. Sound
  BY InvSound
<1>2. ASSUME NEW r \in Request, NEW i \in Invoice, BeginExisting(r, i)
      PROVE  \E changes : Begin(r, changes) /\ \A c \in changes : Begun(c)
  BY <1>1, <1>2, ChangesBegun DEF BeginExisting
<1>3. ASSUME NEW r \in Request, NEW i \in Invoice, BeginNew(r, i)
      PROVE  \E changes : Begin(r, changes) /\ \A c \in changes : Begun(c)
  BY <1>1, <1>3, CreateBegun DEF BeginNew
<1> QED BY <1>2, <1>3 DEF Next

LEMMA KeepsInv == Inv /\ [Next]_vars => Inv'
<1> SUFFICES ASSUME Inv, [Next]_vars PROVE Inv'
  OBVIOUS
<1>1. Sound
  BY InvSound
<1>2. ASSUME NEW r \in Request, NEW changes, Begin(r, changes), \A c \in changes : Begun(c)
      PROVE  Inv'
  <2>1. PICK c : Begun(c) /\ req' = [req EXCEPT ![r] = c]
    BY <1>2, BeginBegins
  <2>2. UNCHANGED <<row, payment, link>> /\ overlaps' \in 0..MaxOverlaps
    BY <1>2, BeginBegins
  <2>3. c \in Change /\ Shaped(c) /\ KnowsLinks(c)
    BY <2>1 DEF Begun, Shaped
  <2>4. TypeOK'
    BY <2>1, <2>2, <2>3 DEF Inv, TypeOK
  <2>5. LinksWellFounded' /\ LinksDisjoint'
    BY <2>2 DEF Inv, LinksWellFounded, LinksDisjoint
  <2>6. ASSUME NEW s \in Request, req'[s] # None
        PROVE  Shaped(req'[s]) /\ KnowsLinks(req[s])'
    <3>1. CASE s = r
      <4>1. req'[s] = c
        BY <2>1, <3>1 DEF Inv, TypeOK
      <4> QED BY <2>2, <2>3, <4>1 DEF Shaped, KnowsLinks
    <3>2. CASE s # r
      <4>1. req'[s] = req[s]
        BY <2>1, <3>2 DEF Inv, TypeOK
      <4> QED BY <2>2, <2>6, <4>1 DEF Inv, Shaped, KnowsLinks
    <3> QED BY <3>1, <3>2
  <2> QED BY <2>4, <2>5, <2>6 DEF Inv, Shaped
<1>3. ASSUME NEW r \in Request, Commit(r)
      PROVE  Inv'
  <2>1. PICK c : c = req[r]
    OBVIOUS
  <2>2. c # None /\ req' = [req EXCEPT ![r] = None] /\ UNCHANGED overlaps
    BY <1>3, <2>1 DEF Commit, Idle
  <2>3. Shaped(c) /\ KnowsLinks(c)
    BY <2>1, <2>2 DEF Inv, Shaped, KnowsLinks
  <2>4. PICK new : Written(c, new)
    BY <1>3, <2>1, <2>3, CommitWrites DEF Inv
  <2>5. Sound'
    BY <1>1, <2>3, <2>4, CommitSound
  <2>6. TypeOK'
    BY <2>2, <2>5 DEF Inv, TypeOK, Sound, Typed, Idle
  <2>7. ASSUME NEW s \in Request, req'[s] # None
        PROVE  Shaped(req'[s]) /\ KnowsLinks(req[s])'
    <3>1. req'[s] = req[s] /\ req[s] # None
      BY <2>2, <2>7 DEF Inv, TypeOK
    <3>2. PICK d : d = req[s]
      OBVIOUS
    <3>3. Shaped(d) /\ KnowsLinks(d)
      BY <3>1, <3>2 DEF Inv, Shaped, KnowsLinks
    <3>4. \A p \in new : p \notin d.remove
      BY <2>4, <3>1, <3>2 DEF Written, OneNew, FreshPayments, InFlight, Idle
    <3>5. ASSUME NEW p \in d.remove, NEW t \in Tx, link'[t] # None, link'[t].payment = p
          PROVE  t \in d.clear \/ (d.after = None /\ link'[t].invoice = d.invoice)
      <4>1. WrittenLink(c, new, t)
        BY <2>4 DEF Written
      <4>2. CASE \E q \in new : link'[t] = [invoice |-> c.invoice, payment |-> q]
        BY <3>4, <3>5, <4>2
      <4>3. CASE link'[t] = link[t]
        BY <3>3, <3>5, <4>3 DEF KnowsLinks
      <4> QED BY <3>5, <4>1, <4>2, <4>3 DEF WrittenLink
    <3> QED BY <3>1, <3>2, <3>3, <3>5 DEF Shaped, KnowsLinks
  <2> QED BY <2>5, <2>6, <2>7 DEF Inv, Sound, Shaped
<1>4. ASSUME NEW r \in Request, Abandon(r)
      PROVE  Inv'
  <2>1. req' = [req EXCEPT ![r] = None] /\ UNCHANGED <<row, payment, link, overlaps>>
    BY <1>4 DEF Abandon, Idle
  <2>2. TypeOK' /\ LinksWellFounded' /\ LinksDisjoint'
    BY <2>1 DEF Inv, TypeOK, LinksWellFounded, LinksDisjoint, Idle
  <2>3. ASSUME NEW s \in Request, req'[s] # None
        PROVE  Shaped(req'[s]) /\ KnowsLinks(req[s])'
    <3>1. req'[s] = req[s] /\ req[s] # None
      BY <2>1, <2>3 DEF Inv, TypeOK
    <3> QED BY <2>1, <3>1 DEF Inv, Shaped, KnowsLinks
  <2> QED BY <2>2, <2>3 DEF Inv, Shaped
<1>5. CASE UNCHANGED vars
  BY <1>5 DEF vars, Inv, TypeOK, LinksWellFounded, LinksDisjoint, Shaped, KnowsLinks
<1> QED BY <1>2, <1>3, <1>4, <1>5, Steps

LEMMA AlwaysInv == Spec => []Inv
BY InitInv, KeepsInv, PTL DEF Spec

\* The rows stay in their types: no handler writes a status that is none.
THEOREM TypeCorrect == Spec => []TypeOK
<1>1. Inv => TypeOK
  BY DEF Inv
<1> QED BY <1>1, AlwaysInv, PTL

\* Payments and links never hang in the air, however many handlers overlap.
THEOREM LinksHold == Spec => []LinksWellFounded
<1>1. Inv => LinksWellFounded
  BY DEF Inv
<1> QED BY <1>1, AlwaysInv, PTL

-----------------------------------------------------------------------------
(* Handlers one after the other *)

\* Nobody began while another was in flight: whoever is in flight is alone, and
\* its change still fits what it has read.
Serial ==
  overlaps = 0 =>
    /\ \A r, s \in Request : req[r] # None /\ req[s] # None => r = s
    /\ \A r \in Request : req[r] # None => Fitting(req[r])

\* The sound states of the documents.
InOrder ==
  /\ \A i \in Invoice : row[i] # None => Dated(row[i])
  /\ \A i \in Invoice : row[i] # None /\ row[i].status = "paid" => PaymentsOf(i) # {}
  /\ \A p \in Payment, t \in Tx :
       payment[p] # None /\ payment[p].tx = t => link[t] # None /\ link[t].payment = p

SerialInv == Serial /\ (overlaps = 0 => InOrder)

\* A change that fits what is committed by now keeps documents, payments and
\* transactions in order.
LEMMA CommitInOrder ==
  ASSUME Sound, InOrder, NEW c, Shaped(c), KnowsLinks(c), Fitting(c), NEW new, Written(c, new)
  PROVE  InOrder'
<1> DEFINE i == c.invoice
<1>1. c \in Change /\ i \in Invoice /\ Accepted(c)
  BY DEF Shaped, Change, Written
<1>2. c.before = row[i] /\ NewRow(c) = c.after
  BY <1>1, NewRowType DEF Fitting, Sound
<1>3. row' = [row EXCEPT ![i] = c.after] /\ row \in [Invoice -> Row \cup {None}]
  BY <1>2 DEF Written, Sound, Typed
<1>4. row'[i] = c.after /\ \A j \in Invoice : j # i => row'[j] = row[j]
  BY <1>1, <1>3
<1>5. ASSUME NEW p \in Payment PROVE WrittenPayment(c, new, p)
  BY DEF Written
<1>6. ASSUME NEW t \in Tx PROVE WrittenLink(c, new, t)
  BY DEF Written
<1>7. new \subseteq Payment /\ \A p \in new : payment[p] = None
  BY DEF Written, OneNew, FreshPayments
<1>8. ASSUME NEW j \in Invoice, row'[j] # None
      PROVE  Dated(row'[j])
  <2>1. CASE j = i
    BY <1>2, <1>4, <1>8, <2>1 DEF Fitting, InOrder
  <2>2. CASE j # i
    BY <1>4, <1>8, <2>2 DEF InOrder
  <2> QED BY <2>1, <2>2
<1>9. ASSUME NEW p \in Payment, payment[p] # None, p \notin c.remove
      PROVE  /\ payment'[p] # None
             /\ payment'[p].invoice = payment[p].invoice
             /\ payment'[p].tx = payment[p].tx
  BY <1>5, <1>7, <1>9, PaymentsAssumption DEF WrittenPayment
<1>10. ASSUME NEW j \in Invoice, row'[j] # None, row'[j].status = "paid"
       PROVE  \E p \in Payment : payment'[p] # None /\ payment'[p].invoice = j
  <2>1. CASE j # i
    <3>1. PICK p \in Payment : payment[p] # None /\ payment[p].invoice = j
      BY <1>4, <1>10, <2>1 DEF InOrder, PaymentsOf
    <3>2. p \notin c.remove
      BY <2>1, <3>1 DEF Fitting, PaymentsOf
    <3> QED BY <1>9, <3>1, <3>2
  <2>2. CASE j = i /\ c.add # {}
    <3>1. PICK p \in FreshPayments : new = {p}
      BY <2>2 DEF Written, OneNew, Shaped
    <3>2. p \in Payment /\ payment'[p] # None /\ payment'[p].invoice = i
      BY <1>5, <1>7, <3>1, PaymentsAssumption DEF WrittenPayment
    <3> QED BY <2>2, <3>2
  <2>3. CASE j = i /\ c.add = {}
    <3>1. \E p \in PaymentsOf(i) : p \notin c.remove
      <4>1. CASE PaymentsOf(i) \ c.remove # {}
        BY <4>1
      <4>2. CASE row[i] # None /\ row[i].status = "paid" /\ c.remove = {}
        BY <1>1, <4>2 DEF InOrder
      <4> QED BY <1>2, <1>4, <1>10, <2>3, <4>1, <4>2 DEF Fitting
    <3>2. PICK p \in Payment :
            payment[p] # None /\ payment[p].invoice = i /\ p \notin c.remove
      BY <3>1 DEF PaymentsOf
    <3> QED BY <1>9, <2>3, <3>2
  <2> QED BY <2>1, <2>2, <2>3
<1>11. ASSUME NEW p \in Payment, NEW t \in Tx, payment'[p] # None, payment'[p].tx = t
       PROVE  link'[t] # None /\ link'[t].payment = p
  <2>1. CASE p \in new
    <3>1. PICK a \in c.add : a.tx = t
      BY <1>5, <1>11, <2>1 DEF WrittenPayment
    <3>2. PICK q \in new : link'[t] = [invoice |-> i, payment |-> q]
      BY <1>6, <3>1 DEF WrittenLink
    <3>3. q = p
      <4>1. PICK b : c.add = {b}
        BY <3>1 DEF Shaped
      <4>2. \E x \in FreshPayments : new = {x}
        BY <4>1 DEF Written, OneNew
      <4> QED BY <2>1, <4>2
    <3>4. link'[t] \in Link
      BY <1>1, <1>7, <3>2 DEF Link
    <3> QED BY <3>2, <3>3, <3>4, PaymentsAssumption
  <2>2. CASE p \notin new
    <3>1. payment[p] # None /\ p \notin c.remove /\ payment[p].tx = t
      BY <1>5, <1>11, <2>2 DEF WrittenPayment
    <3>2. link[t] # None /\ link[t].payment = p
      BY <3>1 DEF InOrder
    <3>3. ~ \E a \in c.add : a.tx = t
      BY <3>2, PaymentsAssumption DEF Fitting
    <3>4. t \notin c.clear
      BY <3>1, <3>2 DEF Fitting
    <3> QED BY <1>6, <3>2, <3>3, <3>4 DEF WrittenLink
  <2> QED BY <2>1, <2>2
<1>12. \A j \in Invoice : row'[j] # None /\ row'[j].status = "paid" => PaymentsOf(j)' # {}
  BY <1>10 DEF PaymentsOf
<1> QED BY <1>8, <1>11, <1>12 DEF InOrder, Dated

LEMMA InitSerial == Init => SerialInv
BY DEF Init, SerialInv, Serial, InOrder, Idle

LEMMA KeepsSerial == Inv /\ SerialInv /\ [Next]_vars => SerialInv'
<1> SUFFICES ASSUME Inv, SerialInv, [Next]_vars PROVE SerialInv'
  OBVIOUS
<1>1. Sound
  BY InvSound
<1>2. ASSUME NEW r \in Request, NEW changes, Begin(r, changes), \A c \in changes : Begun(c)
      PROVE  SerialInv'
  <2>1. PICK c : Begun(c) /\ req' = [req EXCEPT ![r] = c]
    BY <1>2, BeginBegins
  <2>2. /\ UNCHANGED <<row, payment, link>>
        /\ overlaps' = 0 => overlaps = 0 /\ \A s \in Request : req[s] = None
    BY <1>2, BeginBegins
  <2>3. ASSUME overlaps' = 0, NEW s \in Request, req'[s] # None
        PROVE  s = r /\ Fitting(req[s])'
    <3>1. s = r /\ req'[s] = c
      BY <2>1, <2>2, <2>3 DEF Inv, TypeOK
    <3> QED BY <2>1, <2>2, <3>1 DEF Begun, Fitting, PaymentsOf
  <2>4. overlaps' = 0 => InOrder'
    BY <2>2 DEF SerialInv, InOrder, PaymentsOf, Dated
  <2> QED BY <2>3, <2>4 DEF SerialInv, Serial
<1>3. ASSUME NEW r \in Request, Commit(r)
      PROVE  SerialInv'
  <2>1. PICK c : c = req[r]
    OBVIOUS
  <2>2. c # None /\ req' = [req EXCEPT ![r] = None] /\ UNCHANGED overlaps
    BY <1>3, <2>1 DEF Commit, Idle
  <2>3. Shaped(c) /\ KnowsLinks(c)
    BY <2>1, <2>2 DEF Inv, Shaped, KnowsLinks
  <2>4. PICK new : Written(c, new)
    BY <1>3, <2>1, <2>3, CommitWrites DEF Inv
  <2>5. SUFFICES ASSUME overlaps = 0
                 PROVE  InOrder' /\ \A s \in Request : req'[s] = None
    BY <2>2 DEF SerialInv, Serial
  <2>6. InOrder /\ Fitting(c)
    BY <2>1, <2>2, <2>5 DEF SerialInv, Serial, Fitting
  <2>7. InOrder'
    BY <1>1, <2>3, <2>4, <2>6, CommitInOrder
  <2>8. \A s \in Request : req'[s] = None
    BY <2>1, <2>2, <2>5 DEF SerialInv, Serial, Inv, TypeOK
  <2> QED BY <2>7, <2>8
<1>4. ASSUME NEW r \in Request, Abandon(r)
      PROVE  SerialInv'
  <2>1. req' = [req EXCEPT ![r] = None] /\ UNCHANGED <<row, payment, link, overlaps>>
    BY <1>4 DEF Abandon, Idle
  <2>2. overlaps' = 0 => InOrder'
    BY <2>1 DEF SerialInv, InOrder, PaymentsOf, Dated
  <2>3. ASSUME NEW s \in Request, req'[s] # None
        PROVE  req'[s] = req[s] /\ req[s] # None
    BY <2>1, <2>3 DEF Inv, TypeOK
  <2>4. ASSUME overlaps' = 0, NEW s \in Request, req'[s] # None
        PROVE  Fitting(req[s])'
    <3>1. PICK d : d = req[s] /\ d = req'[s]
      BY <2>3, <2>4
    <3>2. Fitting(d)
      BY <2>1, <2>3, <2>4, <3>1 DEF SerialInv, Serial, Fitting
    <3> QED BY <2>1, <3>1, <3>2 DEF Fitting, PaymentsOf
  <2> QED BY <2>1, <2>2, <2>3, <2>4 DEF SerialInv, Serial
<1>5. CASE UNCHANGED vars
  <2>1. UNCHANGED <<row, payment, link, req, overlaps>>
    BY <1>5 DEF vars
  <2>2. InOrder => InOrder'
    BY <2>1 DEF InOrder, PaymentsOf, Dated
  <2>3. Serial'
    BY <2>1 DEF SerialInv, Serial, Fitting, PaymentsOf
  <2> QED BY <2>1, <2>2, <2>3 DEF SerialInv
<1> QED BY <1>2, <1>3, <1>4, <1>5, Steps

LEMMA AlwaysSerial == Spec => []SerialInv
BY InitInv, InitSerial, KeepsInv, KeepsSerial, PTL DEF Spec

\* Without overlap the dates of a document follow its status through every detour.
THEOREM DatesFollow == Spec => []DatesFollowStatus
<1>1. SerialInv => DatesFollowStatus
  BY DEF SerialInv, InOrder, Dated, DatesFollowStatus
<1> QED BY <1>1, AlwaysSerial, PTL

\* Without overlap a paid document has a payment.
THEOREM PaidIsPaid == Spec => []PaidHasPayment
<1>1. SerialInv => PaidHasPayment
  BY DEF SerialInv, InOrder, PaidHasPayment
<1> QED BY <1>1, AlwaysSerial, PTL

\* Without overlap a transaction pays for one document at most.
THEOREM PaysOnce == Spec => []TransactionPaysOnce
<1>1. SerialInv => TransactionPaysOnce
  BY DEF SerialInv, InOrder, TransactionPaysOnce
<1> QED BY <1>1, AlwaysSerial, PTL

\* What a commit without overlap writes, it writes as the handler has decided it over
\* the very state that it changes.
LEMMA CommitInTurn ==
  ASSUME Inv, SerialInv, overlaps' = 0, NEW r \in Request, Commit(r)
  PROVE  \E c, new : c = req[r] /\ Shaped(c) /\ Fitting(c) /\ Written(c, new)
<1>1. PICK c : c = req[r]
  OBVIOUS
<1>2. c # None /\ UNCHANGED overlaps
  BY <1>1 DEF Commit, Idle
<1>3. Shaped(c)
  BY <1>1, <1>2 DEF Inv, Shaped
<1>4. PICK new : Written(c, new)
  BY <1>1, <1>3, CommitWrites DEF Inv
<1>5. Fitting(c)
  BY <1>1, <1>2 DEF SerialInv, Serial, Fitting
<1> QED
  BY <1>1, <1>3, <1>4, <1>5

\* Only commits write documents, payments and pairs.
LEMMA OnlyCommitsWrite ==
  ASSUME [Next]_vars
  PROVE  UNCHANGED <<row, payment, link>> \/ \E r \in Request : Commit(r)
<1>1. ASSUME NEW r \in Request, NEW i \in Invoice, BeginExisting(r, i) \/ BeginNew(r, i)
      PROVE  UNCHANGED <<row, payment, link>>
  BY <1>1 DEF BeginExisting, BeginNew, Begin
<1>2. ASSUME NEW r \in Request, Abandon(r)
      PROVE  UNCHANGED <<row, payment, link>>
  BY <1>2 DEF Abandon
<1>3. CASE UNCHANGED vars
  BY <1>3 DEF vars
<1> QED
  BY <1>1, <1>2, <1>3 DEF Next

\* Without overlap a pair of a transaction and a document is never replaced by another
\* one in a single commit: PairingKept of the run double_pairing, which overlapping
\* handlers break, holds for handlers that come one after the other.
THEOREM PairingKeptInTurn == Spec => SerialPairingKept
<1>1. ASSUME Inv, SerialInv, [Next]_vars
      PROVE  [overlaps' = 0 =>
                \A t \in Tx : link[t] # None /\ link'[t] # None => link'[t] = link[t]]_vars
  <2> SUFFICES ASSUME overlaps' = 0, NEW t \in Tx, link[t] # None, link'[t] # None
               PROVE  link'[t] = link[t]
    OBVIOUS
  <2>1. CASE UNCHANGED <<row, payment, link>>
    BY <2>1
  <2>2. ASSUME NEW r \in Request, Commit(r) PROVE link'[t] = link[t]
    <3>1. PICK c, new : c = req[r] /\ Shaped(c) /\ Fitting(c) /\ Written(c, new)
      BY <1>1, <2>2, CommitInTurn
    <3>2. ~ \E a \in c.add : a.tx = t
      BY <3>1, PaymentsAssumption DEF Fitting
    <3>3. WrittenLink(c, new, t)
      BY <3>1 DEF Written
    <3> QED
      BY <3>2, <3>3 DEF WrittenLink
  <2> QED
    BY <1>1, <2>1, <2>2, OnlyCommitsWrite
<1> QED
  BY <1>1, InitInv, InitSerial, KeepsInv, KeepsSerial, PTL DEF Spec, SerialPairingKept

\* Without overlap a draft or a cancelled document becomes paid only by payments it has
\* had all along: of OnlyIssuedGetsPaid, which the run unpaid_states refutes already
\* with one handler, this much holds.
THEOREM UnissuedPaidByItsPayments == Spec => PaidByWhatItKept
<1>1. ASSUME Inv, SerialInv, SerialInv', [Next]_vars
      PROVE  [overlaps' = 0 =>
                \A i \in Invoice :
                  /\ row[i] # None /\ row[i].status \in {"draft", "cancelled"}
                  /\ row'[i] # None /\ row'[i].status = "paid"
                  => PaymentsOf(i)' # {} /\ PaymentsOf(i)' \subseteq PaymentsOf(i)]_vars
  <2> SUFFICES ASSUME overlaps' = 0, NEW i \in Invoice,
                      row[i] # None, row[i].status \in {"draft", "cancelled"},
                      row'[i] # None, row'[i].status = "paid"
               PROVE  PaymentsOf(i)' # {} /\ PaymentsOf(i)' \subseteq PaymentsOf(i)
    OBVIOUS
  <2>1. PICK r \in Request : Commit(r)
    BY <1>1, OnlyCommitsWrite
  <2>2. PICK c, new : c = req[r] /\ Shaped(c) /\ Fitting(c) /\ Written(c, new)
    BY <1>1, <2>1, CommitInTurn
  <2>3. i = c.invoice
    BY <2>2 DEF Written, Shaped, Change
  <2>4. c.add = {} /\ new = {}
    BY <2>2, <2>3 DEF Fitting, Payable, Written, OneNew
  <2>5. ASSUME NEW p \in Payment, payment'[p] # None, payment'[p].invoice = i
        PROVE  payment[p] # None /\ payment[p].invoice = i
    <3>1. WrittenPayment(c, new, p)
      BY <2>2 DEF Written
    <3> QED
      BY <2>4, <2>5, <3>1 DEF WrittenPayment
  <2>6. PaymentsOf(i)' \subseteq PaymentsOf(i)
    BY <2>5 DEF PaymentsOf
  <2>7. PaymentsOf(i)' # {}
    BY <1>1 DEF SerialInv, InOrder
  <2> QED
    BY <2>6, <2>7
<1> QED
  BY <1>1, InitInv, InitSerial, KeepsInv, KeepsSerial, PTL DEF Spec, PaidByWhatItKept
=============================================================================
