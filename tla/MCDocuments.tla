---------------------------- MODULE MCDocuments ----------------------------
(* The modules about documents, and the notifications of banks that pay them, in
   one run.  They share no variable, so their product would only multiply states:
   in each behaviour one of them, its part, moves and the others stay where they
   start. *)
EXTENDS InvoicePayments, DocumentEditing, DocumentDelivery, DocumentImport,
        BankMailbox, TLC

VARIABLE part

\* Every document has the amount of every transaction and is named by it.
FitsAll == [t \in Tx |-> Invoice]

\* A native export that lists a note before its source, and one with a payment.
Papers ==
  [f \in PaperFile |-> IF f = "f1" THEN <<"n1", "x1">> ELSE <<"n1", "n2", "x1">>]

Data ==
  [x \in Ext |->
     [number |-> CASE x = "n1" -> 3 [] x = "n2" -> 2 [] OTHER -> 1,
      kind |-> IF x = "x1" THEN "invoice" ELSE "credit_note",
      source |-> IF x = "x1" THEN None ELSE "x1",
      cents |-> 1,
      pays |-> IF x = "x1" THEN {"p1"} ELSE {}]]

Symmetry == Permutations(Invoice) \cup Permutations(Payment)
              \cup Permutations(Tx) \cup Permutations(Request)

\* Payments are followed until the first overlap of handlers is over.
UntilOverlapEnds == overlaps > 0 => InFlight # {}

\* Nothing is promised of a mailbox that lost a mail, so it is not followed further.
UntilExpunged == ~holes

MCInit ==
  /\ part \in {"payments", "editing", "delivery", "import", "mailbox"}
  /\ Init
  /\ EditingInit /\ Len(documents) \in (IF part = "editing" THEN {1, 3} ELSE {1})
  /\ \A d \in Existing : IsNote(documents[d]) => documents[d].total < 0
  /\ DocumentDeliveryInit /\ (part # "delivery" => doc.status = "draft")
  /\ DocumentImportInit /\ MailboxInit
  /\ (part # "import" => paperFormat = CHOOSE f \in PaperFormat : TRUE)

MCNext ==
  /\ UNCHANGED part
  /\ \/ /\ part = "payments" /\ Next
        /\ UNCHANGED <<editingVars, deliveryVars, paperVars, mailboxVars>>
     \/ /\ part = "editing" /\ EditingNext
        /\ UNCHANGED <<vars, deliveryVars, paperVars, mailboxVars>>
     \/ /\ part = "delivery" /\ DocumentDeliveryNext
        /\ UNCHANGED <<vars, editingVars, paperVars, mailboxVars>>
     \/ /\ part = "import" /\ DocumentImportNext
        /\ UNCHANGED <<vars, editingVars, deliveryVars, mailboxVars>>
     \/ /\ part = "mailbox" /\ MailboxNext
        /\ UNCHANGED <<vars, editingVars, deliveryVars, paperVars>>

MCSpec == MCInit /\ [][MCNext]_<<part, vars, editingVars, deliveryVars, paperVars, mailboxVars>>

=============================================================================
