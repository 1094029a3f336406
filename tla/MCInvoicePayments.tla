------------------------- MODULE MCInvoicePayments -------------------------
(* Small instances of InvoicePayments. *)
EXTENDS InvoicePayments, TLC

\* Every document has the amount of every transaction and is named by it.
FitsAll == [t \in Tx |-> Invoice]

Symmetry == Permutations(Invoice) \cup Permutations(Payment)
              \cup Permutations(Tx) \cup Permutations(Request)

\* Behaviours are followed until the first overlap of handlers is over.
UntilOverlapEnds == overlaps > 0 => InFlight # {}

=============================================================================
