--------------------------- MODULE NumberRegistry ---------------------------
(***************************************************************************)
(* What the numbering of a subject's documents promises, with no mention   *)
(* of series rows, sessions or locks: a register of pairs                  *)
(* <<invoice, number>>.  A number is handed to an invoice only while no    *)
(* other invoice holds it, so a number moves from one invoice to another   *)
(* only through a state in which nobody holds it.                          *)
(***************************************************************************)

CONSTANTS
  Invoice,    \* documents of one subject
  Number      \* final document numbers, e.g. 2026-0007

VARIABLE assigned   \* set of pairs <<invoice, number>>

TypeOK == assigned \subseteq Invoice \X Number

Init == assigned = {}

Others(i) == {p \in assigned : p[1] # i}

Assign(i, n) ==
  /\ \A p \in Others(i) : p[2] # n
  /\ assigned' = Others(i) \cup {<<i, n>>}

Release(i) == assigned' = Others(i)

Next ==
  \E i \in Invoice :
    \/ \E n \in Number : Assign(i, n)
    \/ Release(i)

Spec == Init /\ [][Next]_assigned

=============================================================================
