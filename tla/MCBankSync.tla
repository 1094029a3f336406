----------------------------- MODULE MCBankSync -----------------------------
(* Small instances of BankSync. *)
EXTENDS BankSync, TLC

Symmetry == Permutations(Run) \cup Permutations(Token)

=============================================================================
