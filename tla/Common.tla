------------------------------- MODULE Common -------------------------------
(* What the modules of this project share. *)

CONSTANT None     \* SQL NULL, Python None: no value

=============================================================================
