------------------------- MODULE MCDocumentEditing -------------------------
(* DocumentEditing on its own, with amounts of two sizes. *)
EXTENDS DocumentEditing

=============================================================================
