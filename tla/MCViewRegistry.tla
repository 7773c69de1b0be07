--------------------------- MODULE MCViewRegistry ---------------------------
(* Small instances of ViewRegistry. *)
EXTENDS ViewRegistry
=============================================================================
