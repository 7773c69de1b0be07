----------------------------- MODULE MCAdminTxn -----------------------------
(* Small instances of AdminTxn. *)
EXTENDS AdminTxn
=============================================================================
