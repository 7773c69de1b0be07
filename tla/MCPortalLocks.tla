--------------------------- MODULE MCPortalLocks ----------------------------
(* Small instances of PortalLocks. *)
EXTENDS PortalLocks
=============================================================================
