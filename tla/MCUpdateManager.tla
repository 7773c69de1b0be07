-------------------------- MODULE MCUpdateManager ---------------------------
(* Small instances of UpdateManager. *)
EXTENDS UpdateManager

MCRetry == [t \in {"PIDMAP", "PDISTANCE"} |-> IF t = "PIDMAP" THEN 2 ELSE 1]
=============================================================================
