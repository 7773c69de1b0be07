-------------------------- MODULE MCPeerSelection --------------------------
(* Small instances of PeerSelection. *)
EXTENDS PeerSelection, TLC

\* Views of three PIDs and of one, each with a set of peers without a PID.  Four peers are
\* more than the helper copies.
MCViews ==
    {0 :> a @@ 1 :> b @@ 2 :> c @@ 3 :> 1 : a \in {0, 1, 4}, b \in {1, 2}, c \in {0, 1}}
      \cup {0 :> a @@ 1 :> 1 : a \in 0..2}
=============================================================================
