------------------------- MODULE MCPeerDistribution -------------------------
(* Small instances of PeerDistribution. *)
EXTENDS PeerDistribution, TLC

CONSTANTS p1, p2, i1, i2, t1, t2

Both(x, y) == [p \in Peers |-> IF p = p1 THEN x ELSE y]

MCCalls == (t1 :> {"add", "remove"}) @@ (t2 :> {"add", "select"})

MCViews == <<i1, i2>>

MCNoMap == [total |-> 0, intra |-> 0, pid |-> Both(-1, -1), length |-> Both(0, 0)]

\* The first ISP has two PIDs, one of them its own, then one that is not.  The portal of
\* the second ISP does not answer.
MCMaps ==
    (i1 :> {[total |-> 2, intra |-> 1, pid |-> Both(0, 1), length |-> Both(1, 1)],
            [total |-> 1, intra |-> 0, pid |-> Both(0, -1), length |-> Both(1, 0)]}) @@
    (i2 :> {})
=============================================================================
