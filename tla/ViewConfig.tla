----------------------------- MODULE ViewConfig -----------------------------
(***************************************************************************)
(* The administrative actions on the network and on a view: what commit()  *)
(* of each does to the state of a copy-on-write transaction.               *)
(*                                                                         *)
(* The state is a record t: ok, whether the actions so far succeeded; c,   *)
(* the configuration as this transaction sees it; copied, whether the      *)
(* transaction has its own copy of the PID aggregation.  An action that    *)
(* returns false or throws an admin_error ends the transaction, so only    *)
(* ok matters of the result.                                               *)
(*                                                                         *)
(* A request is a record with the action (op) and its arguments: a node, a *)
(* PID (pid, by name; obj), a link by name, its ends (src, dst), a value.   *)
(***************************************************************************)
EXTENDS PDistance

NoEntries == <<>>

\* The state of a portal that was just started, View's defaults included.  Infinite stands
\* for the pDistance of PIDs without a route.
CONSTANT Infinite

EmptyConfig ==
    [nodes |-> NoEntries, edges |-> {}, pids |-> NoEntries, links |-> NoEntries, prefixes |-> NoEntries,
     weights |-> [pids |-> {}, entries |-> NoEntries], pdistances |-> [pids |-> {}, entries |-> NoEntries],
     props |-> [interpid |-> Infinite, intrapid |-> 0, pidlink |-> 1, interdomain |-> 60,
                includes_intradomain |-> 1, update_interval |-> 300],
     result |-> [intra |-> NoEntries, inter |-> NoEntries, of |-> NoEntries]]

\* A configuration without what is computed from it.
Settings(c) == [c EXCEPT !.result = EmptyConfig.result]

Fails(t) == [t EXCEPT !.ok = FALSE]
Without(f, S) == [x \in DOMAIN f \ S |-> f[x]]
PIDOf(t, name) == t.c.pids[name].pid

-----------------------------------------------------------------------------
(* Copy on write: the copy of a PIDAggregation has its PID records and not *)
(* its links.                                                              *)

write_aggregation(t) == IF t.copied THEN t ELSE [t EXCEPT !.copied = TRUE, !.c.links = NoEntries]

-----------------------------------------------------------------------------
(* Matrices of PIDs.                                                       *)

matrix_add_pid(m, pid) == [m EXCEPT !.pids = @ \cup {pid}]
matrix_remove_pid(m, pid) ==
    [pids |-> m.pids \ {pid},
     entries |-> Without(m.entries, {e \in DOMAIN m.entries : pid \in {e[1], e[2]}})]

matrix_set(m, link, val) == [m EXCEPT !.entries = (link :> val) @@ @]

-----------------------------------------------------------------------------
(* The network.                                                            *)

AdminNetNodeAdd(t, r) ==
    IF r.node \in DOMAIN t.c.nodes THEN Fails(t)
    ELSE [t EXCEPT !.c.nodes = (r.node :> r.external) @@ @]

AdminNetNodeDelete(t, r) ==
    IF r.node \notin DOMAIN t.c.nodes THEN Fails(t)
    ELSE [t EXCEPT !.c.nodes = Without(@, {r.node}),
                   !.c.edges = {e \in @ : r.node \notin {e[1], e[2]}}]

AdminNetLinkAdd(t, r) ==
    IF ~ {r.src, r.dst} \subseteq DOMAIN t.c.nodes \/ <<r.src, r.dst>> \in t.c.edges THEN Fails(t)
    ELSE [t EXCEPT !.c.edges = @ \cup {<<r.src, r.dst>>}]

-----------------------------------------------------------------------------
(* PIDs of the view and their nodes; lookup_pid() throws for an unknown    *)
(* name.                                                                   *)

AdminViewAddPID(t, r) ==
    IF r.pid \in DOMAIN t.c.pids \/ \E n \in DOMAIN t.c.pids : PIDOf(t, n) = r.obj THEN Fails(t)
    ELSE [write_aggregation(t) EXCEPT !.c.pids = (r.pid :> [pid |-> r.obj, vertices |-> {}]) @@ @,
                                      !.c.weights = matrix_add_pid(@, r.obj),
                                      !.c.pdistances = matrix_add_pid(@, r.obj)]

\* The links of the PID go with it, its prefixes do not.
AdminViewDeletePID(t, r) ==
    IF r.pid \notin DOMAIN t.c.pids THEN Fails(t)
    ELSE LET pid == PIDOf(t, r.pid)
             w == write_aggregation(t)
         IN  [w EXCEPT !.c.pids = Without(@, {r.pid}),
                       !.c.links = Without(@, {l \in DOMAIN @ : pid \in {@[l][1], @[l][2]}}),
                       !.c.weights = matrix_remove_pid(@, pid),
                       !.c.pdistances = matrix_remove_pid(@, pid)]

AdminViewAddPIDNodes(t, r) ==
    IF r.pid \notin DOMAIN t.c.pids THEN Fails(t)
    ELSE [write_aggregation(t) EXCEPT !.c.pids[r.pid].vertices = @ \cup {r.node}]

AdminViewDeletePIDNodes(t, r) ==
    IF r.pid \notin DOMAIN t.c.pids THEN Fails(t)
    ELSE [write_aggregation(t) EXCEPT !.c.pids[r.pid].vertices = @ \ {r.node}]

-----------------------------------------------------------------------------
(* Prefixes.                                                               *)

\* PIDMap::add() leaves a prefix of another PID alone; its result is ignored.
AdminViewAddPIDPrefixes(t, r) ==
    IF r.pid \notin DOMAIN t.c.pids THEN Fails(t)
    ELSE [t EXCEPT !.c.prefixes = @ @@ (r.prefix :> PIDOf(t, r.pid))]

\* PIDMap::remove(pid) is false if the PID has no prefixes.
AdminViewClearPIDPrefixes(t, r) ==
    LET Of(pid) == {p \in DOMAIN t.c.prefixes : t.c.prefixes[p] = pid}
    IN  IF r.pid \notin DOMAIN t.c.pids \/ Of(PIDOf(t, r.pid)) = {} THEN Fails(t)
        ELSE [t EXCEPT !.c.prefixes = Without(@, Of(PIDOf(t, r.pid)))]

-----------------------------------------------------------------------------
(* Links of the view.  The cost and the weight of a link are kept by the   *)
(* PIDs it joins.                                                          *)

\* lookup_pid() comes after the aggregation was copied.
AdminViewAddPIDLink(t, r) ==
    LET w == write_aggregation(t)
    IN  IF ~ {r.src, r.dst} \subseteq DOMAIN t.c.pids \/ r.link \in DOMAIN w.c.links THEN Fails(t)
        ELSE [w EXCEPT !.c.links = (r.link :> <<PIDOf(t, r.src), PIDOf(t, r.dst)>>) @@ @]

\* SparsePIDMatrix::set_by_pid() is false for an unknown PID.
SetByPID(t, m, link) == link \in DOMAIN t.c.links /\ {t.c.links[link][1], t.c.links[link][2]} \subseteq m.pids

AdminViewSetLinkCost(t, r) ==
    IF ~ SetByPID(t, t.c.pdistances, r.link) THEN Fails(t)
    ELSE [t EXCEPT !.c.pdistances = matrix_set(@, t.c.links[r.link], r.val)]

AdminViewSetLinkWeight(t, r) ==
    IF ~ SetByPID(t, t.c.weights, r.link) THEN Fails(t)
    ELSE [t EXCEPT !.c.weights = matrix_set(@, t.c.links[r.link], r.val)]

\* The value was printed by the shell and is a number.
AdminViewPropSet(t, r) == [t EXCEPT !.c.props[r.prop] = r.val]

-----------------------------------------------------------------------------
(* What an action may leave.  Only an update has a choice, and only an     *)
(* update can end the process: commit() may throw nothing but admin_error, *)
(* and PinnedPID throws another exception.                                 *)

\* The results of an update of c, with what they are computed from (history).
Results(c) == {[intra |-> m.intra, inter |-> m.inter, of |-> Settings(c)] : m \in compute_result(c)}

\* The update returns false, after it has stored the matrices, if updates are switched off.
AdminViewPDistanceUpdate(t) ==
    IF t.c.props.update_interval = 0 THEN {Fails(t)}
    ELSE {[t EXCEPT !.c.result = result] : result \in Results(t.c)}

Terminates(t, r) == r.op = "PDistanceUpdate" /\ Throws(t.c)

Apply(t, r) ==
    CASE r.op = "NetNodeAdd"       -> {AdminNetNodeAdd(t, r)}
      [] r.op = "NetNodeDelete"    -> {AdminNetNodeDelete(t, r)}
      [] r.op = "NetLinkAdd"       -> {AdminNetLinkAdd(t, r)}
      [] r.op = "AddPID"           -> {AdminViewAddPID(t, r)}
      [] r.op = "DeletePID"        -> {AdminViewDeletePID(t, r)}
      [] r.op = "AddPIDNodes"      -> {AdminViewAddPIDNodes(t, r)}
      [] r.op = "DeletePIDNodes"   -> {AdminViewDeletePIDNodes(t, r)}
      [] r.op = "AddPIDPrefixes"   -> {AdminViewAddPIDPrefixes(t, r)}
      [] r.op = "ClearPIDPrefixes" -> {AdminViewClearPIDPrefixes(t, r)}
      [] r.op = "AddPIDLink"       -> {AdminViewAddPIDLink(t, r)}
      [] r.op = "SetLinkCost"      -> {AdminViewSetLinkCost(t, r)}
      [] r.op = "SetLinkWeight"    -> {AdminViewSetLinkWeight(t, r)}
      [] r.op = "PropSet"          -> {AdminViewPropSet(t, r)}
      [] r.op = "PDistanceUpdate"  -> AdminViewPDistanceUpdate(t)
=============================================================================
