----------------------------- MODULE PDistance -----------------------------
(***************************************************************************)
(* The computation of the pDistances of a view, ViewUpdateBase::           *)
(* compute_result(), from a configuration c: the network (nodes, edges),   *)
(* the view's PIDs with their nodes (pids), the static pDistances of PID   *)
(* links (pdistances), the routing weights (weights) and the view's        *)
(* defaults (props).                                                       *)
(*                                                                         *)
(* A PID is a pair <<number, external>>: two PIDs that differ in the flag  *)
(* only are different keys of every map.  A matrix is a function on pairs  *)
(* of PIDs; a NaN entry is a pair outside its domain, and a sum with a NaN *)
(* is a NaN.  Views have no optimization plugin and no static routes: no   *)
(* administrative action sets either.  No node belongs to two PIDs.        *)
(***************************************************************************)
EXTENDS Integers, FiniteSets, Sequences, SequencesExt, TLC

External(pid) == pid[2]

-----------------------------------------------------------------------------
(* find_pids(): the nodes that exist of each PID, and the PID with the     *)
(* flag that these nodes give it.                                          *)

Pin(c, name) ==
    LET vs == c.pids[name].vertices \cap DOMAIN c.nodes
    IN  [pid |-> <<c.pids[name].pid[1], \E v \in vs : c.nodes[v]>>, vertices |-> vs]

\* PinnedPID's constructor throws for an empty set of vertices.
Throws(c) == \E name \in DOMAIN c.pids : Pin(c, name).vertices = {}

\* pids.insert() keeps the first of two equal PIDs, in the order of their names.
find_pids(c) ==
    LET Insert(pins, name) == IF \E p \in pins : p.pid = Pin(c, name).pid THEN pins
                              ELSE pins \cup {Pin(c, name)}
    IN  FoldLeft(Insert, {}, SetToSeq(DOMAIN c.pids))

-----------------------------------------------------------------------------
(* aggregate_topology() and handle_extra_nodes(): one vertex for each PID. *)

\* A PID of one node is that node; otherwise NetState::aggregate_node() makes a vertex.
Vertex(p) == IF Cardinality(p.vertices) = 1 THEN CHOOSE v \in p.vertices : TRUE ELSE p.pid

\* Mutant: the edges out of the PID are forgotten with its nodes.
AggregateIncoming(g, p) ==
    LET Moved(v) == IF v \in p.vertices THEN Vertex(p) ELSE v
    IN  [node |-> {Moved(v) : v \in g.node},
         edge |-> {<<e[1], Moved(e[2])>> : e \in {e \in g.edge : e[1] \notin p.vertices \/ Cardinality(p.vertices) = 1}}]

\* The edges within the PID are left out, those that cross its border are merged.
aggregate_node(g, p) ==
    LET Moved(v) == IF v \in p.vertices THEN Vertex(p) ELSE v
    IN  [node |-> {Moved(v) : v \in g.node},
         edge |-> {<<Moved(e[1]), Moved(e[2])>> : e \in {e \in g.edge : ~ {e[1], e[2]} \subseteq p.vertices}}]

\* ENA_REMOVE, the only action that can be configured.
handle_extra_nodes(g, pins) ==
    LET kept == {Vertex(p) : p \in pins}
    IN  [node |-> kept, edge |-> {e \in g.edge : e[1] \in kept /\ e[2] \in kept}]

Topology(c) ==
    LET pins == find_pids(c)
    IN  handle_extra_nodes(FoldLeft(aggregate_node, [node |-> DOMAIN c.nodes, edge |-> c.edges],
                                    SetToSeq(pins)), pins)

-----------------------------------------------------------------------------
(* PIDRouting::get_routes_weights(): shortest paths by routing weight.     *)

DefaultWeight == 1

get_weight(c, p, q) == IF <<p, q>> \in DOMAIN c.weights.entries THEN c.weights.entries[<<p, q>>]
                       ELSE DefaultWeight

\* The sum of f over the hops of a route.
AlongRoute(route, f(_, _)) ==
    FoldLeft(LAMBDA sum, i : sum + f(route[i], route[i + 1]), 0, [i \in 1..(Len(route) - 1) |-> i])

\* The routes of at least one hop without a loop; pid gives the PID of a vertex.
Routes(g, pid) ==
    LET Extend(paths) == paths \cup {Append(r, e[2]) : <<r, e>> \in {re \in paths \X g.edge :
                             re[2][1] = Last(re[1]) /\ re[2][2] \notin ToSet(re[1])}}
        paths == FoldLeft(LAMBDA ps, hop : Extend(ps), {<<v>> : v \in g.node},
                          [hop \in 1..Cardinality(g.node) |-> hop])
    IN  {[i \in DOMAIN r |-> pid[r[i]]] : r \in {r \in paths : Len(r) > 1}}

\* Of several shortest paths Dijkstra's algorithm takes some; the paths of one source are
\* a tree.  A pair without a route is outside the domain.
get_routes(c, pins) ==
    LET g == Topology(c)
        pid == [v \in g.node |-> (CHOOSE p \in pins : Vertex(p) = v).pid]
        all == Routes(g, pid)
        Weight(r) == AlongRoute(r, LAMBDA p, q : get_weight(c, p, q))
        Shortest(pair) == {r \in all : /\ Head(r) = pair[1] /\ Last(r) = pair[2]
                                       /\ \A o \in all : Head(o) = Head(r) /\ Last(o) = Last(r)
                                                           => Weight(r) <= Weight(o)}
        pairs == {<<Head(r), Last(r)>> : r \in all}
        Choose(fs, pair) == {(pair :> r) @@ f : f \in fs, r \in Shortest(pair)}
    IN  {f \in FoldLeft(Choose, {<<>>}, SetToSeq(pairs)) :
            \A pair \in pairs : Len(f[pair]) > 2 =>
                f[<<pair[1], Last(Front(f[pair]))>>] = Front(f[pair])}

-----------------------------------------------------------------------------
(* compute_pdistances().                                                   *)

Static(c, p, q, default) == IF <<p, q>> \in DOMAIN c.pdistances.entries
                            THEN c.pdistances.entries[<<p, q>>] ELSE default

\* Intradomain pDistances: the sum of the links' along the route.
Intradomain(c, internal, routes) ==
    [pair \in internal \X internal |->
        IF pair[1] = pair[2] THEN c.props.intrapid
        ELSE IF pair \in DOMAIN routes
        THEN AlongRoute(routes[pair], LAMBDA p, q : Static(c, p, q, c.props.pidlink))
        ELSE c.props.interpid]

\* find_interdomain_links(): their entries come first.
InterdomainLinks(c, pins) ==
    LET g == Topology(c)
        links == {<<p.pid, q.pid>> : <<p, q>> \in {pq \in pins \X pins :
                    /\ <<Vertex(pq[1]), Vertex(pq[2])>> \in g.edge
                    /\ External(pq[1].pid) # External(pq[2].pid)}}
    IN  [l \in links |-> Static(c, l[1], l[2], c.props.interdomain)]

\* A pair without a link of its own: the link of the egress PID, the last internal PID on
\* the way out or the first one on the way in, and the intradomain part if it is included.
\* The result is a set, empty for a NaN: the neighbour of the external PID on the route is
\* external as well, and has no entry.
Interdomain(c, links, intra, routes, pair) ==
    LET route == routes[pair]
        link == IF External(pair[2]) THEN <<Last(Front(route)), pair[2]>> ELSE <<pair[1], route[2]>>
        inside == IF External(pair[2]) THEN <<pair[1], link[1]>> ELSE <<link[2], pair[2]>>
    IN  IF pair \in DOMAIN links THEN {links[pair]}
        ELSE IF pair \notin DOMAIN routes THEN {c.props.interdomain}
        ELSE IF link \notin DOMAIN links THEN {}
        ELSE {links[link] + IF c.props.includes_intradomain = 1 THEN intra[inside] ELSE 0}

compute_pdistances(c, pins, routes) ==
    LET Side(ext) == {p.pid : p \in {p \in pins : External(p.pid) = ext}}
        intra == Intradomain(c, Side(FALSE), routes)
        links == InterdomainLinks(c, pins)
        pairs == (Side(FALSE) \X Side(TRUE)) \cup (Side(TRUE) \X Side(FALSE))
        priced == {pair \in pairs : Interdomain(c, links, intra, routes, pair) # {}}
    IN  [intra |-> intra,
         inter |-> [pair \in priced |-> CHOOSE v \in Interdomain(c, links, intra, routes, pair) : TRUE]]

\* The matrices that an update of c may give.
compute_result(c) == {compute_pdistances(c, find_pids(c), routes) : routes \in get_routes(c, find_pids(c))}
=============================================================================
