-------------------------- MODULE PeerDistribution --------------------------
(***************************************************************************)
(* PeerDistributionManager of the client library with its views, one       *)
(* PerISPPeerDistribution for each ISP.                                    *)
(*                                                                         *)
(* Threads of the application add, remove and select peers, each call in   *)
(* several steps between which it holds no exclusive lock.  Meanwhile the  *)
(* update thread loads new PID maps and rebuilds the view of an ISP from   *)
(* the list of all peers, holding a share of the lock of that list while   *)
(* it waits for the lock of the view.  What is done under the exclusive    *)
(* lock of a view is one step.  The ISPs are fixed: m_views is a           *)
(* constant.  The statistics of the swarm are left out.                    *)
(***************************************************************************)
EXTENDS Integers, FiniteSets, Sequences

CONSTANTS
    Peers, Threads,
    Calls,     \* the operations that each thread calls: "add", "remove", "select"
    m_views,   \* the ISPs, in the order of the map of views
    Maps,      \* the PID maps that the portal of each ISP may answer with
    NoMap,     \* the PID map before the first answer
    NULL

ISPs == {m_views[n] : n \in DOMAIN m_views}
UNKNOWN == -1  \* ERR_UNKNOWN_PID

\* A PID map: the number of PIDs, the number of those of the ISP itself, which come
\* first, and for each peer its PID and the length of the matching prefix.
PIDMap == [total : Nat, intra : Nat, pid : [Peers -> Int], length : [Peers -> Nat]]

ASSUME MapsAssumption ==
    /\ m_views \in Seq(ISPs)
    /\ NoMap \in PIDMap /\ NoMap.total = 0
    /\ \A i \in ISPs : Maps[i] \subseteq PIDMap
    /\ \A m \in (UNION {Maps[i] : i \in ISPs}) \cup {NoMap} :
         m.intra <= m.total /\ \A p \in Peers : m.pid[p] \in UNKNOWN..(m.total - 1)
    /\ NULL \notin Peers \cup ISPs

VARIABLES
    pidmap,      \* the current PID map of each ISP
    m_peers,     \* the master list of peers
    view,        \* the PerISPPeerDistribution of each ISP
    home,        \* the home ISP and PID that each peer has stored
    call,        \* what each thread of the application is doing
    rebuilding,  \* the ISP whose view is to be rebuilt, m_peers_mutex being shared
    rebuilt,     \* ISPs whose view was rebuilt after their PID map was loaded
    leaked       \* ISPs whose view a selection has left locked

vars == <<pidmap, m_peers, view, home, call, rebuilding, rebuilt, leaked>>

\* The sets of peers of a view, m_pid_peers, have the numbers of the PIDs; the last set is
\* for peers without a PID.  A view without peers has no sets.
NoView == [m_peer_to_pid |-> <<>>, m_pid_peers |-> <<>>]
NoHome == [isp |-> NULL, pid |-> UNKNOWN]
Idle == [op |-> "idle"]

Init ==
    /\ pidmap = [i \in ISPs |-> NoMap]
    /\ m_peers = {}
    /\ view = [i \in ISPs |-> NoView]
    /\ home = [p \in Peers |-> NoHome]
    /\ call = [t \in Threads |-> Idle]
    /\ rebuilding = NULL
    /\ rebuilt = {}
    /\ leaked = {}

\* A selection does not count: it leaves the peer alone.
Busy(p) == \E t \in Threads : call[t].op \in {"add", "remove"} /\ call[t].peer = p

\* The lock of the view is shared by somebody.
Shared(i) == i \in leaked \/ \E t \in Threads : call[t].op = "select" /\ call[t].locked /\ call[t].isp = i

-----------------------------------------------------------------------------
(* PerISPPeerDistribution *)

Size(v) == Cardinality(DOMAIN v.m_pid_peers)

\* The set of m_pid_peers for a PID.
Slot(v, pid) == IF pid >= 0 THEN pid ELSE Size(v) - 1

\* The view v with p under a PID, and without p.
With(v, p, pid) ==
    [m_peer_to_pid |-> [q \in DOMAIN v.m_peer_to_pid \cup {p} |->
                          IF q = p THEN pid ELSE v.m_peer_to_pid[q]],
     m_pid_peers |-> [n \in DOMAIN v.m_pid_peers |->
                          IF n = Slot(v, pid) THEN v.m_pid_peers[n] \cup {p} ELSE v.m_pid_peers[n]]]

Without(v, p, slot) ==
    LET rest == DOMAIN v.m_peer_to_pid \ {p}
    IN  IF rest = {} THEN NoView
        ELSE [m_peer_to_pid |-> [q \in rest |-> v.m_peer_to_pid[q]],
              m_pid_peers |-> [n \in DOMAIN v.m_pid_peers |->
                                 IF n = slot THEN v.m_pid_peers[n] \ {p} ELSE v.m_pid_peers[n]]]

\* The memory of a view that is allocated when it gets its first peer.
Allocated(i, v) ==
    IF DOMAIN v.m_peer_to_pid # {} THEN v
    ELSE [v EXCEPT !.m_pid_peers = [n \in 0..pidmap[i].total |-> {}]]

\* addPeerInternal() of the view of ISP i
addPeerInternal(i, v, p, pid) ==
    LET w == Allocated(i, v)
    IN  IF p \in DOMAIN v.m_peer_to_pid THEN w
        ELSE With(w, p, IF pid >= Size(w) - 1 THEN UNKNOWN ELSE pid)

\* Mutant: the PID is looked up again instead of being remembered.
removePeerCurrent(i, v, p) ==
    IF p \in DOMAIN v.m_peer_to_pid THEN Without(v, p, Slot(v, pidmap[i].pid[p])) ELSE v

\* removePeer() of the view of ISP i
removePeer(i, v, p) ==
    IF p \in DOMAIN v.m_peer_to_pid THEN Without(v, p, Slot(v, v.m_peer_to_pid[p])) ELSE v

\* The result of addPeersFromManager() for ISP i: every peer under its current PID.
Rebuilt(i) ==
    IF m_peers = {} THEN NoView
    ELSE [m_peer_to_pid |-> [p \in m_peers |-> pidmap[i].pid[p]],
          m_pid_peers |-> [n \in 0..pidmap[i].total |->
             {p \in m_peers : n = IF pidmap[i].pid[p] >= 0 THEN pidmap[i].pid[p] ELSE pidmap[i].total}]]

-----------------------------------------------------------------------------
(* addPeer() *)

\* The peer is listed, unless it already is.
addPeer(t, p) ==
    /\ "add" \in Calls[t] /\ call[t] = Idle /\ ~Busy(p)
    /\ p \notin m_peers /\ rebuilding = NULL
    /\ m_peers' = m_peers \cup {p}
    /\ call' = [call EXCEPT ![t] = [op |-> "add", peer |-> p, todo |-> m_views, at |-> "next",
                                    isp |-> NULL, pid |-> UNKNOWN, length |-> 0,
                                    home |-> NoHome, longest |-> 0]]
    /\ UNCHANGED <<pidmap, view, home, rebuilding, rebuilt, leaked>>

\* The peer is looked up in the PID map of the next ISP ...
addPeerLookup(t) ==
    LET c == call[t]
        i == Head(c.todo)
    IN  /\ c.op = "add" /\ c.at = "next" /\ c.todo # <<>>
        /\ call' = [call EXCEPT ![t] = [c EXCEPT !.todo = Tail(c.todo), !.at = "view", !.isp = i,
                                                !.pid = pidmap[i].pid[c.peer],
                                                !.length = pidmap[i].length[c.peer]]]
        /\ UNCHANGED <<pidmap, m_peers, view, home, rebuilding, rebuilt, leaked>>

\* The next ISP, the results for this one being dropped.
nextISP(c, h, l) == [c EXCEPT !.at = "next", !.isp = NULL, !.pid = UNKNOWN, !.length = 0,
                              !.home = h, !.longest = l]

\* ... added to the view of that ISP ...
addPeerToView(t) ==
    LET c == call[t]
    IN  /\ c.op = "add" /\ c.at = "view" /\ ~Shared(c.isp)
        /\ view' = [view EXCEPT ![c.isp] = addPeerInternal(c.isp, @, c.peer, c.pid)]
        /\ call' = [call EXCEPT ![t] = IF c.pid < 0 THEN nextISP(c, c.home, c.longest)
                                       ELSE [c EXCEPT !.at = "home"]]
        /\ UNCHANGED <<pidmap, m_peers, home, rebuilding, rebuilt, leaked>>

\* ... and the ISP is its home so far if the PID is one of the ISP's own by now and the
\* prefix is no shorter than that of the home before.
addPeerCandidate(t) ==
    LET c == call[t]
    IN  /\ c.op = "add" /\ c.at = "home"
        /\ call' = [call EXCEPT ![t] = IF c.pid < pidmap[c.isp].intra /\ c.length >= c.longest
                                       THEN nextISP(c, [isp |-> c.isp, pid |-> c.pid], c.length)
                                       ELSE nextISP(c, c.home, c.longest)]
        /\ UNCHANGED <<pidmap, m_peers, view, home, rebuilding, rebuilt, leaked>>

\* The home that was found is stored in the peer.
addPeerReturn(t) ==
    /\ call[t].op = "add" /\ call[t].at = "next" /\ call[t].todo = <<>>
    /\ home' = IF call[t].home # NoHome THEN [home EXCEPT ![call[t].peer] = call[t].home] ELSE home
    /\ call' = [call EXCEPT ![t] = Idle]
    /\ UNCHANGED <<pidmap, m_peers, view, rebuilding, rebuilt, leaked>>

-----------------------------------------------------------------------------
(* removePeer() *)

removePeerStart(t, p) ==
    /\ "remove" \in Calls[t] /\ call[t] = Idle /\ ~Busy(p)
    /\ call' = [call EXCEPT ![t] = [op |-> "remove", peer |-> p, todo |-> m_views]]
    /\ UNCHANGED <<pidmap, m_peers, view, home, rebuilding, rebuilt, leaked>>

removePeerFromView(t) ==
    /\ call[t].op = "remove" /\ call[t].todo # <<>> /\ ~Shared(Head(call[t].todo))
    /\ LET i == Head(call[t].todo)
       IN  view' = [view EXCEPT ![i] = removePeer(i, @, call[t].peer)]
    /\ call' = [call EXCEPT ![t].todo = Tail(@)]
    /\ UNCHANGED <<pidmap, m_peers, home, rebuilding, rebuilt, leaked>>

\* The peer is struck off the list last.  It keeps the home that it has stored.
removePeerReturn(t) ==
    /\ call[t].op = "remove" /\ call[t].todo = <<>> /\ rebuilding = NULL
    /\ m_peers' = m_peers \ {call[t].peer}
    /\ call' = [call EXCEPT ![t] = Idle]
    /\ UNCHANGED <<pidmap, view, home, rebuilding, rebuilt, leaked>>

-----------------------------------------------------------------------------
(* selectPeers() with location-only guidance; the choice of peers is that of PeerSelection *)

selectPeers(t, p) ==
    /\ "select" \in Calls[t] /\ call[t] = Idle
    /\ home[p].isp # NULL /\ home[p].pid \in 0..(pidmap[home[p].isp].total - 1)
    /\ call' = [call EXCEPT ![t] = [op |-> "select", isp |-> home[p].isp, pid |-> home[p].pid,
                                    locked |-> FALSE]]
    /\ UNCHANGED <<pidmap, m_peers, view, home, rebuilding, rebuilt, leaked>>

\* selectPeersLocationOnly()
selectPeersLock(t) ==
    /\ call[t].op = "select" /\ ~call[t].locked
    /\ call' = [call EXCEPT ![t].locked = TRUE]
    /\ UNCHANGED <<pidmap, m_peers, view, home, rebuilding, rebuilt, leaked>>

\* A peer outside the ISP gets an error, but the lock is kept.
selectPeersReturn(t) ==
    /\ call[t].op = "select" /\ call[t].locked
    /\ leaked' = IF call[t].pid >= pidmap[call[t].isp].intra THEN leaked \cup {call[t].isp} ELSE leaked
    /\ call' = [call EXCEPT ![t] = Idle]
    /\ UNCHANGED <<pidmap, m_peers, view, home, rebuilding, rebuilt>>

-----------------------------------------------------------------------------
(* The update thread *)

\* ISPPIDMap::loadP4PInfo()
loadP4PInfo(i) ==
    /\ rebuilding = NULL
    /\ \E m \in Maps[i] : pidmap' = [pidmap EXCEPT ![i] = m]
    /\ rebuilt' = rebuilt \ {i}
    /\ UNCHANGED <<m_peers, view, home, call, rebuilding, leaked>>

updatePeerDistribution(i) ==
    /\ rebuilding = NULL
    /\ rebuilding' = i
    /\ UNCHANGED <<pidmap, m_peers, view, home, call, rebuilt, leaked>>

\* Mutant: the view keeps the peers it has where they are.
addPeersFromManagerKept ==
    LET i == rebuilding
        kept == DOMAIN view[i].m_peer_to_pid
    IN  /\ i # NULL /\ ~Shared(i)
        /\ view' = [view EXCEPT ![i] = IF kept = {} THEN Rebuilt(i) ELSE view[i]]
        /\ rebuilt' = rebuilt \cup {i}
        /\ rebuilding' = NULL
        /\ UNCHANGED <<pidmap, m_peers, home, call, leaked>>

\* Mutant: the list of peers stays locked.
addPeersFromManagerLocked ==
    LET i == rebuilding
    IN  /\ i # NULL /\ ~Shared(i)
        /\ view' = [view EXCEPT ![i] = Rebuilt(i)]
        /\ rebuilt' = rebuilt \cup {i}
        /\ UNCHANGED <<pidmap, m_peers, home, call, rebuilding, leaked>>

addPeersFromManager ==
    LET i == rebuilding
    IN  /\ i # NULL /\ ~Shared(i)
        /\ view' = [view EXCEPT ![i] = Rebuilt(i)]
        /\ home' = [p \in Peers |-> IF p \in m_peers /\ home[p].isp = i
                                    THEN [isp |-> i, pid |-> pidmap[i].pid[p]] ELSE home[p]]
        /\ rebuilt' = rebuilt \cup {i}
        /\ rebuilding' = NULL
        /\ UNCHANGED <<pidmap, m_peers, call, leaked>>

Call(t) ==
    \/ addPeerLookup(t) \/ addPeerToView(t) \/ addPeerCandidate(t) \/ addPeerReturn(t)
    \/ removePeerFromView(t) \/ removePeerReturn(t)
    \/ selectPeersLock(t) \/ selectPeersReturn(t)

Next ==
    \/ \E t \in Threads : Call(t)
    \/ \E t \in Threads, p \in Peers : addPeer(t, p) \/ removePeerStart(t, p) \/ selectPeers(t, p)
    \/ \E i \in ISPs : loadP4PInfo(i) \/ updatePeerDistribution(i)
    \/ addPeersFromManager

Spec == Init /\ [][Next]_vars

\* Threads go on, and a lock that is free again and again is granted in the end.
FairSpec == Spec /\ SF_vars(addPeersFromManager) /\ \A t \in Threads : SF_vars(Call(t))

-----------------------------------------------------------------------------

\* Every variable has its type; in particular every PID of a view has a set in it.
TypeOK ==
    /\ \A i \in ISPs : pidmap[i] \in Maps[i] \cup {NoMap}
    /\ m_peers \subseteq Peers
    /\ \A i \in ISPs :
         /\ DOMAIN view[i].m_peer_to_pid \subseteq Peers
         /\ DOMAIN view[i].m_pid_peers = 0..(Size(view[i]) - 1)
         /\ \A p \in DOMAIN view[i].m_peer_to_pid :
              view[i].m_peer_to_pid[p] \in UNKNOWN..(Size(view[i]) - 2)
    /\ \A p \in Peers : home[p].isp \in ISPs \cup {NULL}
    /\ \A t \in Threads : call[t].op \in {"idle", "add", "remove", "select"}
    /\ rebuilding \in ISPs \cup {NULL}
    /\ rebuilt \subseteq ISPs /\ leaked \subseteq ISPs

\* The two indexes of a view agree whatever PID maps come and go: each peer of the
\* view is in the set of its PID, in no other, and no set holds another peer.  Every variable
\* has its type.
IndexesAgree ==
    /\ TypeOK
    /\ \A i \in ISPs : \A n \in DOMAIN view[i].m_pid_peers :
         view[i].m_pid_peers[n] =
             {p \in DOMAIN view[i].m_peer_to_pid : n = Slot(view[i], view[i].m_peer_to_pid[p])}

\* A peer that has been added is in the view of every ISP, although views are rebuilt
\* while it is being added.  Once a view has been rebuilt for a new PID map no peer is
\* left under its old PID, not even one that was looked up before and added afterwards.
AddedEverywhere ==
    \A p \in m_peers : ~Busy(p) =>
        \A i \in ISPs :
            /\ p \in DOMAIN view[i].m_peer_to_pid
            /\ i \in rebuilt => view[i].m_peer_to_pid[p] = pidmap[i].pid[p]

\* Every call of the application returns, whatever the update thread does, unless some
\* selection has left a view locked.
CallsReturn == \A t \in Threads : call[t] # Idle ~> call[t] = Idle \/ leaked # {}

\* The header says of removePeer(): "Remove peer from the "my-Internet" view of each ISP", and
\* that all operations "are thread-safe".  A removed peer should be in no view.
RemovedEverywhere ==
    \A p \in Peers \ m_peers : \A i \in ISPs : p \notin DOMAIN view[i].m_peer_to_pid
=============================================================================
