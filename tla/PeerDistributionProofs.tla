----------------------- MODULE PeerDistributionProofs -----------------------
(***************************************************************************)
(* For any number of peers, threads and ISPs and any PID maps, the two     *)
(* indexes of every view agree, and a peer that has been added is in the   *)
(* view of every ISP, under its current PID once the view was rebuilt.     *)
(*                                                                         *)
(* For any view and any request, a selection from the view takes all there *)
(* is before it comes back with too few peers, and location-only guidance  *)
(* keeps its shares.                                                       *)
(***************************************************************************)
EXTENDS PeerDistribution, PeerSelection, FiniteSetTheorems, TLAPS

\* The provers' time limits, where a step names no prover.
USE ZenonT(20), SMTT(20)

\* A view: its two indexes agree and every PID in it has a set.
ViewOK(v) ==
    /\ v = [x \in {"m_peer_to_pid", "m_pid_peers"} |-> v[x]]
    /\ DOMAIN v.m_peer_to_pid \subseteq Peers
    /\ Size(v) \in Nat
    /\ DOMAIN v.m_pid_peers = 0..(Size(v) - 1)
    /\ \A p \in DOMAIN v.m_peer_to_pid : v.m_peer_to_pid[p] \in UNKNOWN..(Size(v) - 2)
    /\ \A n \in DOMAIN v.m_pid_peers :
         v.m_pid_peers[n] = {p \in DOMAIN v.m_peer_to_pid : n = Slot(v, v.m_peer_to_pid[p])}

\* Every peer of the view v is in it under its PID in the PID map m.
Current(v, m) ==
    \A p \in DOMAIN v.m_peer_to_pid :
        /\ v.m_peer_to_pid[p] = m.pid[p]
        /\ Size(v) = m.total + 1

\* A PID map whose PIDs are in range.
MapOK(m) ==
    /\ m.total \in Nat
    /\ \A p \in Peers : m.pid[p] \in UNKNOWN..(m.total - 1)

AddFields == {"op", "peer", "todo", "at", "isp", "pid", "length", "home", "longest"}

IsAdd(c) ==
    /\ c.op = "add" /\ c = [x \in AddFields |-> c[x]]
    /\ c.peer \in Peers /\ c.todo \in Seq(ISPs)
    /\ c.at \in {"next", "view", "home"} /\ (c.at # "next" => c.isp \in ISPs)
    /\ c.pid \in Int /\ c.pid >= UNKNOWN
    /\ c.home.isp \in ISPs \cup {NULL}

IsRemove(c) ==
    /\ c.op = "remove" /\ c = [x \in {"op", "peer", "todo"} |-> c[x]]
    /\ c.peer \in Peers /\ c.todo \in Seq(ISPs)

IsSelect(c) ==
    /\ c.op = "select" /\ c = [x \in {"op", "isp", "pid", "locked"} |-> c[x]]
    /\ c.isp \in ISPs

Types ==
    /\ pidmap = [i \in ISPs |-> pidmap[i]]
    /\ \A i \in ISPs : pidmap[i] \in Maps[i] \cup {NoMap}
    /\ m_peers \subseteq Peers
    /\ view = [i \in ISPs |-> view[i]]
    /\ home = [p \in Peers |-> home[p]]
    /\ \A p \in Peers : home[p].isp \in ISPs \cup {NULL}
    /\ call = [t \in Threads |-> call[t]]
    /\ \A t \in Threads : call[t] = Idle \/ IsAdd(call[t]) \/ IsRemove(call[t]) \/ IsSelect(call[t])
    /\ rebuilding \in ISPs \cup {NULL}
    /\ rebuilt \subseteq ISPs /\ leaked \subseteq ISPs

\* The thread adds or removes the peer.
Owns(t, p) == call[t].op \in {"add", "remove"} /\ call[t].peer = p

\* A peer is added or removed by one thread at a time.
OneCall == \A t, u \in Threads, p \in Peers : Owns(t, p) /\ Owns(u, p) => t = u

\* A peer that no call is about is in every view.
Listed == \A p \in m_peers : ~Busy(p) => \A i \in ISPs : p \in DOMAIN view[i].m_peer_to_pid

\* A view without the peer being added is still to be visited ...
ToVisit(c, listed, views) ==
    /\ c.peer \in listed
    /\ \A i \in ISPs :
         \/ c.peer \in DOMAIN views[i].m_peer_to_pid
         \/ \E n \in 1..Len(c.todo) : c.todo[n] = i
         \/ c.at = "view" /\ c.isp = i

Visiting == \A t \in Threads : call[t].op = "add" => ToVisit(call[t], m_peers, view)

\* ... and when the PID map has changed since the lookup, the rebuilt view has the peer.
UpToDate(c, views, maps, fresh) ==
    c.at = "view" /\ c.isp \in fresh =>
        \/ c.peer \in DOMAIN views[c.isp].m_peer_to_pid
        \/ c.pid = maps[c.isp].pid[c.peer]

Looked == \A t \in Threads : call[t].op = "add" => UpToDate(call[t], view, pidmap, rebuilt)

ViewsOK == \A i \in ISPs : ViewOK(view[i])

RebuiltCurrent == \A i \in rebuilt : Current(view[i], pidmap[i])

IInv == Types /\ ViewsOK /\ RebuiltCurrent /\ OneCall /\ Listed /\ Visiting /\ Looked

-----------------------------------------------------------------------------
(* The operations on a view *)

\* The number of sets of a view whose sets are numbered from 0 to k - 1.
LEMMA SizeOf ==
    ASSUME NEW v, NEW k \in Nat, DOMAIN v.m_pid_peers = 0..(k - 1)
    PROVE  Size(v) = k
<1>1. 0 \in Int /\ k - 1 \in Int
  BY SMTT(20)
<1>2. Cardinality(0..(k - 1)) = IF 0 > k - 1 THEN 0 ELSE (k - 1) - 0 + 1
  BY <1>1, FS_Interval, Zenon
<1> QED
  BY SMTT(20), <1>2 DEF Size

\* Every PID map of an ISP is in range.
LEMMA MapsInRange ==
    ASSUME Types, NEW i \in ISPs
    PROVE  MapOK(pidmap[i])
<1>1. pidmap[i] \in (UNION {Maps[j] : j \in ISPs}) \cup {NoMap}
  BY DEF Types
<1>2. pidmap[i] \in PIDMap
  BY MapsAssumption DEF Types
<1> QED
  BY <1>1, <1>2, MapsAssumption, Zenon DEF MapOK, PIDMap

\* A view without peers.
LEMMA NoViewOK ==
    /\ ViewOK(NoView) /\ DOMAIN NoView.m_peer_to_pid = {}
    /\ \A m : Current(NoView, m)
<1>1. DOMAIN NoView.m_peer_to_pid = {} /\ DOMAIN NoView.m_pid_peers = {}
  BY SMTT(20) DEF NoView
<1>2. DOMAIN NoView.m_pid_peers = 0..(0 - 1)
  BY SMTT(20), <1>1
<1>3. Size(NoView) = 0
  BY <1>2, SizeOf, Zenon DEF NoView
<1>4. NoView = [x \in {"m_peer_to_pid", "m_pid_peers"} |-> NoView[x]]
  BY DEF NoView
<1> QED
  BY SMTT(20), <1>1, <1>2, <1>3, <1>4 DEF ViewOK, Current

\* A view gets a peer that it does not have, under a PID that is in range.
LEMMA WithOK ==
    ASSUME NEW v, ViewOK(v), NEW p \in Peers, p \notin DOMAIN v.m_peer_to_pid,
           NEW pid \in UNKNOWN..(Size(v) - 2)
    PROVE  /\ ViewOK(With(v, p, pid)) /\ Size(With(v, p, pid)) = Size(v)
           /\ DOMAIN With(v, p, pid).m_peer_to_pid = DOMAIN v.m_peer_to_pid \cup {p}
           /\ With(v, p, pid).m_peer_to_pid[p] = pid
           /\ \A q \in DOMAIN v.m_peer_to_pid :
                With(v, p, pid).m_peer_to_pid[q] = v.m_peer_to_pid[q]
<1> DEFINE w == With(v, p, pid)
<1>1. /\ w = [x \in {"m_peer_to_pid", "m_pid_peers"} |-> w[x]]
      /\ DOMAIN w.m_peer_to_pid = DOMAIN v.m_peer_to_pid \cup {p}
      /\ DOMAIN w.m_pid_peers = DOMAIN v.m_pid_peers
      /\ w.m_peer_to_pid[p] = pid
      /\ \A q \in DOMAIN v.m_peer_to_pid : w.m_peer_to_pid[q] = v.m_peer_to_pid[q]
      /\ \A n \in DOMAIN v.m_pid_peers :
           w.m_pid_peers[n] = IF n = Slot(v, pid) THEN v.m_pid_peers[n] \cup {p} ELSE v.m_pid_peers[n]
  BY Zenon DEF With
<1>2. Size(w) = Size(v) /\ Size(v) \in Nat
  BY <1>1 DEF Size, ViewOK
<1>3. \A k : Slot(w, k) = Slot(v, k)
  BY <1>2 DEF Slot
<1> HIDE DEF w
<1>4. ASSUME NEW n \in DOMAIN w.m_pid_peers
      PROVE  w.m_pid_peers[n] = {q \in DOMAIN w.m_peer_to_pid : n = Slot(w, w.m_peer_to_pid[q])}
  <2>1. v.m_pid_peers[n] = {q \in DOMAIN v.m_peer_to_pid : n = Slot(v, v.m_peer_to_pid[q])}
    BY <1>1, <1>4 DEF ViewOK
  <2>2. {q \in DOMAIN w.m_peer_to_pid : n = Slot(w, w.m_peer_to_pid[q])}
          = {q \in DOMAIN v.m_peer_to_pid : n = Slot(v, v.m_peer_to_pid[q])}
              \cup (IF n = Slot(v, pid) THEN {p} ELSE {})
    BY SMTT(20), <1>1, <1>3
  <2> QED
    BY <2>1, <2>2, <1>1, <1>4, Zenon
<1>5. \A q \in DOMAIN w.m_peer_to_pid : w.m_peer_to_pid[q] \in UNKNOWN..(Size(w) - 2)
  BY <1>1, <1>2 DEF ViewOK
<1>6. ViewOK(w)
  BY <1>1, <1>2, <1>4, <1>5 DEF ViewOK
<1> QED
  BY <1>1, <1>2, <1>6 DEF w
\* A view has its sets when it gets a peer.
LEMMA AllocatedOK ==
    ASSUME Types, NEW i \in ISPs, NEW v, ViewOK(v)
    PROVE  /\ ViewOK(Allocated(i, v)) /\ Size(Allocated(i, v)) >= 1
           /\ Allocated(i, v).m_peer_to_pid = v.m_peer_to_pid
           /\ DOMAIN v.m_peer_to_pid # {} => Allocated(i, v) = v
           /\ DOMAIN v.m_peer_to_pid = {} => Size(Allocated(i, v)) = pidmap[i].total + 1
<1>1. CASE DOMAIN v.m_peer_to_pid # {}
  <2>1. Allocated(i, v) = v
    BY <1>1 DEF Allocated
  <2>2. PICK p \in DOMAIN v.m_peer_to_pid : TRUE
    BY <1>1
  <2>3. Size(v) >= 1
    BY SMTT(20), <2>2 DEF ViewOK, UNKNOWN
  <2> QED
    BY <1>1, <2>1, <2>3
<1>2. CASE DOMAIN v.m_peer_to_pid = {}
  <2> DEFINE w == Allocated(i, v)
             k == pidmap[i].total + 1
  <2>1. pidmap[i].total \in Nat
    BY MapsInRange DEF MapOK
  <2>2. w = [v EXCEPT !.m_pid_peers = [n \in 0..pidmap[i].total |-> {}]]
    BY <1>2 DEF Allocated
  <2>3. /\ w = [x \in {"m_peer_to_pid", "m_pid_peers"} |-> w[x]]
        /\ w.m_peer_to_pid = v.m_peer_to_pid
        /\ w.m_pid_peers = [n \in 0..pidmap[i].total |-> {}]
    BY <2>2, Zenon DEF ViewOK
  <2> HIDE DEF w
  <2>4. k \in Nat /\ k - 1 = pidmap[i].total
    BY SMTT(20), <2>1
  <2>5. DOMAIN w.m_pid_peers = 0..(k - 1)
    BY <2>3, <2>4
  <2>6. Size(w) = k
    BY <2>4, <2>5, SizeOf
  <2>7. ViewOK(w)
    BY <1>2, <2>3, <2>4, <2>5, <2>6, Zenon DEF ViewOK
  <2> QED
    BY SMTT(20), <1>2, <2>1, <2>3, <2>6, <2>7 DEF w
<1> QED
  BY <1>1, <1>2

\* addPeerInternal() adds the peer if the view does not have it, under the given PID
\* if the view has a set for it.
LEMMA AddOK ==
    ASSUME Types, NEW i \in ISPs, NEW v, ViewOK(v), NEW p \in Peers,
           NEW pid \in Int, pid >= UNKNOWN
    PROVE  /\ ViewOK(addPeerInternal(i, v, p, pid))
           /\ DOMAIN addPeerInternal(i, v, p, pid).m_peer_to_pid = DOMAIN v.m_peer_to_pid \cup {p}
           /\ Current(v, pidmap[i]) /\ (p \in DOMAIN v.m_peer_to_pid \/ pid = pidmap[i].pid[p])
                => Current(addPeerInternal(i, v, p, pid), pidmap[i])
<1> DEFINE w == Allocated(i, v)
           k == IF pid >= Size(w) - 1 THEN UNKNOWN ELSE pid
           a == addPeerInternal(i, v, p, pid)
<1>1. /\ ViewOK(w) /\ Size(w) >= 1 /\ w.m_peer_to_pid = v.m_peer_to_pid
      /\ DOMAIN v.m_peer_to_pid # {} => w = v
      /\ DOMAIN v.m_peer_to_pid = {} => Size(w) = pidmap[i].total + 1
  BY AllocatedOK
<1>2. Size(w) \in Nat
  BY <1>1 DEF ViewOK
<1>3. CASE p \in DOMAIN v.m_peer_to_pid
  BY <1>1, <1>3 DEF addPeerInternal
<1>4. CASE p \notin DOMAIN v.m_peer_to_pid
  <2>1. a = With(w, p, k)
    BY <1>4 DEF addPeerInternal
  <2> HIDE DEF w
  <2>2. k \in UNKNOWN..(Size(w) - 2)
    BY SMTT(20), <1>1, <1>2 DEF UNKNOWN
  <2> HIDE DEF k
  <2>3. /\ ViewOK(a) /\ Size(a) = Size(w)
        /\ DOMAIN a.m_peer_to_pid = DOMAIN v.m_peer_to_pid \cup {p}
        /\ a.m_peer_to_pid[p] = k
        /\ \A q \in DOMAIN v.m_peer_to_pid : a.m_peer_to_pid[q] = v.m_peer_to_pid[q]
    BY SMTT(20), <1>1, <1>4, <2>1, <2>2, WithOK
  <2> HIDE DEF a
  <2>4. ASSUME Current(v, pidmap[i]), pid = pidmap[i].pid[p]
        PROVE  Current(a, pidmap[i])
    <3>1. Size(w) = pidmap[i].total + 1
      BY <1>1, <2>4 DEF Current
    <3>2. pid \in UNKNOWN..(pidmap[i].total - 1) /\ pidmap[i].total \in Nat
      BY <2>4, MapsInRange DEF MapOK
    <3>3. k = pid
      BY SMTT(20), <3>1, <3>2 DEF k, UNKNOWN
    <3> QED
      BY <2>3, <2>4, <3>1, <3>3 DEF Current
  <2> QED
    BY <1>4, <2>3, <2>4 DEF a
<1> QED
  BY <1>3, <1>4

\* The view w is v without p.
Loses(v, w, p) ==
    /\ ViewOK(w) /\ DOMAIN w.m_peer_to_pid = DOMAIN v.m_peer_to_pid \ {p}
    /\ \A m : Current(v, m) => Current(w, m)

\* removePeer() of a view removes the peer and leaves the others where they are.
LEMMA RemoveOK ==
    ASSUME NEW i, NEW v, ViewOK(v), NEW p \in Peers
    PROVE  Loses(v, removePeer(i, v, p), p)
<1>1. CASE p \notin DOMAIN v.m_peer_to_pid
  BY <1>1 DEF removePeer, Loses
<1>2. CASE p \in DOMAIN v.m_peer_to_pid /\ DOMAIN v.m_peer_to_pid \ {p} = {}
  <2>1. removePeer(i, v, p) = NoView
    BY <1>2 DEF removePeer, Without
  <2> QED
    BY <1>2, <2>1, NoViewOK DEF Loses
<1>3. CASE p \in DOMAIN v.m_peer_to_pid /\ DOMAIN v.m_peer_to_pid \ {p} # {}
  <2> DEFINE s == Slot(v, v.m_peer_to_pid[p])
             w == removePeer(i, v, p)
  <2>1. /\ w = [x \in {"m_peer_to_pid", "m_pid_peers"} |-> w[x]]
        /\ DOMAIN w.m_peer_to_pid = DOMAIN v.m_peer_to_pid \ {p}
        /\ DOMAIN w.m_pid_peers = DOMAIN v.m_pid_peers
        /\ \A q \in DOMAIN w.m_peer_to_pid : w.m_peer_to_pid[q] = v.m_peer_to_pid[q]
        /\ \A n \in DOMAIN v.m_pid_peers :
             w.m_pid_peers[n] = IF n = s THEN v.m_pid_peers[n] \ {p} ELSE v.m_pid_peers[n]
    BY <1>3, Zenon DEF removePeer, Without
  <2> HIDE DEF w
  <2>2. Size(w) = Size(v) /\ Size(v) \in Nat
    BY <2>1 DEF Size, ViewOK
  <2>3. \A k : Slot(w, k) = Slot(v, k)
    BY <2>2 DEF Slot
  <2>4. ASSUME NEW n \in DOMAIN w.m_pid_peers
        PROVE  w.m_pid_peers[n] = {q \in DOMAIN w.m_peer_to_pid : n = Slot(w, w.m_peer_to_pid[q])}
    <3>1. v.m_pid_peers[n] = {q \in DOMAIN v.m_peer_to_pid : n = Slot(v, v.m_peer_to_pid[q])}
      BY <2>1, <2>4 DEF ViewOK
    <3>2. {q \in DOMAIN w.m_peer_to_pid : n = Slot(w, w.m_peer_to_pid[q])}
            = {q \in DOMAIN v.m_peer_to_pid : n = Slot(v, v.m_peer_to_pid[q])} \ {p}
      BY SMTT(20), <2>1, <2>3
    <3> QED
      BY <2>1, <2>4, <3>1, <3>2, Zenon
  <2>5. \A q \in DOMAIN w.m_peer_to_pid : w.m_peer_to_pid[q] \in UNKNOWN..(Size(w) - 2)
    BY <2>1, <2>2 DEF ViewOK
  <2>6. ViewOK(w)
    BY <2>1, <2>2, <2>4, <2>5 DEF ViewOK
  <2>7. \A m : Current(v, m) => Current(w, m)
    BY <2>1, <2>2 DEF Current
  <2> QED
    BY <2>1, <2>6, <2>7 DEF w, Loses
<1> QED
  BY <1>1, <1>2, <1>3

\* A view that was rebuilt has the peers of the list, under their current PIDs.
LEMMA RebuiltOK ==
    ASSUME Types, NEW i \in ISPs
    PROVE  /\ ViewOK(Rebuilt(i)) /\ Current(Rebuilt(i), pidmap[i])
           /\ DOMAIN Rebuilt(i).m_peer_to_pid = m_peers
<1>1. CASE m_peers = {}
  <2>1. Rebuilt(i) = NoView
    BY <1>1 DEF Rebuilt
  <2> QED
    BY <1>1, <2>1, NoViewOK
<1>2. CASE m_peers # {}
  <2> DEFINE w == Rebuilt(i)
             m == pidmap[i]
             k == m.total + 1
  <2>1. m_peers \subseteq Peers /\ m.total \in Nat
        /\ \A p \in Peers : m.pid[p] \in UNKNOWN..(m.total - 1)
    BY MapsInRange DEF MapOK, Types
  <2>2. /\ w = [x \in {"m_peer_to_pid", "m_pid_peers"} |-> w[x]]
        /\ w.m_peer_to_pid = [p \in m_peers |-> m.pid[p]]
        /\ w.m_pid_peers = [n \in 0..m.total |->
             {p \in m_peers : n = IF m.pid[p] >= 0 THEN m.pid[p] ELSE m.total}]
    BY <1>2, Zenon DEF Rebuilt
  <2> HIDE DEF w, m
  <2>3. k \in Nat /\ k - 1 = m.total
    BY SMTT(20), <2>1
  <2>4. DOMAIN w.m_pid_peers = 0..(k - 1)
    BY <2>2, <2>3
  <2>5. Size(w) = k
    BY <2>3, <2>4, SizeOf
  <2>6. ASSUME NEW n \in DOMAIN w.m_pid_peers
        PROVE  w.m_pid_peers[n] = {q \in DOMAIN w.m_peer_to_pid : n = Slot(w, w.m_peer_to_pid[q])}
    <3>1. \A p \in m_peers :
            Slot(w, w.m_peer_to_pid[p]) = IF m.pid[p] >= 0 THEN m.pid[p] ELSE m.total
      BY <2>1, <2>2, <2>3, <2>5 DEF Slot
    <3>2. w.m_pid_peers[n] = {p \in m_peers : n = IF m.pid[p] >= 0 THEN m.pid[p] ELSE m.total}
      BY <2>2, <2>6, Zenon
    <3>3. DOMAIN w.m_peer_to_pid = m_peers
      BY <2>2
    <3> QED
      BY <3>1, <3>2, <3>3, Zenon
  <2>7. \A q \in DOMAIN w.m_peer_to_pid : w.m_peer_to_pid[q] \in UNKNOWN..(Size(w) - 2)
    BY SMTT(20), <2>1, <2>2, <2>5
  <2>8. ViewOK(w) /\ Current(w, m) /\ DOMAIN w.m_peer_to_pid = m_peers
    BY <2>1, <2>2, <2>3, <2>4, <2>5, <2>6, <2>7, Zenon DEF ViewOK, Current
  <2> QED
    BY <2>8 DEF w, m
<1> QED
  BY <1>1, <1>2

-----------------------------------------------------------------------------
(* The invariant *)

LEMMA InitIInv == Init => IInv
<1> SUFFICES ASSUME Init PROVE IInv
  OBVIOUS
<1>1. \A t \in Threads : call[t] = Idle /\ call[t].op = "idle"
  BY DEF Init, Idle
<1>2. Types
  BY <1>1 DEF Init, Types, NoHome
<1>3. ViewsOK /\ RebuiltCurrent
  BY NoViewOK DEF Init, ViewsOK, RebuiltCurrent
<1>4. OneCall /\ Listed /\ Visiting /\ Looked
  BY <1>1 DEF Init, OneCall, Owns, Listed, Visiting, Looked
<1> QED
  BY <1>2, <1>3, <1>4 DEF IInv

\* What the thread t does next is about the peer p if it was before, and what the others
\* do stays the same.
Continues(t, p) ==
    /\ Owns(t, p) /\ Owns(t, p)'
    /\ \A u \in Threads \ {t} : call'[u] = call[u]

\* While a thread goes on with its peer, no other call is about that peer.
LEMMA ContinuesOwn ==
    ASSUME IInv, NEW t \in Threads, NEW p \in Peers, Continues(t, p)
    PROVE  /\ OneCall' /\ \A q \in Peers : Busy(q)' <=> Busy(q)
           /\ \A u \in Threads \ {t} : ~Owns(u, p) /\ ~Owns(u, p)'
<1>1. OneCall
  BY DEF IInv
<1>2. \A q \in Peers : Owns(t, q)' <=> Owns(t, q)
  BY DEF Continues, Owns
<1>3. \A u \in Threads \ {t}, q \in Peers : Owns(u, q)' <=> Owns(u, q)
  BY DEF Continues, Owns
<1>4. OneCall'
  BY <1>1, <1>2, <1>3 DEF OneCall
<1>5. \A q : Busy(q) <=> \E u \in Threads : Owns(u, q)
  BY DEF Busy, Owns
<1>6. \A q : Busy(q)' <=> \E u \in Threads : Owns(u, q)'
  BY DEF Busy, Owns
<1>7. \A q \in Peers : Busy(q)' <=> Busy(q)
  BY <1>2, <1>3, <1>5, <1>6
<1>8. \A u \in Threads \ {t} : ~Owns(u, p) /\ ~Owns(u, p)'
  BY <1>1, <1>3 DEF OneCall, Continues
<1> QED
  BY <1>4, <1>7, <1>8

LEMMA BusyOwned ==
    /\ \A q : Busy(q) <=> \E u \in Threads : Owns(u, q)
    /\ \A q : Busy(q)' <=> \E u \in Threads : Owns(u, q)'
BY DEF Busy, Owns

\* addPeer() lists the peer; all the views are to be visited.
LEMMA AddPeerStep ==
    ASSUME IInv, NEW t \in Threads, NEW p \in Peers, addPeer(t, p)
    PROVE  IInv'
<1> USE DEF addPeer
<1> DEFINE c == call'[t]
<1>1. /\ c.op = "add" /\ c.peer = p /\ c.todo = m_views /\ c.at = "next"
      /\ c.pid = UNKNOWN /\ c.home = NoHome
      /\ c = [x \in AddFields |-> c[x]]
  BY DEF IInv, Types, AddFields
<1>2. call' = [u \in Threads |-> call'[u]] /\ \A u \in Threads \ {t} : call'[u] = call[u]
  BY DEF IInv, Types
<1>3. call[t].op = "idle"
  BY SMTT(20) DEF Idle
<1> HIDE DEF c
<1>4. IsAdd(c)
  BY SMTT(20), <1>1, MapsAssumption DEF IsAdd, UNKNOWN, NoHome
<1>5. Types'
  BY <1>2, <1>4 DEF IInv, Types, c
<1>6. ViewsOK' /\ RebuiltCurrent'
  BY DEF IInv, ViewsOK, RebuiltCurrent
<1>7. \A u \in Threads : \A q : Owns(u, q)' <=> IF u = t THEN q = p ELSE Owns(u, q)
  BY <1>1, <1>2 DEF Owns, c
<1>8. \A q : ~Owns(t, q)
  BY <1>3 DEF Owns
<1>9. OneCall'
  BY SMTT(20), <1>7, BusyOwned DEF IInv, OneCall
<1>10. Listed'
  <2>1. \A q : ~Busy(q)' => q # p /\ ~Busy(q)
    BY SMTT(20), <1>7, <1>8, BusyOwned
  <2> QED
    BY <2>1 DEF IInv, Listed
<1>11. Visiting'
  <2>1. \A i \in ISPs : \E n \in 1..Len(m_views) : m_views[n] = i
    BY SMTT(20), MapsAssumption DEF ISPs
  <2>2. ToVisit(c, m_peers', view')
    BY <1>1, <2>1 DEF ToVisit
  <2>3. ASSUME NEW u \in Threads, call[u].op = "add"
        PROVE  ToVisit(call[u], m_peers', view')
    BY <2>3 DEF IInv, Visiting, ToVisit
  <2> QED
    BY <1>2, <2>2, <2>3, Zenon DEF Visiting, c
<1>12. Looked'
  <2>1. UpToDate(c, view', pidmap', rebuilt')
    BY <1>1 DEF UpToDate
  <2> QED
    BY <1>2, <2>1 DEF IInv, Looked, c
<1> QED
  BY <1>5, <1>6, <1>9, <1>10, <1>11, <1>12 DEF IInv

Finds(c, d, todo, i, pid, length) ==
    d = [c EXCEPT !.todo = todo, !.at = "view", !.isp = i, !.pid = pid, !.length = length]

Found(c, d, todo, i, pid) ==
    /\ d.op = "add" /\ d.peer = c.peer /\ d.todo = todo /\ d.at = "view"
    /\ d.isp = i /\ d.pid = pid /\ d.home = c.home
    /\ d = [x \in AddFields |-> d[x]]

\* The result of a lookup.
LEMMA LookedUp ==
    ASSUME NEW c, IsAdd(c), NEW todo, NEW i, NEW pid, NEW length, NEW d,
           Finds(c, d, todo, i, pid, length)
    PROVE  Found(c, d, todo, i, pid)
<1>1. c = [x \in AddFields |-> c[x]] /\ c.op = "add"
  BY DEF IsAdd
<1> QED
  BY <1>1, Zenon DEF AddFields, Finds, Found

\* The PID is looked up in the current PID map; the view is visited next.
LEMMA LookupStep ==
    ASSUME IInv, NEW t \in Threads, addPeerLookup(t)
    PROVE  IInv'
<1> DEFINE c == call[t]
           d == call'[t]
           i == Head(c.todo)
<1>1. IsAdd(c) /\ c.at = "next" /\ c.todo # <<>>
  <2>1. c.op = "add" /\ c.at = "next" /\ c.todo # <<>>
    BY DEF addPeerLookup
  <2>2. c = Idle \/ IsAdd(c) \/ IsRemove(c) \/ IsSelect(c)
    BY DEF IInv, Types
  <2> HIDE DEF c
  <2> QED
    BY SMTT(20), <2>1, <2>2 DEF IsRemove, IsSelect, Idle
<1>2. call' = [u \in Threads |-> call'[u]] /\ \A u \in Threads \ {t} : call'[u] = call[u]
  BY Zenon DEF addPeerLookup, IInv, Types
<1>3. Finds(c, d, Tail(c.todo), i, pidmap[i].pid[c.peer], pidmap[i].length[c.peer])
  BY Zenon DEF addPeerLookup, IInv, Types, Finds
<1>u. UNCHANGED <<pidmap, m_peers, view, home, rebuilding, rebuilt, leaked>>
  BY DEF addPeerLookup
<1> HIDE DEF c, d, i
<1>f. Found(c, d, Tail(c.todo), i, pidmap[i].pid[c.peer])
  BY <1>1, <1>3, LookedUp, Zenon
<1>4. /\ d.op = "add" /\ d.peer = c.peer /\ d.todo = Tail(c.todo) /\ d.at = "view"
      /\ d.isp = i /\ d.pid = pidmap[i].pid[c.peer] /\ d.home = c.home
      /\ d = [x \in AddFields |-> d[x]]
  BY <1>f DEF Found
<1>5. c.todo \in Seq(ISPs) /\ c.todo # <<>> /\ c.peer \in Peers /\ c.op = "add" /\ c.at = "next"
  BY <1>1 DEF IsAdd
<1>6. i \in ISPs /\ Tail(c.todo) \in Seq(ISPs)
  BY SMTT(20), <1>5 DEF i
<1>7. ASSUME NEW n \in 1..Len(c.todo)
      PROVE  c.todo[n] = i \/ \E k \in 1..Len(d.todo) : d.todo[k] = c.todo[n]
  <2>1. CASE n = 1
    BY SMTT(20), <1>5, <2>1 DEF i
  <2>2. CASE n # 1
    <3>1. n - 1 \in 1..Len(Tail(c.todo)) /\ Tail(c.todo)[n - 1] = c.todo[n]
      BY SMTT(20), <1>5, <2>2
    <3> QED
      BY <3>1, <1>4
  <2> QED
    BY <2>1, <2>2
<1>8. d.pid \in Int /\ d.pid >= UNKNOWN
  BY SMTT(20), <1>4, <1>5, <1>6, MapsInRange DEF MapOK, IInv, UNKNOWN
<1>9. IsAdd(d)
  BY <1>1, <1>4, <1>6, <1>8 DEF IsAdd
<1>10. Types'
  BY <1>u, <1>2, <1>9 DEF IInv, Types, d
<1>11. ViewsOK' /\ RebuiltCurrent'
  BY <1>u DEF IInv, ViewsOK, RebuiltCurrent
<1>12. Continues(t, c.peer)
  BY <1>2, <1>4, <1>5 DEF Continues, Owns, c, d
<1>13. OneCall' /\ \A q \in Peers : Busy(q)' <=> Busy(q)
  BY <1>5, <1>12, ContinuesOwn
<1>14. Listed'
  BY <1>u, <1>13 DEF IInv, Listed, Types
<1>15. Visiting'
  <2>1. ToVisit(c, m_peers, view)
    BY <1>5 DEF IInv, Visiting, c
  <2>2. ToVisit(d, m_peers, view)
    BY SMTT(20), <1>4, <1>5, <1>7, <2>1 DEF ToVisit
  <2> QED
    BY <1>u, <1>2, <2>2 DEF IInv, Visiting, d
<1>16. Looked'
  <2>1. UpToDate(d, view, pidmap, rebuilt)
    BY <1>4 DEF UpToDate
  <2> QED
    BY <1>u, <1>2, <2>1 DEF IInv, Looked, d
<1> QED
  BY <1>10, <1>11, <1>13, <1>14, <1>15, <1>16 DEF IInv

\* The next ISP is looked at, with some home.
LEMMA NextISP ==
    ASSUME NEW c, IsAdd(c), NEW h, h.isp \in ISPs \cup {NULL}, NEW l
    PROVE  /\ IsAdd(nextISP(c, h, l))
           /\ nextISP(c, h, l).peer = c.peer /\ nextISP(c, h, l).todo = c.todo
           /\ nextISP(c, h, l).at = "next"
<1> DEFINE d == nextISP(c, h, l)
<1>1. c = [x \in AddFields |-> c[x]] /\ c.op = "add"
  BY DEF IsAdd
<1>2. /\ d.op = "add" /\ d.peer = c.peer /\ d.todo = c.todo /\ d.at = "next"
      /\ d.pid = UNKNOWN /\ d.home = h
      /\ d = [x \in AddFields |-> d[x]]
  BY <1>1, Zenon DEF AddFields, nextISP
<1> HIDE DEF d
<1>3. UNKNOWN \in Int /\ UNKNOWN >= UNKNOWN
  BY SMTT(20) DEF UNKNOWN
<1>4. IsAdd(d)
  BY <1>2, <1>3 DEF IsAdd
<1> QED
  BY <1>2, <1>4 DEF d

\* What an add has done so far stays the same.
SameAdd(c, d) ==
    /\ IsAdd(d) /\ d.op = "add" /\ d.peer = c.peer /\ d.todo = c.todo /\ d.at \in {"next", "home"}

\* The peer is added to the view under the PID that was looked up.
LEMMA ToViewStep ==
    ASSUME IInv, NEW t \in Threads, addPeerToView(t)
    PROVE  IInv'
<1> DEFINE c == call[t]
           d == call'[t]
           i == c.isp
           p == c.peer
           v == addPeerInternal(i, view[i], p, c.pid)
<1>1. IsAdd(c) /\ c.op = "add" /\ c.at = "view"
  BY SMTT(20) DEF addPeerToView, IInv, Types, IsRemove, IsSelect, Idle
<1>2. call' = [u \in Threads |-> call'[u]] /\ \A u \in Threads \ {t} : call'[u] = call[u]
  BY DEF addPeerToView, IInv, Types
<1>3. d = IF c.pid < 0 THEN nextISP(c, c.home, c.longest) ELSE [c EXCEPT !.at = "home"]
  BY DEF addPeerToView, IInv, Types
<1>4. /\ view' = [j \in ISPs |-> view'[j]] /\ view'[i] = v
      /\ \A j \in ISPs \ {i} : view'[j] = view[j]
  BY <1>1 DEF addPeerToView, IInv, Types, IsAdd
<1>u. UNCHANGED <<pidmap, m_peers, home, rebuilding, rebuilt, leaked>>
  BY DEF addPeerToView
<1> HIDE DEF c, d, v
<1>5. SameAdd(c, d)
  <2>1. CASE c.pid < 0
    BY SMTT(20), <1>1, <1>3, <2>1, NextISP DEF SameAdd, IsAdd
  <2>2. CASE ~(c.pid < 0)
    <3>1. d = [c EXCEPT !.at = "home"]
      BY <1>3, <2>2
    <3>2. c = [x \in AddFields |-> c[x]]
      BY <1>1 DEF IsAdd
    <3>3. /\ d = [x \in AddFields |-> d[x]] /\ d.at = "home"
          /\ d.op = c.op /\ d.peer = c.peer /\ d.todo = c.todo /\ d.isp = c.isp
          /\ d.pid = c.pid /\ d.home = c.home
      BY <3>1, <3>2 DEF AddFields
    <3> QED
      BY <1>1, <3>3 DEF SameAdd, IsAdd
  <2> QED
    BY <2>1, <2>2
<1>6. p \in Peers /\ i \in ISPs /\ c.pid \in Int /\ c.pid >= UNKNOWN
  BY <1>1 DEF IsAdd
<1>7. Types /\ ViewOK(view[i])
  BY <1>6 DEF IInv, ViewsOK
<1>8. UpToDate(c, view, pidmap, rebuilt) /\ ToVisit(c, m_peers, view)
  BY <1>1 DEF IInv, Looked, Visiting, c
<1>9. /\ ViewOK(v) /\ DOMAIN v.m_peer_to_pid = DOMAIN view[i].m_peer_to_pid \cup {p}
      /\ Current(view[i], pidmap[i]) /\ (p \in DOMAIN view[i].m_peer_to_pid \/ c.pid = pidmap[i].pid[p])
           => Current(v, pidmap[i])
  BY SMTT(20), <1>6, <1>7, AddOK DEF v
<1>10. Types'
  BY <1>u, <1>2, <1>4, <1>5 DEF IInv, Types, SameAdd, d
<1>11. ViewsOK'
  BY <1>4, <1>9 DEF IInv, ViewsOK
<1>12. RebuiltCurrent'
  <2>1. i \in rebuilt => Current(v, pidmap[i])
    BY <1>1, <1>8, <1>9 DEF IInv, RebuiltCurrent, UpToDate
  <2>2. rebuilt \subseteq ISPs
    BY DEF IInv, Types
  <2> QED
    BY <1>u, <1>4, <2>1, <2>2 DEF IInv, RebuiltCurrent
<1>13. Continues(t, p)
  BY <1>1, <1>2, <1>5 DEF Continues, Owns, c, d, SameAdd
<1>14. OneCall' /\ \A q \in Peers : Busy(q)' <=> Busy(q)
  BY <1>6, <1>13, ContinuesOwn
<1>15. \A j \in ISPs : DOMAIN view[j].m_peer_to_pid \subseteq DOMAIN view'[j].m_peer_to_pid
  BY <1>4, <1>9
<1>16. Listed'
  BY <1>u, <1>14, <1>15 DEF IInv, Listed, Types
<1>17. Visiting'
  <2>1. ToVisit(d, m_peers, view')
    BY SMTT(20), <1>4, <1>5, <1>6, <1>8, <1>9, <1>15 DEF ToVisit, SameAdd
  <2>2. \A u \in Threads : ToVisit(call[u], m_peers, view) => ToVisit(call[u], m_peers, view')
    BY <1>15 DEF ToVisit
  <2> QED
    BY <1>u, <1>2, <2>1, <2>2 DEF IInv, Visiting, d
<1>18. Looked'
  <2>1. UpToDate(d, view', pidmap, rebuilt)
    BY <1>5 DEF UpToDate, SameAdd
  <2>2. \A u \in Threads : UpToDate(call[u], view, pidmap, rebuilt)
                             => UpToDate(call[u], view', pidmap, rebuilt)
    BY <1>15 DEF UpToDate, IInv, Types
  <2> QED
    BY <1>u, <1>2, <2>1, <2>2 DEF IInv, Looked, d
<1> QED
  BY <1>10, <1>11, <1>12, <1>14, <1>16, <1>17, <1>18 DEF IInv

\* The home so far is a matter of the call alone.
LEMMA CandidateStep ==
    ASSUME IInv, NEW t \in Threads, addPeerCandidate(t)
    PROVE  IInv'
<1> DEFINE c == call[t]
           d == call'[t]
           h == [isp |-> c.isp, pid |-> c.pid]
<1>1. IsAdd(c) /\ c.op = "add" /\ c.at = "home"
  BY SMTT(20) DEF addPeerCandidate, IInv, Types, IsRemove, IsSelect, Idle
<1>2. call' = [u \in Threads |-> call'[u]] /\ \A u \in Threads \ {t} : call'[u] = call[u]
  BY DEF addPeerCandidate, IInv, Types
<1>3. d = nextISP(c, h, c.length) \/ d = nextISP(c, c.home, c.longest)
  BY DEF addPeerCandidate, IInv, Types
<1>u. UNCHANGED <<pidmap, m_peers, view, home, rebuilding, rebuilt, leaked>>
  BY DEF addPeerCandidate
<1>4. h.isp = c.isp
  OBVIOUS
<1> HIDE DEF c, d, h
<1>5. SameAdd(c, d) /\ c.peer \in Peers
  <2>1. h.isp \in ISPs \cup {NULL} /\ c.home.isp \in ISPs \cup {NULL} /\ c.peer \in Peers
    BY <1>1, <1>4 DEF IsAdd
  <2> QED
    BY SMTT(20), <1>1, <1>3, <2>1, NextISP DEF SameAdd, IsAdd
<1>6. Types'
  BY <1>u, <1>2, <1>5 DEF IInv, Types, SameAdd, d
<1>7. ViewsOK' /\ RebuiltCurrent'
  BY <1>u DEF IInv, ViewsOK, RebuiltCurrent
<1>8. Continues(t, c.peer)
  BY <1>1, <1>2, <1>5 DEF Continues, Owns, c, d, SameAdd
<1>9. OneCall' /\ \A q \in Peers : Busy(q)' <=> Busy(q)
  BY <1>5, <1>8, ContinuesOwn
<1>10. Listed'
  BY <1>u, <1>9 DEF IInv, Listed, Types
<1>11. Visiting'
  <2>1. ToVisit(c, m_peers, view)
    BY <1>1 DEF IInv, Visiting, c
  <2>2. ToVisit(d, m_peers, view)
    BY <1>1, <1>5, <2>1 DEF ToVisit, SameAdd
  <2> QED
    BY <1>u, <1>2, <2>2 DEF IInv, Visiting, d
<1>12. Looked'
  <2>1. UpToDate(d, view, pidmap, rebuilt)
    BY <1>5 DEF UpToDate, SameAdd
  <2> QED
    BY <1>u, <1>2, <2>1 DEF IInv, Looked, d
<1> QED
  BY <1>6, <1>7, <1>9, <1>10, <1>11, <1>12 DEF IInv

\* When every ISP has been visited the peer is in every view.
LEMMA AddReturnStep ==
    ASSUME IInv, NEW t \in Threads, addPeerReturn(t)
    PROVE  IInv'
<1> DEFINE c == call[t]
<1>1. IsAdd(c) /\ c.op = "add" /\ c.at = "next" /\ c.todo = <<>>
  BY SMTT(20) DEF addPeerReturn, IInv, Types, IsRemove, IsSelect, Idle
<1>2. /\ call' = [u \in Threads |-> call'[u]] /\ call'[t] = Idle
      /\ \A u \in Threads \ {t} : call'[u] = call[u]
  BY DEF addPeerReturn, IInv, Types
<1>3. home' = IF c.home # NoHome THEN [home EXCEPT ![c.peer] = c.home] ELSE home
  BY DEF addPeerReturn
<1>u. UNCHANGED <<pidmap, m_peers, view, rebuilding, rebuilt, leaked>>
  BY DEF addPeerReturn
<1>4. ToVisit(c, m_peers, view)
  BY <1>1 DEF IInv, Visiting
<1> HIDE DEF c
<1>5. call'[t].op = "idle"
  BY SMTT(20), <1>2 DEF Idle
<1>6. home' = [p \in Peers |-> home'[p]] /\ \A p \in Peers : home'[p].isp \in ISPs \cup {NULL}
  BY <1>1, <1>3 DEF IInv, Types, IsAdd
<1>7. Types'
  BY <1>u, <1>2, <1>6 DEF IInv, Types
<1>8. ViewsOK' /\ RebuiltCurrent'
  BY <1>u DEF IInv, ViewsOK, RebuiltCurrent
<1>9. \A u \in Threads : \A q : Owns(u, q)' <=> u # t /\ Owns(u, q)
  BY <1>2, <1>5 DEF Owns
<1>10. \A q : Owns(t, q) => q = c.peer
  BY DEF Owns, c
<1>11. OneCall'
  BY <1>9 DEF IInv, OneCall
<1>12. Listed'
  <2>1. \A i \in ISPs : c.peer \in DOMAIN view[i].m_peer_to_pid
    BY SMTT(20), <1>1, <1>4 DEF ToVisit
  <2>2. \A q : ~Busy(q)' => q = c.peer \/ ~Busy(q)
    BY <1>9, <1>10, BusyOwned
  <2> QED
    BY <1>u, <2>1, <2>2 DEF IInv, Listed
<1>13. Visiting' /\ Looked'
  BY <1>u, <1>2, <1>5 DEF IInv, Visiting, Looked
<1> QED
  BY <1>7, <1>8, <1>11, <1>12, <1>13 DEF IInv

LEMMA RemoveStartStep ==
    ASSUME IInv, NEW t \in Threads, NEW p \in Peers, removePeerStart(t, p)
    PROVE  IInv'
<1> DEFINE d == call'[t]
<1>1. d.op = "remove" /\ d.peer = p /\ d.todo = m_views /\ d = [x \in {"op", "peer", "todo"} |-> d[x]]
  BY DEF removePeerStart, IInv, Types
<1>2. call' = [u \in Threads |-> call'[u]] /\ \A u \in Threads \ {t} : call'[u] = call[u]
  BY DEF removePeerStart, IInv, Types
<1>3. call[t].op = "idle" /\ ~Busy(p)
  BY SMTT(20) DEF removePeerStart, Idle
<1>u. UNCHANGED <<pidmap, m_peers, view, home, rebuilding, rebuilt, leaked>>
  BY DEF removePeerStart
<1> HIDE DEF d
<1>4. IsRemove(d)
  BY <1>1, MapsAssumption DEF IsRemove
<1>5. Types'
  BY <1>u, <1>2, <1>4 DEF IInv, Types, d
<1>6. ViewsOK' /\ RebuiltCurrent'
  BY <1>u DEF IInv, ViewsOK, RebuiltCurrent
<1>7. \A u \in Threads : \A q : Owns(u, q)' <=> IF u = t THEN q = p ELSE Owns(u, q)
  BY <1>1, <1>2 DEF Owns, d
<1>8. \A q : ~Owns(t, q)
  BY <1>3 DEF Owns
<1>9. OneCall'
  BY SMTT(20), <1>3, <1>7, BusyOwned DEF IInv, OneCall
<1>10. Listed'
  <2>1. \A q : ~Busy(q)' => ~Busy(q)
    BY <1>7, <1>8, BusyOwned
  <2> QED
    BY <1>u, <2>1 DEF IInv, Listed
<1>11. Visiting' /\ Looked'
  BY <1>u, <1>1, <1>2 DEF IInv, Visiting, Looked, d
<1> QED
  BY <1>5, <1>6, <1>9, <1>10, <1>11 DEF IInv

\* A view loses the peer; no other call is about that peer.
LEMMA RemoveFromViewStep ==
    ASSUME IInv, NEW t \in Threads, removePeerFromView(t)
    PROVE  IInv'
<1> DEFINE c == call[t]
           d == call'[t]
           i == Head(c.todo)
           p == c.peer
           v == removePeer(i, view[i], p)
<1>1. IsRemove(c) /\ c.op = "remove" /\ c.todo # <<>>
  BY SMTT(20) DEF removePeerFromView, IInv, Types, IsAdd, IsSelect, Idle
<1>2. call' = [u \in Threads |-> call'[u]] /\ \A u \in Threads \ {t} : call'[u] = call[u]
  BY Zenon DEF removePeerFromView, IInv, Types
<1>3. d = [c EXCEPT !.todo = Tail(c.todo)]
  BY DEF removePeerFromView, IInv, Types
<1>4. p \in Peers /\ i \in ISPs /\ Tail(c.todo) \in Seq(ISPs)
  BY SMTT(20), <1>1 DEF IsRemove
<1>5. /\ view' = [j \in ISPs |-> view'[j]] /\ view'[i] = v
      /\ \A j \in ISPs \ {i} : view'[j] = view[j]
  BY <1>4 DEF removePeerFromView, IInv, Types
<1>u. UNCHANGED <<pidmap, m_peers, home, rebuilding, rebuilt, leaked>>
  BY DEF removePeerFromView
<1> HIDE DEF c, d, v, i
<1>6. d.op = "remove" /\ d.peer = p /\ IsRemove(d)
  BY <1>1, <1>3, <1>4, Zenon DEF IsRemove
<1>7. /\ ViewOK(v) /\ DOMAIN v.m_peer_to_pid = DOMAIN view[i].m_peer_to_pid \ {p}
      /\ \A m : Current(view[i], m) => Current(v, m)
  <2>1. ViewOK(view[i])
    BY <1>4 DEF IInv, ViewsOK
  <2>2. Loses(view[i], v, p)
    BY <1>4, <2>1, RemoveOK DEF v
  <2> QED
    BY <2>2 DEF Loses
<1>8. Types'
  BY <1>u, <1>2, <1>5, <1>6 DEF IInv, Types, d
<1>9. ViewsOK'
  BY <1>5, <1>7 DEF IInv, ViewsOK
<1>10. RebuiltCurrent'
  <2>1. rebuilt \subseteq ISPs
    BY DEF IInv, Types
  <2> QED
    BY <1>u, <1>5, <1>7, <2>1 DEF IInv, RebuiltCurrent
<1>11. Continues(t, p)
  BY <1>1, <1>2, <1>6 DEF Continues, Owns, c, d
<1>12. /\ OneCall' /\ \A q \in Peers : Busy(q)' <=> Busy(q)
       /\ \A u \in Threads \ {t} : ~Owns(u, p)
  BY <1>4, <1>11, ContinuesOwn
<1>13. \A j \in ISPs : \A q : q # p /\ q \in DOMAIN view[j].m_peer_to_pid
                                => q \in DOMAIN view'[j].m_peer_to_pid
  BY <1>5, <1>7
<1>14. Listed'
  <2>1. Busy(p)
    BY <1>1, BusyOwned DEF Owns, c
  <2> QED
    BY <1>u, <1>12, <1>13, <2>1 DEF IInv, Listed, Types
<1>15. \A u \in Threads \ {t} : call[u].op = "add" => call[u].peer # p
  BY <1>12 DEF Owns
<1>16. Visiting'
  <2>1. \A u \in Threads \ {t} : call[u].op = "add" /\ ToVisit(call[u], m_peers, view)
                                   => ToVisit(call[u], m_peers, view')
    BY <1>13, <1>15 DEF ToVisit
  <2> QED
    BY <1>u, <1>2, <1>6, <2>1 DEF IInv, Visiting, d
<1>17. Looked'
  <2>1. \A u \in Threads \ {t} : call[u].op = "add" /\ UpToDate(call[u], view, pidmap, rebuilt)
                                   => UpToDate(call[u], view', pidmap, rebuilt)
    <3>1. rebuilt \subseteq ISPs
      BY DEF IInv, Types
    <3> QED
      BY <1>13, <1>15, <3>1 DEF UpToDate
  <2> QED
    BY <1>u, <1>2, <1>6, <2>1 DEF IInv, Looked, d
<1> QED
  BY <1>8, <1>9, <1>10, <1>12, <1>14, <1>16, <1>17 DEF IInv

\* The peer is struck off the list, and no add is about it.
LEMMA RemoveReturnStep ==
    ASSUME IInv, NEW t \in Threads, removePeerReturn(t)
    PROVE  IInv'
<1> DEFINE c == call[t]
<1>1. IsRemove(c) /\ c.op = "remove" /\ c.peer \in Peers
  BY SMTT(20) DEF removePeerReturn, IInv, Types, IsAdd, IsSelect, IsRemove, Idle
<1>2. /\ call' = [u \in Threads |-> call'[u]] /\ call'[t] = Idle
      /\ \A u \in Threads \ {t} : call'[u] = call[u]
  BY DEF removePeerReturn, IInv, Types
<1>3. m_peers' = m_peers \ {c.peer}
  BY DEF removePeerReturn
<1>u. UNCHANGED <<pidmap, view, home, rebuilding, rebuilt, leaked>>
  BY DEF removePeerReturn
<1> HIDE DEF c
<1>4. call'[t].op = "idle"
  BY SMTT(20), <1>2 DEF Idle
<1>5. Types'
  BY <1>u, <1>2, <1>3 DEF IInv, Types
<1>6. ViewsOK' /\ RebuiltCurrent'
  BY <1>u DEF IInv, ViewsOK, RebuiltCurrent
<1>7. \A u \in Threads : \A q : Owns(u, q)' <=> u # t /\ Owns(u, q)
  BY <1>2, <1>4 DEF Owns
<1>8. \A q : Owns(t, q) <=> q = c.peer
  BY <1>1 DEF Owns, c
<1>9. OneCall'
  BY <1>7 DEF IInv, OneCall
<1>10. Listed'
  <2>1. \A q : ~Busy(q)' => q = c.peer \/ ~Busy(q)
    BY <1>7, <1>8, BusyOwned
  <2> QED
    BY <1>u, <1>3, <2>1 DEF IInv, Listed
<1>11. \A u \in Threads \ {t} : call[u].op = "add" => call[u].peer # c.peer
  BY <1>1, <1>8 DEF IInv, OneCall, Owns
<1>12. Visiting'
  <2>1. \A u \in Threads \ {t} : call[u].op = "add" /\ ToVisit(call[u], m_peers, view)
                                   => ToVisit(call[u], m_peers', view)
    BY <1>3, <1>11 DEF ToVisit
  <2> QED
    BY <1>u, <1>2, <1>4, <2>1 DEF IInv, Visiting
<1>13. Looked'
  BY <1>u, <1>2, <1>4 DEF IInv, Looked
<1> QED
  BY <1>5, <1>6, <1>9, <1>10, <1>12, <1>13 DEF IInv

\* A step of a selection: the call was about no peer and is about none.
Selects(t) ==
    /\ UNCHANGED <<pidmap, m_peers, view, home, rebuilding, rebuilt>>
    /\ call' = [u \in Threads |-> call'[u]] /\ \A u \in Threads \ {t} : call'[u] = call[u]
    /\ call[t].op \in {"idle", "select"} /\ call'[t].op \in {"idle", "select"}
    /\ call'[t] = Idle \/ IsSelect(call'[t])
    /\ leaked' \subseteq ISPs

LEMMA SelectStep ==
    ASSUME IInv, NEW t \in Threads, Selects(t)
    PROVE  IInv'
<1>1. Types'
  BY DEF IInv, Types, Selects
<1>2. ViewsOK' /\ RebuiltCurrent'
  BY DEF IInv, ViewsOK, RebuiltCurrent, Selects
<1>3. \A u \in Threads : \A q : Owns(u, q)' <=> Owns(u, q)
  BY DEF Owns, Selects
<1>4. OneCall'
  BY <1>3 DEF IInv, OneCall
<1>5. \A q : Busy(q)' <=> Busy(q)
  BY <1>3, BusyOwned
<1>6. Listed'
  BY <1>5 DEF IInv, Listed, Selects
<1>7. Visiting' /\ Looked'
  BY DEF IInv, Visiting, Looked, Selects
<1> QED
  BY <1>1, <1>2, <1>4, <1>6, <1>7 DEF IInv

LEMMA SelectionStep ==
    ASSUME IInv, NEW t \in Threads,
           \/ \E p \in Peers : selectPeers(t, p)
           \/ selectPeersLock(t)
           \/ selectPeersReturn(t)
    PROVE  IInv'
<1>1. ASSUME NEW p \in Peers, selectPeers(t, p)
      PROVE  Selects(t)
  <2>1. home[p].isp \in ISPs
    BY <1>1 DEF selectPeers, IInv, Types
  <2>2. IsSelect(call'[t])
    <3>1. call'[t] = [op |-> "select", isp |-> home[p].isp, pid |-> home[p].pid, locked |-> FALSE]
      BY <1>1 DEF selectPeers, IInv, Types
    <3> QED
      BY SMTT(20), <2>1, <3>1 DEF IsSelect
  <2>3. call[t].op = "idle" /\ call'[t].op = "select"
    <3>1. call[t] = Idle
      BY <1>1 DEF selectPeers
    <3> QED
      BY SMTT(20), <2>2, <3>1 DEF IsSelect, Idle
  <2>4. /\ UNCHANGED <<pidmap, m_peers, view, home, rebuilding, rebuilt, leaked>>
        /\ call' = [u \in Threads |-> call'[u]] /\ \A u \in Threads \ {t} : call'[u] = call[u]
    BY <1>1, Zenon DEF selectPeers, IInv, Types
  <2> QED
    BY <2>2, <2>3, <2>4 DEF IInv, Types, Selects
<1>2. ASSUME selectPeersLock(t) \/ selectPeersReturn(t)
      PROVE  IsSelect(call[t])
  BY SMTT(20), <1>2 DEF selectPeersLock, selectPeersReturn, IInv, Types, IsAdd, IsRemove, Idle
<1>3. CASE selectPeersLock(t)
  <2>1. IsSelect(call'[t])
    BY <1>2, <1>3, Zenon DEF selectPeersLock, IInv, Types, IsSelect
  <2>2. call[t].op = "select" /\ call'[t].op = "select"
    BY <1>3, <2>1 DEF selectPeersLock, IsSelect
  <2>3. /\ UNCHANGED <<pidmap, m_peers, view, home, rebuilding, rebuilt, leaked>>
        /\ call' = [u \in Threads |-> call'[u]] /\ \A u \in Threads \ {t} : call'[u] = call[u]
    BY <1>3, Zenon DEF selectPeersLock, IInv, Types
  <2> QED
    BY <2>1, <2>2, <2>3, SelectStep DEF IInv, Types, Selects
<1>4. CASE selectPeersReturn(t)
  <2>1. call[t].op = "select" /\ call[t].isp \in ISPs
    BY <1>2, <1>4 DEF IsSelect
  <2>2. /\ UNCHANGED <<pidmap, m_peers, view, home, rebuilding, rebuilt>>
        /\ call' = [u \in Threads |-> call'[u]] /\ call'[t] = Idle
        /\ \A u \in Threads \ {t} : call'[u] = call[u]
    BY <1>4 DEF selectPeersReturn, IInv, Types
  <2>3. call'[t].op = "idle"
    BY SMTT(20), <2>2 DEF Idle
  <2>4. leaked' \subseteq ISPs
    BY <1>4, <2>1 DEF selectPeersReturn, IInv, Types
  <2> QED
    BY <2>1, <2>2, <2>3, <2>4, SelectStep DEF Selects
<1> QED
  BY <1>1, <1>3, <1>4, SelectStep

\* A new PID map: the view is not rebuilt any more.
LEMMA LoadStep ==
    ASSUME IInv, NEW i \in ISPs, loadP4PInfo(i)
    PROVE  IInv'
<1>1. /\ pidmap' = [j \in ISPs |-> pidmap'[j]] /\ pidmap'[i] \in Maps[i]
      /\ \A j \in ISPs \ {i} : pidmap'[j] = pidmap[j]
  BY DEF loadP4PInfo, IInv, Types
<1>2. rebuilt' = rebuilt \ {i} /\ rebuilt \subseteq ISPs
  BY DEF loadP4PInfo, IInv, Types
<1>u. UNCHANGED <<m_peers, view, home, call, rebuilding, leaked>>
  BY DEF loadP4PInfo
<1>3. Types'
  BY <1>u, <1>1, <1>2 DEF IInv, Types
<1>4. ViewsOK' /\ RebuiltCurrent'
  BY <1>u, <1>1, <1>2 DEF IInv, ViewsOK, RebuiltCurrent
<1>5. OneCall' /\ Listed' /\ Visiting'
  BY <1>u DEF IInv, OneCall, Owns, Listed, Busy, Visiting
<1>6. Looked'
  <2>1. \A u \in Threads : UpToDate(call[u], view, pidmap, rebuilt)
                             => UpToDate(call[u], view, pidmap', rebuilt')
    BY <1>1, <1>2 DEF UpToDate
  <2> QED
    BY <1>u, <2>1 DEF IInv, Looked
<1> QED
  BY <1>3, <1>4, <1>5, <1>6 DEF IInv

\* A view that is rebuilt has every listed peer, also one that is being added.
LEMMA RebuildStep ==
    ASSUME IInv, addPeersFromManager
    PROVE  IInv'
<1> DEFINE i == rebuilding
<1>1. i \in ISPs
  BY DEF addPeersFromManager, IInv, Types
<1>2. /\ view' = [j \in ISPs |-> view'[j]] /\ view'[i] = Rebuilt(i)
      /\ \A j \in ISPs \ {i} : view'[j] = view[j]
  BY <1>1, Zenon DEF addPeersFromManager, IInv, Types
<1>3. home' = [p \in Peers |-> home'[p]] /\ \A p \in Peers : home'[p].isp \in ISPs \cup {NULL}
  BY <1>1 DEF addPeersFromManager, IInv, Types
<1>4. rebuilt' = rebuilt \cup {i} /\ rebuilding' = NULL
  BY DEF addPeersFromManager
<1>u. UNCHANGED <<pidmap, m_peers, call, leaked>>
  BY DEF addPeersFromManager
<1> HIDE DEF i
<1>5. /\ ViewOK(Rebuilt(i)) /\ Current(Rebuilt(i), pidmap[i])
      /\ DOMAIN Rebuilt(i).m_peer_to_pid = m_peers
  BY <1>1, RebuiltOK DEF IInv
<1>6. Types'
  BY <1>u, <1>1, <1>2, <1>3, <1>4 DEF IInv, Types
<1>7. ViewsOK'
  BY <1>2, <1>5 DEF IInv, ViewsOK
<1>8. RebuiltCurrent'
  <2>1. rebuilt \subseteq ISPs
    BY DEF IInv, Types
  <2> QED
    BY <1>u, <1>2, <1>4, <1>5, <2>1 DEF IInv, RebuiltCurrent
<1>9. OneCall'
  BY <1>u DEF IInv, OneCall, Owns
<1>10. \A j \in ISPs : \A q \in m_peers : q \in DOMAIN view[j].m_peer_to_pid
                                             => q \in DOMAIN view'[j].m_peer_to_pid
  BY <1>2, <1>5
<1>11. Listed'
  BY <1>u, <1>10 DEF IInv, Listed, Busy
<1>12. Visiting'
  <2>1. \A u \in Threads : ToVisit(call[u], m_peers, view) => ToVisit(call[u], m_peers, view')
    BY <1>10 DEF ToVisit
  <2> QED
    BY <1>u, <2>1 DEF IInv, Visiting
<1>13. Looked'
  <2>1. rebuilt \subseteq ISPs
    BY DEF IInv, Types
  <2>2. ASSUME NEW u \in Threads, call[u].op = "add"
        PROVE  UpToDate(call[u], view', pidmap, rebuilt')
    <3>1. call[u].peer \in m_peers /\ UpToDate(call[u], view, pidmap, rebuilt)
      BY <2>2 DEF IInv, Visiting, ToVisit, Looked
    <3> QED
      BY <1>2, <1>4, <1>5, <1>10, <2>1, <3>1 DEF UpToDate
  <2> QED
    BY <1>u, <2>2 DEF Looked
<1> QED
  BY <1>6, <1>7, <1>8, <1>9, <1>11, <1>12, <1>13 DEF IInv

LEMMA StepIInv == IInv /\ [Next]_vars => IInv'
<1> SUFFICES ASSUME IInv, [Next]_vars PROVE IInv'
  OBVIOUS
<1>1. ASSUME NEW t \in Threads, Call(t) PROVE IInv'
  BY <1>1, LookupStep, ToViewStep, CandidateStep, AddReturnStep, RemoveFromViewStep,
     RemoveReturnStep, SelectionStep DEF Call
<1>2. ASSUME NEW t \in Threads, NEW p \in Peers,
             addPeer(t, p) \/ removePeerStart(t, p) \/ selectPeers(t, p)
      PROVE  IInv'
  BY <1>2, AddPeerStep, RemoveStartStep, SelectionStep
<1>3. ASSUME NEW i \in ISPs, loadP4PInfo(i) PROVE IInv'
  BY <1>3, LoadStep
<1>4. ASSUME NEW i \in ISPs, updatePeerDistribution(i) PROVE IInv'
  BY <1>4 DEF updatePeerDistribution, IInv, Types, ViewsOK, RebuiltCurrent, OneCall, Owns,
              Listed, Busy, Visiting, Looked
<1>5. CASE addPeersFromManager
  BY <1>5, RebuildStep
<1>6. CASE UNCHANGED vars
  BY <1>6 DEF vars, IInv, Types, ViewsOK, RebuiltCurrent, OneCall, Owns, Listed, Busy,
              Visiting, Looked
<1> QED
  BY <1>1, <1>2, <1>3, <1>4, <1>5, <1>6 DEF Next

LEMMA Invariant == Spec => []IInv
BY InitIInv, StepIInv, PTL DEF Spec

-----------------------------------------------------------------------------

\* The two indexes of every view agree whatever PID maps are loaded between and during the
\* calls: removePeer() finds a peer in the set where addPeerInternal() or
\* addPeersFromManager() has put it, for any number of ISPs, PIDs and peers.
THEOREM ViewsIndexed == Spec => []IndexesAgree
<1>1. ASSUME IInv PROVE IndexesAgree
  <2>1. \A i \in ISPs : ViewOK(view[i])
    BY <1>1 DEF IInv, ViewsOK
  <2>2. \A t \in Threads : call[t].op \in {"idle", "add", "remove", "select"}
    BY SMTT(20), <1>1 DEF IInv, Types, IsAdd, IsRemove, IsSelect, Idle
  <2>3. TypeOK
    <3>1. Types
      BY <1>1 DEF IInv
    <3> QED
      BY <2>1, <2>2, <3>1 DEF Types, TypeOK, ViewOK
  <2> QED
    BY <2>1, <2>3, Zenon DEF IndexesAgree, ViewOK
<1> QED
  BY <1>1, Invariant, PTL

\* A peer whose addPeer() has returned is in the view of every ISP, and under its current PID
\* in every view rebuilt since the last PID map, although addPeer() uses a PID that was looked
\* up before any number of other threads loaded maps, rebuilt views or moved other peers.
THEOREM AddsReachEveryView == Spec => []AddedEverywhere
<1>1. ASSUME IInv PROVE AddedEverywhere
  BY <1>1 DEF IInv, Listed, RebuiltCurrent, Current, AddedEverywhere
<1> QED
  BY <1>1, Invariant, PTL

-----------------------------------------------------------------------------
(* The selection of peers from a view: PeerSelection. *)

\* The sum of f over a set, as the fold computes it: g has the sums over all subsets of S,
\* one number at a time.
Some(s) == CHOOSE x \in s : TRUE
Partial(f, g, s) == IF s = {} THEN 0 ELSE f[Some(s)] + g[s \ {Some(s)}]
Sums(f, S, g) == g = [s \in SUBSET S |-> Partial(f, g, s)]
Counts(f, S) == \A i \in S : f[i] \in Nat

\* getNumPeers(pids) in these terms.
LEMMA LeftIs ==
    ASSUME NEW S
    PROVE  Left(S) = (CHOOSE g : Sums(numPeers, S, g))[S]
BY Zenon DEF Left, SumFunctionOnSet, FoldFunctionOnSet,
    MapThenFoldSet, Sums, Partial, Some

\* A non-empty set of natural numbers has a least element.
LEMMA Least ==
    ASSUME NEW S \in SUBSET Nat, S # {}
    PROVE  \E m \in S : \A x \in S : m <= x
<1> DEFINE R == OpToRel(<, Nat)
<1>1. IsWellFoundedOn(R, Nat)
  BY NatLessThanWellFounded, Zenon
<1>2. \A x, y \in Nat : <<x, y>> \in R <=> x < y
  BY DEF OpToRel
<1> HIDE DEF R
<1>3. PICK m \in S : \A x \in S : ~(<<x, m>> \in R)
  BY <1>1, WFMin, Zenon
<1>4. ASSUME NEW x \in S PROVE m <= x
  <2>1. x \in Nat /\ m \in Nat /\ ~(x < m)
    BY <1>2, <1>3, Zenon
  <2> QED
    BY SMTT(20), <2>1
<1> QED
  BY <1>4

\* A finite set without the element that the fold takes next.
LEMMA Smaller ==
    ASSUME NEW s, IsFiniteSet(s), s # {}
    PROVE  /\ Some(s) \in s /\ IsFiniteSet(s \ {Some(s)})
           /\ Cardinality(s) \in Nat /\ Cardinality(s) # 0
           /\ Cardinality(s \ {Some(s)}) = Cardinality(s) - 1
<1>1. Some(s) \in s
  BY Zenon DEF Some
<1> QED
  BY <1>1, FS_RemoveElement, FS_CardinalityType, FS_EmptySet

\* The fold is well-defined on a finite set.
LEMMA SumsExist ==
    ASSUME NEW S, IsFiniteSet(S), NEW f, Counts(f, S)
    PROVE  \E g : Sums(f, S, g) /\ g \in [SUBSET S -> Nat]
<1> DEFINE Upto(n) == {s \in SUBSET S : Cardinality(s) <= n}
           P(n) == \E g \in [Upto(n) -> Nat] : \A s \in Upto(n) : g[s] = Partial(f, g, s)
<1>1. \A s \in SUBSET S : IsFiniteSet(s) /\ Cardinality(s) \in Nat /\ Cardinality(s) <= Cardinality(S)
  BY FS_Subset, FS_CardinalityType
<1>2. P(0)
  <2>1. \A s \in Upto(0) : s = {}
    BY SMTT(20), <1>1, FS_EmptySet
  <2> DEFINE z == [s \in Upto(0) |-> 0]
  <2>2. z \in [Upto(0) -> Nat]
    OBVIOUS
  <2>3. \A s \in Upto(0) : z[s] = Partial(f, z, s)
    BY <2>1 DEF Partial
  <2> HIDE DEF z, Upto
  <2> QED
    BY <2>2, <2>3
<1>3. ASSUME NEW n \in Nat, P(n) PROVE P(n + 1)
  <2>1. PICK g \in [Upto(n) -> Nat] : \A s \in Upto(n) : g[s] = Partial(f, g, s)
    BY <1>3
  <2> DEFINE h == [s \in Upto(n + 1) |-> Partial(f, g, s)]
  <2>2. ASSUME NEW s \in Upto(n + 1), s # {}
        PROVE  s \ {Some(s)} \in Upto(n) /\ Some(s) \in S
    <3>1. Cardinality(s \ {Some(s)}) = Cardinality(s) - 1 /\ Some(s) \in s /\ Cardinality(s) \in Nat
      BY <1>1, <2>2, Smaller
    <3> QED
      BY SMTT(20), <3>1
  <2>3. \A s \in Upto(n + 1) : Partial(f, g, s) \in Nat
    BY SMTT(20), <2>2 DEF Partial, Counts
  <2>4. \A s \in Upto(n) : s \in Upto(n + 1) /\ h[s] = g[s]
    BY SMTT(20), <1>1, <2>1
  <2>5. ASSUME NEW s \in Upto(n + 1) PROVE h[s] = Partial(f, h, s)
    <3>1. h[s] = Partial(f, g, s)
      OBVIOUS
    <3>2. s # {} => h[s \ {Some(s)}] = g[s \ {Some(s)}]
      BY <2>2, <2>4
    <3> QED
      BY <3>1, <3>2 DEF Partial
  <2>6. h \in [Upto(n + 1) -> Nat]
    BY <2>3
  <2> HIDE DEF h, Upto
  <2> QED
    BY <2>5, <2>6
<1>4. P(Cardinality(S))
  <2> DEFINE Bad == {n \in Nat : ~P(n)}
  <2> HIDE DEF P
  <2>1. SUFFICES Bad = {}
    BY FS_CardinalityType
  <2>2. SUFFICES ASSUME Bad # {} PROVE FALSE
    OBVIOUS
  <2>3. PICK m \in Bad : \A x \in Bad : m <= x
    BY <2>2, Least
  <2>4. m # 0 /\ m \in Nat /\ m - 1 \in Nat /\ m - 1 \notin Bad
    BY SMTT(20), <1>2, <2>3
  <2>5. P(m - 1)
    BY <2>4
  <2>6. P((m - 1) + 1)
    BY <1>3, <2>4, <2>5
  <2> QED
    BY SMTT(20), <2>3, <2>4, <2>6
<1>5. Upto(Cardinality(S)) = SUBSET S
  BY <1>1
<1> HIDE DEF Upto
<1>6. PICK g \in [SUBSET S -> Nat] : \A s \in SUBSET S : g[s] = Partial(f, g, s)
  BY <1>4, <1>5
<1>7. Sums(f, S, g)
  BY <1>6 DEF Sums
<1> QED
  BY <1>7

\* The number of peers left is zero just when no PID has any left.
LEMMA NoneLeft ==
    ASSUME NEW S, IsFiniteSet(S), Counts(numPeers, S)
    PROVE  /\ Left(S) \in Nat
           /\ Left(S) = 0 <=> \A i \in S : numPeers[i] = 0
<1> DEFINE g == CHOOSE g : Sums(numPeers, S, g)
           Good(s) == g[s] \in Nat /\ (g[s] = 0 <=> \A i \in s : numPeers[i] = 0)
           Bad == {s \in SUBSET S : ~Good(s)}
           Cards == {n \in Nat : \E s \in Bad : n = Cardinality(s)}
<1>1. Sums(numPeers, S, g)
  BY SumsExist, Zenon
<1>2. Left(S) = g[S]
  BY LeftIs, Zenon
<1> HIDE DEF g
<1>3. \A s \in SUBSET S : g[s] = Partial(numPeers, g, s)
  BY <1>1 DEF Sums
<1>4. \A s \in SUBSET S : IsFiniteSet(s) /\ Cardinality(s) \in Nat
  BY FS_Subset, FS_CardinalityType
<1>5. SUFFICES Bad = {}
  BY <1>2
<1>6. SUFFICES ASSUME Cards # {} PROVE FALSE
  BY <1>4
<1>7. PICK n \in Cards : \A m \in Cards : n <= m
  BY <1>6, Least
<1>8. PICK s \in Bad : n = Cardinality(s)
  BY <1>7
<1>9. s # {}
  <2>1. g[{}] = 0
    BY <1>3 DEF Partial
  <2>2. Good({})
    BY SMTT(20), <2>1
  <2> QED
    BY <1>8, <2>2
<1> DEFINE x == Some(s)
           r == s \ {x}
<1>10. x \in s /\ r \in SUBSET S /\ Cardinality(r) \in Nat /\ Cardinality(r) < n
  BY SMTT(20), <1>4, <1>8, <1>9, Smaller
<1>11. Good(r)
  BY SMTT(20), <1>7, <1>10
<1>12. g[s] = numPeers[x] + g[r] /\ numPeers[x] \in Nat
  BY <1>3, <1>8, <1>9, <1>10 DEF Partial, Counts
<1>13. (\A i \in s : numPeers[i] = 0) <=> numPeers[x] = 0 /\ \A i \in r : numPeers[i] = 0
  BY <1>10, Zenon
<1> HIDE DEF x, r
<1>14. Good(s)
  BY SMTT(20), <1>11, <1>12, <1>13
<1> QED
  BY <1>8, <1>14

\* selectPeer(pids) returns NoWeights only when no peer of pids is left.
LEMMA NoPicks ==
    ASSUME NEW S \in SUBSET Nat, IsFiniteSet(S), Counts(numPeers, S), Picks(S) = {}
    PROVE  \A i \in S : numPeers[i] = 0
<1> DEFINE A == {i \in S : numPeers[i] # 0}
<1>1. SUFFICES ASSUME A # {} PROVE FALSE
  OBVIOUS
<1>2. PICK m \in A : \A i \in A : m <= i
  BY <1>1, Least
<1> DEFINE B == {j \in S : j < m}
<1>3. IsFiniteSet(B) /\ Counts(numPeers, B) /\ \A i \in B : numPeers[i] = 0
  BY SMTT(20), <1>2, FS_Subset DEF Counts
<1>4. Left(B) = 0
  BY <1>3, NoneLeft
<1>5. Left(S) \in Nat /\ Left(S) # 0
  BY <1>2, NoneLeft
<1>6. numPeers[m] > 0
  BY SMTT(20), <1>2 DEF Counts
<1>7. m \in Picks(S)
  BY SMTT(20), <1>2, <1>4, <1>5, <1>6 DEF Picks
<1> QED
  BY <1>7

-----------------------------------------------------------------------------

\* The stages of a selection and its ends.
Stages == {"intrapid", "intraisp", "external", "random",
           "done", "unavailable", "thrown", "spinning"}

\* The view, the request and the shares that the portal's answer gave: each share is at most
\* the number asked for and, without weights, the home PID's is at most the home ISP's.
RequestOK ==
    /\ sizes = [i \in DOMAIN sizes |-> sizes[i]] /\ sizes \in Views
    /\ \A i \in DOMAIN sizes : sizes[i] \in Nat
    /\ num_total_pids \in Nat /\ num_intraisp_pids \in Nat /\ num_peers \in Nat
    /\ home_pid \in PIDs
    /\ num_intrapid \in 0..num_peers /\ num_isp \in 0..num_peers
    /\ LocationOnly => num_intrapid <= num_isp
    /\ weighted # NoWeights => weighted \subseteq PIDs

\* The helper counts the peers of each PID that it has not returned; no peer is selected
\* twice.
Counted ==
    /\ numPeers = [i \in PIDs |-> numPeers[i]]
    /\ \A i \in PIDs :
         numPeers[i] = IF i \in DOMAIN sizes THEN Cardinality(PIDPeers(i) \ drawn) ELSE -1
    /\ out_peers \subseteq drawn /\ IsFiniteSet(out_peers)
    /\ size = Cardinality(out_peers)

\* The selected peers of the home PID and of the home ISP.
HomeOut == {p \in out_peers : p[1] = home_pid}
ISPOut == {p \in out_peers : p[1] < num_intraisp_pids}

\* Location-only guidance selects peers of the home PID first, as many as their share or all;
HomeFirst ==
    /\ pc = "intrapid" => HomeOut = out_peers
    /\ pc \in {"intraisp", "external", "random", "done"} =>
         Cardinality(HomeOut) >= num_intrapid \/ PIDPeers(home_pid) \subseteq drawn

\* then peers of the home ISP up to its share, then, up to the number asked for, others.
ISPNext ==
    /\ size <= num_peers
    /\ pc \in {"intrapid", "intraisp", "external"} => Cardinality(ISPOut) <= num_isp
    /\ pc \in {"random", "done"} /\ Fresh =>
         \/ \A i \in External : PIDPeers(i) \subseteq drawn
         \/ size >= num_peers /\ Cardinality(ISPOut) <= num_isp

\* A selection ends with the number asked for or when no peer is left.
Exhausted ==
    pc = "done" /\ Fresh =>
        size = num_peers \/ \A i \in PIDs : PIDPeers(i) \subseteq drawn

\* The inductive invariant of the selection.
SelectInv ==
    /\ RequestOK /\ pc \in Stages /\ Counted /\ Exhausted
    /\ LocationOnly => HomeFirst /\ ISPNext

\* The peers of a PID are as many as the view has for it.
LEMMA PeersFinite ==
    ASSUME RequestOK, NEW i
    PROVE  /\ IsFiniteSet(PIDPeers(i))
           /\ i \in DOMAIN sizes => Cardinality(PIDPeers(i)) = sizes[i]
<1>1. CASE i \in DOMAIN sizes
  <2>1. sizes[i] \in Nat
    BY <1>1 DEF RequestOK
  <2>2. IsFiniteSet(1..sizes[i]) /\ Cardinality(1..sizes[i]) = sizes[i]
    BY SMTT(20), <2>1, FS_Interval
  <2>3. IsFiniteSet({i}) /\ Cardinality({i}) = 1
    BY FS_Singleton
  <2>4. /\ IsFiniteSet({i} \X (1..sizes[i]))
        /\ Cardinality({i} \X (1..sizes[i])) = Cardinality({i}) * Cardinality(1..sizes[i])
    BY <2>2, <2>3, FS_Product
  <2>5. PIDPeers(i) = {i} \X (1..sizes[i])
    BY <1>1 DEF PIDPeers
  <2> QED
    BY SMTT(20), <2>1, <2>2, <2>3, <2>4, <2>5
<1>2. CASE i \notin DOMAIN sizes
  BY <1>2, FS_EmptySet DEF PIDPeers
<1> QED
  BY <1>1, <1>2

\* The helper starts with the counts of the view.
LEMMA SelectInvInit == SelectionInit => SelectInv
<1> SUFFICES ASSUME SelectionInit PROVE SelectInv
  OBVIOUS
<1>1. RequestOK
  <2>1. sizes \in [0..(Cardinality(DOMAIN sizes) - 1) -> Nat]
    BY SelectionAssumption DEF SelectionInit
  <2>2. sizes = [i \in DOMAIN sizes |-> sizes[i]] /\ \A i \in DOMAIN sizes : sizes[i] \in Nat
    BY <2>1
  <2>3. weighted # NoWeights => weighted \subseteq PIDs
    BY Zenon DEF SelectionInit
  <2> QED
    BY SMTT(20), <2>2, <2>3, SelectionAssumption DEF SelectionInit, RequestOK
<1>2. Counted
  <2>1. numPeers = [i \in PIDs |-> getNumPeers(i)] /\ drawn = {} /\ out_peers = {} /\ size = 0
    BY DEF SelectionInit
  <2>2. \A i : PIDPeers(i) \ {} = PIDPeers(i)
    OBVIOUS
  <2>3. ASSUME NEW i \in PIDs
        PROVE  numPeers[i] = IF i \in DOMAIN sizes THEN Cardinality(PIDPeers(i) \ {}) ELSE -1
    BY <1>1, <2>1, <2>2, PeersFinite DEF getNumPeers
  <2> QED
    BY <2>1, <2>3, FS_EmptySet DEF Counted
<1>3. pc \in {"intrapid", "unavailable"} /\ out_peers = {} /\ size = 0
  BY DEF SelectionInit
<1>4. HomeFirst
  BY <1>3 DEF HomeFirst, HomeOut
<1>5. ISPNext
  <2>1. ISPOut = {} /\ Cardinality(ISPOut) = 0
    BY <1>3, FS_EmptySet DEF ISPOut
  <2> QED
    BY SMTT(20), <1>1, <1>3, <2>1 DEF ISPNext, RequestOK
<1> QED
  BY <1>1, <1>2, <1>3, <1>4, <1>5 DEF SelectInv, Exhausted, Stages

\* selectPeer(pid), whether its caller pushes the peer or drops it as itself, keeps the counts.
LEMMA Drawing ==
    ASSUME RequestOK, Counted, NEW pid, NEW peer, UNCHANGED request,
           selectPeer(pid, peer),
           UNCHANGED <<out_peers, size>> \/ push_back(peer)
    PROVE  /\ RequestOK' /\ Counted' /\ drawn \subseteq drawn'
           /\ peer[1] = pid
<1>1. /\ peer \in PIDPeers(pid) \ drawn /\ drawn' = drawn \cup {peer}
      /\ numPeers' = [numPeers EXCEPT ![pid] = @ - 1]
  BY DEF selectPeer
<1>2. RequestOK'
  BY DEF RequestOK, request, PIDs, LocationOnly
<1>3. UNCHANGED <<sizes, PIDs>> /\ \A i : PIDPeers(i)' = PIDPeers(i)
  BY DEF request, PIDs, PIDPeers
<1>4. pid \in DOMAIN sizes /\ \A i : peer \in PIDPeers(i) <=> i = pid
  BY <1>1 DEF PIDPeers
<1>5. peer[1] = pid
  BY <1>1, <1>4 DEF PIDPeers
<1>6. ASSUME NEW i \in PIDs
      PROVE  numPeers'[i] = IF i \in DOMAIN sizes THEN Cardinality(PIDPeers(i) \ drawn') ELSE -1
  <2>1. CASE i # pid
    <3>1. PIDPeers(i) \ drawn' = PIDPeers(i) \ drawn
      BY <1>1, <1>4, <2>1
    <3>2. numPeers'[i] = numPeers[i]
      BY <1>1, <2>1 DEF Counted
    <3> QED
      BY <3>1, <3>2 DEF Counted
  <2>2. CASE i = pid
    <3>1. PIDPeers(i) \ drawn' = (PIDPeers(i) \ drawn) \ {peer}
      BY <1>1
    <3>2. IsFiniteSet(PIDPeers(i) \ drawn)
      BY PeersFinite, FS_Subset
    <3>3. Cardinality(PIDPeers(i) \ drawn') = Cardinality(PIDPeers(i) \ drawn) - 1
      BY <1>1, <2>2, <3>1, <3>2, FS_RemoveElement
    <3>4. numPeers'[i] = numPeers[i] - 1
      BY <1>1, <2>2 DEF Counted
    <3> QED
      BY <1>4, <2>2, <3>3, <3>4 DEF Counted
  <2> QED
    BY <2>1, <2>2
<1>7. numPeers' = [i \in PIDs |-> numPeers'[i]]
  BY <1>1 DEF Counted
<1>8. out_peers' \subseteq drawn' /\ IsFiniteSet(out_peers') /\ size' = Cardinality(out_peers')
  <2>1. CASE UNCHANGED <<out_peers, size>>
    BY <1>1, <2>1 DEF Counted
  <2>2. CASE push_back(peer)
    BY <1>1, <2>2, FS_AddElement DEF Counted, push_back
  <2> QED
    BY <2>1, <2>2
<1>9. Counted'
  BY <1>3, <1>6, <1>7, <1>8 DEF Counted
<1> QED
  BY <1>1, <1>2, <1>5, <1>9

\* What a peer that is selected adds to the shares of the home PID and of the home ISP.
LEMMA Shares ==
    ASSUME Counted, Counted', NEW peer, UNCHANGED request, push_back(peer)
    PROVE  /\ Cardinality(HomeOut) <= Cardinality(HomeOut)'
           /\ Cardinality(HomeOut) \in Nat /\ Cardinality(HomeOut)' \in Nat
           /\ Cardinality(ISPOut)' <= size' /\ Cardinality(ISPOut)' \in Nat
           /\ peer[1] = home_pid /\ HomeOut = out_peers => HomeOut' = out_peers'
           /\ ~(peer[1] < num_intraisp_pids) => ISPOut' = ISPOut
           /\ size' = size + 1 /\ size \in Nat
<1>1. /\ out_peers' = out_peers \cup {peer} /\ size' = size + 1
      /\ UNCHANGED <<home_pid, num_intraisp_pids>>
  BY DEF push_back, request
<1>2. IsFiniteSet(out_peers) /\ IsFiniteSet(out_peers') /\ size' = Cardinality(out_peers') /\ size \in Nat
  BY FS_CardinalityType DEF Counted
<1>3. HomeOut \subseteq HomeOut' /\ HomeOut' \subseteq out_peers' /\ ISPOut' \subseteq out_peers'
  BY <1>1 DEF HomeOut, ISPOut
<1>4. IsFiniteSet(HomeOut') /\ IsFiniteSet(ISPOut') /\ Cardinality(ISPOut') <= size'
  BY <1>2, <1>3, FS_Subset
<1>5. IsFiniteSet(HomeOut) /\ Cardinality(HomeOut) <= Cardinality(HomeOut')
  BY <1>3, <1>4, FS_Subset
<1>6. Cardinality(HomeOut) \in Nat /\ Cardinality(HomeOut') \in Nat /\ Cardinality(ISPOut') \in Nat
  BY <1>4, <1>5, FS_CardinalityType
<1>7. peer[1] = home_pid /\ HomeOut = out_peers => HomeOut' = out_peers'
  BY <1>1 DEF HomeOut
<1>8. ~(peer[1] < num_intraisp_pids) => ISPOut' = ISPOut
  BY <1>1 DEF ISPOut
<1> QED
  BY <1>1, <1>2, <1>4, <1>5, <1>6, <1>7, <1>8

\* A step that only goes to another stage.
LEMMA Going ==
    ASSUME SelectInv, NEW stage \in Stages, goto(stage),
           stage = "done" => Exhausted',
           LocationOnly => HomeFirst' /\ ISPNext'
    PROVE  SelectInv'
<1>1. UNCHANGED <<request, numPeers, drawn, out_peers, size>> /\ pc' = stage
  BY DEF goto
<1>2. RequestOK' /\ UNCHANGED LocationOnly
  BY <1>1 DEF SelectInv, RequestOK, request, PIDs, LocationOnly
<1>3. Counted'
  BY <1>1 DEF SelectInv, Counted, request, PIDs, PIDPeers
<1>4. Exhausted'
  BY <1>1 DEF Exhausted
<1> QED
  BY <1>1, <1>2, <1>3, <1>4 DEF SelectInv

\* Nothing but the stage changes in such a step.
LEMMA SameShares ==
    ASSUME NEW stage, goto(stage)
    PROVE  /\ UNCHANGED <<HomeOut, ISPOut, Fresh, External, PIDs>>
           /\ UNCHANGED <<home_pid, num_intrapid, num_isp, num_peers, size, drawn>>
           /\ \A i : PIDPeers(i)' = PIDPeers(i)
           /\ pc' = stage
BY DEF goto, request, HomeOut, ISPOut, Fresh, External,
    PIDs, PIDPeers

\* A selectPeer() that never returns.
LEMMA SpinStep ==
    ASSUME SelectInv, NEW pid, spin(pid)
    PROVE  SelectInv'
<1>1. goto("spinning")
  BY DEF spin, goto
<1>2. LocationOnly => HomeFirst' /\ ISPNext'
  BY SMTT(20), <1>1, SameShares DEF HomeFirst, ISPNext, SelectInv
<1> QED
  BY <1>1, <1>2, Going DEF Stages

\* In a view of all the PIDs, selectPeer(pids) finds no PID only when all the peers of pids
\* were returned.
LEMMA Drained ==
    ASSUME SelectInv, Fresh, NEW S \in SUBSET PIDs, Picks(S) = {}
    PROVE  \A i \in S : PIDPeers(i) \subseteq drawn
<1>1. S \in SUBSET Nat /\ IsFiniteSet(S)
  <2>1. num_total_pids - 1 \in Int /\ PIDs = 0..(num_total_pids - 1)
    BY SMTT(20) DEF SelectInv, RequestOK, PIDs
  <2>2. IsFiniteSet(PIDs) /\ PIDs \subseteq Nat
    BY SMTT(20), <2>1, FS_Interval
  <2> QED
    BY <2>2, FS_Subset
<1>2. \A i \in S : i \in DOMAIN sizes /\ numPeers[i] = Cardinality(PIDPeers(i) \ drawn)
  <2>1. PIDs \subseteq DOMAIN sizes
    BY SMTT(20) DEF SelectInv, RequestOK, Fresh, PIDs
  <2> QED
    BY <2>1 DEF SelectInv, Counted
<1>3. \A i \in S : IsFiniteSet(PIDPeers(i) \ drawn)
  BY PeersFinite, FS_Subset DEF SelectInv
<1>4. Counts(numPeers, S)
  BY <1>2, <1>3, FS_CardinalityType DEF Counts
<1>5. \A i \in S : numPeers[i] = 0
  BY <1>1, <1>4, NoPicks
<1>6. \A i \in S : PIDPeers(i) \ drawn = {}
  BY <1>2, <1>3, <1>5, FS_EmptySet
<1> QED
  BY <1>6

\* A step that draws a peer and stays in its stage or, with weights, goes to a later one.
LEMMA DrawStep ==
    ASSUME SelectInv, NEW pid, NEW peer, UNCHANGED request,
           selectPeer(pid, peer),
           UNCHANGED <<out_peers, size>> \/ push_back(peer),
           pc' \in Stages \ {"done"},
           LocationOnly => HomeFirst' /\ ISPNext'
    PROVE  SelectInv'
<1>1. RequestOK' /\ Counted'
  BY Drawing DEF SelectInv
<1>2. UNCHANGED LocationOnly
  BY DEF request, LocationOnly
<1> QED
  BY <1>1, <1>2 DEF SelectInv, Exhausted

\* The first stage draws only from the home PID.
LEMMA IntraPIDStep == ASSUME SelectInv, intraPID PROVE SelectInv'
<1>1. pc = "intrapid"
  BY DEF intraPID
<1>2. ASSUME goto("intraisp"),
             size >= num_intrapid \/ PIDPeers(home_pid) \subseteq drawn
      PROVE  SelectInv'
  <2>1. LocationOnly => HomeFirst' /\ ISPNext'
    <3>1. UNCHANGED <<HomeOut, ISPOut, home_pid, num_intrapid, num_isp, num_peers, size, drawn>>
          /\ PIDPeers(home_pid)' = PIDPeers(home_pid) /\ pc' = "intraisp"
      BY <1>2, SameShares
    <3>2. ASSUME LocationOnly PROVE HomeFirst'
      <4>1. HomeOut = out_peers /\ size = Cardinality(out_peers)
        BY <1>1, <3>2 DEF SelectInv, HomeFirst, Counted
      <4> QED
        BY <1>2, <3>1, <4>1 DEF HomeFirst
    <3>3. ASSUME LocationOnly PROVE ISPNext'
      BY <1>1, <3>1, <3>3 DEF SelectInv, ISPNext
    <3> QED
      BY <3>2, <3>3
  <2> QED
    BY <1>2, <2>1, Going DEF Stages
<1>3. ASSUME size < num_intrapid, NEW peer, selectPeer(home_pid, peer),
             UNCHANGED <<request, pc>>,
             UNCHANGED <<out_peers, size>> \/ push_back(peer)
      PROVE  SelectInv'
  <2>1. Counted' /\ Counted /\ peer[1] = home_pid
    BY <1>3, Drawing DEF SelectInv
  <2>2. UNCHANGED <<home_pid, num_intrapid, num_isp, num_peers, num_intraisp_pids>>
    BY <1>3 DEF request
  <2>3. RequestOK
    BY DEF SelectInv
  <2>4. ASSUME LocationOnly PROVE HomeFirst' /\ ISPNext'
    <3>1. CASE UNCHANGED <<out_peers, size>>
      <4>1. UNCHANGED <<HomeOut, ISPOut>>
        BY <2>2, <3>1 DEF HomeOut, ISPOut
      <4> QED
        BY <1>1, <1>3, <2>2, <2>4, <3>1, <4>1 DEF SelectInv, HomeFirst, ISPNext
    <3>2. CASE push_back(peer)
      <4>1. /\ Cardinality(ISPOut)' <= size' /\ Cardinality(ISPOut)' \in Nat
            /\ HomeOut' = out_peers' /\ size' = size + 1 /\ size \in Nat
        BY <1>1, <1>3, <2>1, <2>4, <3>2, Shares DEF SelectInv, HomeFirst
      <4>2. num_intrapid \in Nat /\ num_isp \in Nat /\ num_peers \in Nat
            /\ num_intrapid <= num_isp /\ num_isp <= num_peers
        BY SMTT(20), <2>3, <2>4 DEF RequestOK
      <4>3. size' <= num_isp /\ size' <= num_peers /\ Cardinality(ISPOut)' <= num_isp
        BY SMTT(20), <1>3, <4>1, <4>2
      <4> QED
        BY <1>1, <1>3, <2>2, <4>1, <4>3 DEF HomeFirst, ISPNext
    <3> QED
      BY <1>3, <3>1, <3>2
  <2> QED
    BY <1>1, <1>3, <2>4, DrawStep DEF Stages
<1>4. CASE size < num_intrapid
  BY <1>2, <1>3, <1>4, SpinStep DEF intraPID, selectsNone
<1>5. CASE ~(size < num_intrapid)
  <2>1. size >= num_intrapid
    <3>1. size \in Nat /\ num_intrapid \in Nat
      BY SMTT(20), FS_CardinalityType DEF SelectInv, Counted, RequestOK
    <3> QED
      BY SMTT(20), <1>5, <3>1
  <2> QED
    BY <1>2, <1>5, <2>1 DEF intraPID
<1> QED
  BY <1>4, <1>5

\* The stages of location-only guidance that draw from several PIDs.
LEMMA DrawUntilStep ==
    ASSUME SelectInv, LocationOnly,
           NEW stage, NEW S \in SUBSET PIDs, NEW n \in Nat, NEW next,
           drawUntil(stage, S, n, next),
           \/ stage = "intraisp" /\ next = "external" /\ n = num_isp
           \/ stage = "external" /\ next = "random" /\ n = num_peers /\ S = External
    PROVE  SelectInv'
<1>1. pc = stage /\ RequestOK /\ Counted /\ HomeFirst /\ ISPNext
  BY DEF drawUntil, SelectInv
<1>2. num_isp \in Nat /\ num_peers \in Nat /\ num_isp <= num_peers /\ size \in Nat /\ num_intrapid \in Nat
  BY SMTT(20), <1>1, FS_CardinalityType DEF RequestOK, Counted
<1>3. ASSUME size < n, NEW pid \in S, NEW peer, selectPeer(pid, peer),
             push_back(peer), UNCHANGED <<request, pc>>
      PROVE  SelectInv'
  <2>1. Counted' /\ peer[1] = pid /\ drawn \subseteq drawn'
    BY <1>1, <1>3, Drawing
  <2>2. /\ Cardinality(HomeOut) <= Cardinality(HomeOut)'
        /\ Cardinality(HomeOut) \in Nat /\ Cardinality(HomeOut)' \in Nat
        /\ Cardinality(ISPOut)' <= size' /\ Cardinality(ISPOut)' \in Nat
        /\ ~(pid < num_intraisp_pids) => ISPOut' = ISPOut
        /\ size' = size + 1
    BY <1>1, <1>3, <2>1, Shares
  <2>3. /\ UNCHANGED <<home_pid, num_intrapid, num_isp, num_peers>>
        /\ PIDPeers(home_pid)' = PIDPeers(home_pid)
    BY <1>3 DEF request, PIDPeers
  <2>4. HomeFirst'
    BY SMTT(20), <1>1, <1>2, <1>3, <2>1, <2>2, <2>3 DEF HomeFirst
  <2>5. Cardinality(ISPOut)' <= num_isp
    <3>1. CASE stage = "intraisp"
      BY SMTT(20), <1>2, <1>3, <2>2, <3>1
    <3>2. CASE stage = "external" /\ S = External
      <4>1. ~(pid < num_intraisp_pids)
        BY SMTT(20), <1>1, <3>2 DEF External, PIDs, RequestOK
      <4> QED
        BY <1>1, <2>2, <3>2, <4>1 DEF ISPNext
    <3> QED
      BY <3>1, <3>2
  <2>6. ISPNext'
    BY SMTT(20), <1>1, <1>2, <1>3, <2>2, <2>3, <2>5 DEF ISPNext
  <2> QED
    BY <1>1, <1>3, <2>4, <2>6, DrawStep DEF Stages
<1>4. ASSUME goto(next), size >= n \/ Picks(S) = {}
      PROVE  SelectInv'
  <2>1. /\ UNCHANGED <<HomeOut, ISPOut, Fresh, External>>
        /\ UNCHANGED <<home_pid, num_intrapid, num_isp, num_peers, size, drawn>>
        /\ \A i : PIDPeers(i)' = PIDPeers(i)
        /\ pc' = next
    BY <1>4, SameShares
  <2>2. HomeFirst'
    BY <1>1, <2>1 DEF HomeFirst
  <2>3. stage = "external" /\ Fresh =>
          \/ \A i \in External : PIDPeers(i) \subseteq drawn
          \/ size >= num_peers /\ Cardinality(ISPOut) <= num_isp
    BY <1>1, <1>4, Drained DEF ISPNext
  <2>4. ISPNext'
    BY <1>1, <2>1, <2>3 DEF ISPNext
  <2> QED
    BY <1>4, <2>2, <2>4, Going DEF Stages
<1>5. CASE size < n /\ Picks(S) # {}
  <2>1. Picks(S) \subseteq S
    BY DEF Picks
  <2> QED
    BY <1>3, <1>5, <2>1, SpinStep DEF drawUntil
<1>6. CASE ~(size < n /\ Picks(S) # {})
  BY SMTT(20), <1>2, <1>4, <1>6 DEF drawUntil
<1> QED
  BY <1>5, <1>6

\* The stages that draw by the weights.
LEMMA FillPeersStep ==
    ASSUME SelectInv, ~LocationOnly,
           NEW stage \in {"intraisp", "external"}, NEW S, NEW n, NEW next \in {"external", "random"},
           fillPeers(stage, S, n, next)
    PROVE  SelectInv'
<1>1. CASE goto(next) \/ goto("thrown")
  BY <1>1, Going DEF Stages
<1>2. ASSUME NEW pid, NEW peer, selectPeer(pid, peer), push_back(peer),
             pc' \in {stage, next}, UNCHANGED request
      PROVE  SelectInv'
  BY <1>2, DrawStep DEF Stages
<1> DEFINE bins == Bins(S)
           end(m, left) == m >= n \/ left = 0
<1>3. CASE \E pid : \E peer \in PIDPeers(pid) :
             /\ selectPeer(pid, peer)
             /\ push_back(peer)
             /\ pc' = IF end(size + 1, Left(bins) - 1) THEN next ELSE stage
             /\ UNCHANGED request
  <2>1. PICK pid, peer : /\ selectPeer(pid, peer) /\ push_back(peer)
                         /\ pc' = IF end(size + 1, Left(bins) - 1) THEN next ELSE stage
                         /\ UNCHANGED request
    BY <1>3, Zenon
  <2> HIDE DEF end, bins
  <2> QED
    BY <1>2, <2>1
<1>4. CASE \E pid : spin(pid)
  BY <1>4, SpinStep
<1> QED
  BY <1>1, <1>3, <1>4, Zenon DEF fillPeers

\* The last stage draws from all the PIDs until the number asked for is reached.
LEMMA RandomFillStep == ASSUME SelectInv, randomFill PROVE SelectInv'
<1>1. pc = "random" /\ RequestOK /\ Counted /\ size \in Nat /\ num_peers \in Nat
      /\ PIDs \in SUBSET PIDs
  BY FS_CardinalityType DEF randomFill, SelectInv, RequestOK, Counted
<1>2. ASSUME size # num_peers, NEW pid, NEW peer, selectPeer(pid, peer),
             push_back(peer), UNCHANGED <<request, pc>>
      PROVE  SelectInv'
  <2>1. Counted' /\ drawn \subseteq drawn'
    BY <1>1, <1>2, Drawing
  <2>2. /\ Cardinality(HomeOut) <= Cardinality(HomeOut)'
        /\ Cardinality(HomeOut) \in Nat /\ Cardinality(HomeOut)' \in Nat
        /\ size' = size + 1
    BY <1>1, <1>2, <2>1, Shares
  <2>3. /\ UNCHANGED <<home_pid, num_intrapid, num_isp, num_peers, Fresh, External>>
        /\ \A i : PIDPeers(i)' = PIDPeers(i)
    BY <1>2 DEF request, PIDPeers, Fresh, External, PIDs
  <2>4. ASSUME LocationOnly PROVE HomeFirst' /\ ISPNext'
    <3>1. HomeFirst /\ ISPNext /\ num_intrapid \in Nat
      BY SMTT(20), <1>1, <2>4 DEF SelectInv, RequestOK
    <3>2. HomeFirst'
      BY SMTT(20), <1>1, <1>2, <2>1, <2>2, <2>3, <3>1 DEF HomeFirst
    <3>3. size < num_peers
      BY SMTT(20), <1>1, <1>2, <3>1 DEF ISPNext
    <3>4. ISPNext'
      BY SMTT(20), <1>1, <1>2, <2>1, <2>2, <2>3, <3>1, <3>3 DEF ISPNext
    <3> QED
      BY <3>2, <3>4
  <2> QED
    BY <1>1, <1>2, <2>4, DrawStep DEF Stages
<1>3. ASSUME goto("done"), size = num_peers \/ Picks(PIDs) = {}
      PROVE  SelectInv'
  <2>1. /\ UNCHANGED <<HomeOut, ISPOut, Fresh, External, PIDs>>
        /\ UNCHANGED <<home_pid, num_intrapid, num_isp, num_peers, size, drawn>>
        /\ \A i : PIDPeers(i)' = PIDPeers(i)
        /\ pc' = "done"
    BY <1>3, SameShares
  <2>2. Exhausted'
    BY <1>1, <1>3, <2>1, Drained DEF Exhausted
  <2>3. LocationOnly => HomeFirst' /\ ISPNext'
    BY <1>1, <2>1 DEF SelectInv, HomeFirst, ISPNext
  <2> QED
    BY <1>3, <2>2, <2>3, Going DEF Stages
<1>4. CASE size # num_peers /\ Picks(PIDs) # {}
  BY <1>2, <1>4, SpinStep DEF randomFill
<1>5. CASE ~(size # num_peers /\ Picks(PIDs) # {})
  BY <1>3, <1>5 DEF randomFill
<1> QED
  BY <1>4, <1>5

\* Every step of the selection keeps the invariant.
LEMMA SelectInvStep == SelectInv /\ [SelectionNext]_selection => SelectInv'
<1> SUFFICES ASSUME SelectInv, [SelectionNext]_selection PROVE SelectInv'
  OBVIOUS
<1>1. ASSUME intraISP PROVE SelectInv'
  <2>1. num_isp \in Nat /\ OtherIntraISP \in SUBSET PIDs
    BY SMTT(20) DEF SelectInv, RequestOK, OtherIntraISP
  <2> QED
    BY <1>1, <2>1, DrawUntilStep, FillPeersStep DEF intraISP
<1>2. ASSUME external PROVE SelectInv'
  <2>1. num_peers \in Nat /\ External \in SUBSET PIDs
    BY DEF SelectInv, RequestOK, External
  <2> QED
    BY <1>2, <2>1, DrawUntilStep, FillPeersStep DEF external
<1>3. CASE UNCHANGED selection
  <2>1. goto(pc) /\ out_peers' = out_peers
    BY <1>3 DEF selection, goto
  <2>2. /\ UNCHANGED <<HomeOut, ISPOut, Fresh, External, PIDs>>
        /\ UNCHANGED <<home_pid, num_intrapid, num_isp, num_peers, size, drawn, pc>>
        /\ \A i : PIDPeers(i)' = PIDPeers(i)
    BY <2>1, SameShares
  <2>3. Exhausted'
    BY <2>2 DEF SelectInv, Exhausted
  <2>4. LocationOnly => HomeFirst' /\ ISPNext'
    BY <2>1, <2>2 DEF SelectInv, HomeFirst, ISPNext
  <2> QED
    BY <2>1, <2>3, <2>4, Going DEF SelectInv
<1> QED
  BY <1>1, <1>2, <1>3, IntraPIDStep, RandomFillStep DEF SelectionNext

\* For every view, request and outcome of the random numbers, selectPeers() with too few peers
\* has gone through all peers of all PIDs, and has selected none twice, whether the helper
\* copies a PID or draws from it until it gets a new peer.
THEOREM SelectionsFilledUp ==
    SelectionSpec => []FilledUp
<1>1. ASSUME SelectInv PROVE FilledUp
  <2>1. RequestOK /\ pc \in Stages /\ Counted /\ Exhausted
    BY <1>1 DEF SelectInv
  <2>2. size \in Nat /\ size = Cardinality(out_peers)
    BY <2>1, FS_CardinalityType DEF Counted
  <2>3. \A i \in PIDs \cap DOMAIN sizes : numPeers[i] \in 0..sizes[i]
    <3>1. ASSUME NEW i \in PIDs \cap DOMAIN sizes PROVE numPeers[i] \in 0..sizes[i]
      <4>1. /\ IsFiniteSet(PIDPeers(i)) /\ Cardinality(PIDPeers(i)) = sizes[i]
            /\ numPeers[i] = Cardinality(PIDPeers(i) \ drawn) /\ sizes[i] \in Nat
        BY <2>1, PeersFinite DEF Counted, RequestOK
      <4>2. IsFiniteSet(PIDPeers(i) \ drawn) /\ numPeers[i] <= sizes[i]
        BY <4>1, FS_Subset
      <4> QED
        BY SMTT(20), <4>1, <4>2, FS_CardinalityType
    <3> QED
      BY <3>1
  <2>4. SelectionTypeOK
    BY <2>1, <2>2, <2>3 DEF SelectionTypeOK, RequestOK, Counted, Stages
  <2> QED
    BY SMTT(20), <2>1, <2>2, <2>4 DEF FilledUp, Exhausted
<1> QED
  BY <1>1, SelectInvInit, SelectInvStep, PTL DEF SelectionSpec

\* For every view, request and outcome of the random numbers, location-only selectPeers()
\* selects no more peers than asked for, fewer of the home PID than its share only if it has
\* no more, and more of the home ISP than its share only if no other ISP has any left.
THEOREM LocationQuotasKept ==
    SelectionSpec => []QuotasKept
<1>1. ASSUME SelectInv PROVE QuotasKept
  <2>1. SUFFICES ASSUME pc = "done", Fresh, LocationOnly
        PROVE  /\ size <= num_peers
               /\ Cardinality(HomeOut) < num_intrapid => PIDPeers(home_pid) \subseteq drawn
               /\ Cardinality(ISPOut) > num_isp
                    => \A i \in External : PIDPeers(i) \subseteq drawn
    BY DEF QuotasKept, HomeOut, ISPOut
  <2>2. RequestOK /\ Counted /\ HomeFirst /\ ISPNext
    BY <1>1, <2>1 DEF SelectInv
  <2>3. Cardinality(HomeOut) \in Nat /\ Cardinality(ISPOut) \in Nat
    <3>1. HomeOut \subseteq out_peers /\ ISPOut \subseteq out_peers /\ IsFiniteSet(out_peers)
      BY <2>2 DEF HomeOut, ISPOut, Counted
    <3> QED
      BY <3>1, FS_Subset, FS_CardinalityType
  <2> QED
    BY SMTT(20), <2>1, <2>2, <2>3 DEF HomeFirst, ISPNext, RequestOK
<1> QED
  BY <1>1, SelectInvInit, SelectInvStep, PTL DEF SelectionSpec
=============================================================================
