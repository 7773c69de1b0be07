------------------------ MODULE AnnounceSystemProofs ------------------------
(***************************************************************************)
(* Proofs about AnnounceSystem for any finite set of hosts, any announce   *)
(* lists and any number of faults.                                         *)
(***************************************************************************)
EXTENDS AnnounceSystem, FiniteSetTheorems, TLAPS

\* The provers' time limits, where a step names no prover.
USE ZenonT(20), SMTT(20)

RowT == [leechers : Int, seeders : Int, completed : Nat]

Leechers(f) == {h \in Hosts : f.peers[h] # NULL /\ f.peers[h].left}
Seeders(f) == {h \in Hosts : f.peers[h] # NULL /\ ~f.peers[h].left}

Counted(f) == f.leechers = Cardinality(Leechers(f)) /\ f.seeders = Cardinality(Seeders(f))

\* The tracker: a process that is down has no torrent; the torrent counts the peers it has;
\* its row is behind only while something says so, and never has more downloads than the
\* torrent whose fid is known.
TrackerInv ==
    /\ up \in BOOLEAN /\ (up \/ file = NULL)
    /\ row # NULL => row \in RowT
    /\ file # NULL =>
         /\ file \in File /\ Counted(file)
         /\ file.dirty \/ lost \/ row = Row(file)
         /\ row # NULL /\ file.fid => row.completed <= file.completed

\* A request and a link have their fields.
RequestFields == {"to", "act", "host", "id", "late", "event", "left"}
IsRequest(m) ==
    /\ m = [x \in RequestFields |-> m[x]]
    /\ m.to = "tracker" /\ m.host \in Hosts /\ m.left \in BOOLEAN

LinkFields ==
    {"m_state", "m_event", "m_announce_time", "mc_attempts", "m_current_tracker", "m_trackers"}
IsLink(l) == l = [x \in LinkFields |-> l[x]]

\* The completed event of a host: it waits in the link, or is on its way in a request.
Held(h) == link[h].m_event = "completed"
Sent(h) == {m \in net : m.to = "tracker" /\ m.host = h /\ m.event = "completed"}
Pending == {h \in Hosts : Held(h) \/ Sent(h) # {}}

\* There is one such event for each host at most, and only after its download.
ClientInv ==
    /\ left \subseteq Hosts
    /\ DOMAIN link = Hosts /\ \A h \in Hosts : IsLink(link[h])
    /\ \A m \in net : m.to = "tracker" => IsRequest(m)
    /\ \A h \in Hosts :
         /\ Held(h) => Sent(h) = {} /\ h \notin left
         /\ Sent(h) # {} => h \notin left
         /\ \A m, n \in Sent(h) : m = n

\* Downloads that were counted and those that may still be are downloads that there were.
Bounded ==
    \A r \in {file, row} \ {NULL} : r.completed + Cardinality(Pending) <= Cardinality(Hosts \ left)

IInv == TrackerInv /\ ClientInv /\ Bounded

-----------------------------------------------------------------------------
(* The tracker. *)

LEMMA PeersFinite ==
    ASSUME NEW f
    PROVE  /\ IsFiniteSet(Leechers(f)) /\ Cardinality(Leechers(f)) \in Nat
           /\ IsFiniteSet(Seeders(f)) /\ Cardinality(Seeders(f)) \in Nat
  <1>1. Leechers(f) \in SUBSET Hosts /\ Seeders(f) \in SUBSET Hosts
    BY DEF Leechers, Seeders
  <1> QED
    BY <1>1, HostsAssumption, FS_Subset, FS_CardinalityType

\* t_file has no peers.
LEMMA NewFile ==
    t_file \in File /\ Counted(t_file) /\ t_file.dirty /\ t_file.completed = 0 /\ ~t_file.fid
  <1>1. t_file \in File
    BY SMTT(20) DEF t_file, File
  <1>2. Leechers(t_file) = {} /\ Seeders(t_file) = {}
    BY DEF t_file, Leechers, Seeders
  <1> QED
    BY <1>1, <1>2, FS_EmptySet, Zenon DEF Counted, t_file

\* What Count adds to the two counters for a peer.
OneL(q, k) == IF q # NULL /\ q.left THEN k ELSE 0
OneS(q, k) == IF q # NULL /\ ~q.left THEN k ELSE 0

LEMMA CountEffect ==
    ASSUME NEW f \in File, NEW q \in Peer \cup {NULL}, NEW k \in Int
    PROVE  /\ Count(f, q, k) \in File
           /\ Count(f, q, k).leechers = f.leechers + OneL(q, k)
           /\ Count(f, q, k).seeders = f.seeders + OneS(q, k)
           /\ Count(f, q, k).peers = f.peers /\ Count(f, q, k).completed = f.completed
           /\ Count(f, q, k).fid = f.fid
  <1> DEFINE g == Count(f, q, k)
  <1>1. OneL(q, k) \in Int /\ OneS(q, k) \in Int /\ f.leechers \in Int /\ f.seeders \in Int
    BY SMTT(20) DEF OneL, OneS, File
  <1>2. g = [f EXCEPT !.leechers = f.leechers + OneL(q, k), !.seeders = f.seeders + OneS(q, k)]
    <2>1. CASE q = NULL
      <3>1. g = f /\ f.leechers + OneL(q, k) = f.leechers /\ f.seeders + OneS(q, k) = f.seeders
        BY SMTT(20), <1>1, <2>1 DEF Count, OneL, OneS
      <3>2. f = [f EXCEPT !.leechers = f.leechers, !.seeders = f.seeders]
        BY Zenon DEF File
      <3> QED
        BY <3>1, <3>2, Zenon
    <2>2. CASE q # NULL
      BY <2>2, Zenon DEF Count, OneL, OneS
    <2> QED
      BY <2>1, <2>2
  <1> HIDE DEF g
  <1>3. g \in File
    <2>1. ASSUME NEW x \in Int, NEW y \in Int PROVE [f EXCEPT !.leechers = x, !.seeders = y] \in File
      BY Zenon DEF File
    <2>2. f.leechers + OneL(q, k) \in Int /\ f.seeders + OneS(q, k) \in Int
      BY SMTT(20), <1>1
    <2> QED
      BY <1>2, <2>1, <2>2, Zenon
  <1>4. g.leechers = f.leechers + OneL(q, k) /\ g.seeders = f.seeders + OneS(q, k)
    BY <1>1, <1>2 DEF File
  <1>5. g.peers = f.peers /\ g.completed = f.completed
    BY <1>2 DEF File
  <1>6. g.fid = f.fid
    BY <1>2 DEF File
  <1> QED
    BY <1>3, <1>4, <1>5, <1>6, Zenon DEF g

\* One host of a set of hosts replaced by one of a set of none or one.
LEMMA Replaced ==
    ASSUME NEW A \in SUBSET Hosts, NEW B \in SUBSET Hosts, NEW h \in Hosts, B \ {h} = A \ {h}
    PROVE  Cardinality(B) = Cardinality(A) + (IF h \in A THEN -1 ELSE 0) + (IF h \in B THEN 1 ELSE 0)
  <1>1. IsFiniteSet(A) /\ IsFiniteSet(B) /\ Cardinality(A) \in Nat /\ Cardinality(B) \in Nat
    BY HostsAssumption, FS_Subset, FS_CardinalityType
  <1>2. Cardinality(A \ {h}) = IF h \in A THEN Cardinality(A) - 1 ELSE Cardinality(A)
    BY <1>1, FS_RemoveElement, Zenon
  <1>3. Cardinality(B \ {h}) = IF h \in B THEN Cardinality(B) - 1 ELSE Cardinality(B)
    BY <1>1, FS_RemoveElement, Zenon
  <1> QED
    BY SMTT(20), <1>1, <1>2, <1>3

\* insert_peer counts the host once, wherever it was counted before.
\* Torrent g is f after an announce of host h: its peer is new, or gone.
Inserted(g, f, h, ev) ==
    /\ \A i \in Hosts \ {h} : g.peers[i] = f.peers[i]
    /\ IF ev = "stopped" THEN g.peers[h] = NULL ELSE g.peers[h] # NULL /\ g.peers[h].age = 0

LEMMA InsertPeer ==
    ASSUME NEW f \in File, Counted(f), NEW h \in Hosts, NEW ev, NEW b \in BOOLEAN
    PROVE  /\ insert_peer(f, h, ev, b) \in File
           /\ Counted(insert_peer(f, h, ev, b))
           /\ insert_peer(f, h, ev, b).dirty
           /\ insert_peer(f, h, ev, b).fid = f.fid
           /\ insert_peer(f, h, ev, b).completed = f.completed + Bit(ev = "completed")
           /\ Inserted(insert_peer(f, h, ev, b), f, h, ev)
  <1> DEFINE peer == IF ev = "stopped" THEN NULL ELSE [left |-> b, age |-> 0]
             g == insert_peer(f, h, ev, b)
             c == Count(f, f.peers[h], -1)
             d == Count(c, peer, 1)
             done == Bit(ev = "completed")
  <1>1. peer \in Peer \cup {NULL} /\ f.peers[h] \in Peer \cup {NULL}
    BY SMTT(20) DEF Peer, Expiry, File
  <1>p. IF ev = "stopped" THEN peer = NULL ELSE peer # NULL /\ peer.age = 0
    <2>1. [left |-> b, age |-> 0] \in Peer
      BY SMTT(20) DEF Peer, Expiry
    <2> QED
      BY <2>1, HostsAssumption
  <1> HIDE DEF peer
  <1>2. /\ c \in File /\ c.peers = f.peers /\ c.completed = f.completed /\ c.fid = f.fid
        /\ c.leechers = f.leechers + OneL(f.peers[h], -1)
        /\ c.seeders = f.seeders + OneS(f.peers[h], -1)
    <2>1. -1 \in Int
      BY SMTT(20)
    <2> QED
      BY <1>1, <2>1, CountEffect, Zenon
  <1> HIDE DEF c
  <1>3. /\ d \in File /\ d.peers = c.peers /\ d.completed = c.completed /\ d.fid = c.fid
        /\ d.leechers = c.leechers + OneL(peer, 1)
        /\ d.seeders = c.seeders + OneS(peer, 1)
    <2>1. 1 \in Int
      BY SMTT(20)
    <2> QED
      BY <1>1, <1>2, <2>1, CountEffect, Zenon
  <1>4. g = [d EXCEPT !.peers[h] = peer, !.dirty = TRUE, !.completed = @ + done]
    BY DEF insert_peer, c, peer
  <1>5. done \in Nat
    BY DEF Bit
  <1> HIDE DEF g, d, done
  <1>6. g = [d EXCEPT !.peers = [f.peers EXCEPT ![h] = peer], !.dirty = TRUE,
                      !.completed = f.completed + done]
    BY <1>2, <1>3, <1>4
  <1>7. [f.peers EXCEPT ![h] = peer] \in [Hosts -> Peer \cup {NULL}] /\ f.completed + done \in Nat
    BY SMTT(20), <1>1, <1>5 DEF File
  <1>8. g \in File
    BY <1>3, <1>6, <1>7, Zenon DEF File
  <1>9. /\ g.peers = [f.peers EXCEPT ![h] = peer] /\ g.completed = f.completed + done
        /\ g.leechers = d.leechers /\ g.seeders = d.seeders
    BY <1>3, <1>6 DEF File
  <1>10. g.fid = d.fid /\ g.dirty
    BY <1>3, <1>6 DEF File
  <1>11. /\ \A i \in Hosts \ {h} : g.peers[i] = f.peers[i]
         /\ g.peers[h] = peer
    BY <1>9 DEF File
  <1>12. Cardinality(Leechers(g)) = Cardinality(Leechers(f)) + OneL(f.peers[h], -1) + OneL(peer, 1)
    <2>1. Leechers(g) \ {h} = Leechers(f) \ {h}
      BY SMTT(20), <1>11 DEF Leechers
    <2>2. Leechers(g) \in SUBSET Hosts /\ Leechers(f) \in SUBSET Hosts
      BY DEF Leechers
    <2>3. /\ OneL(f.peers[h], -1) = IF h \in Leechers(f) THEN -1 ELSE 0
          /\ OneL(peer, 1) = IF h \in Leechers(g) THEN 1 ELSE 0
      BY <1>11 DEF OneL, Leechers
    <2> QED
      BY SMTT(20), <2>1, <2>2, <2>3, Replaced
  <1>13. Cardinality(Seeders(g)) = Cardinality(Seeders(f)) + OneS(f.peers[h], -1) + OneS(peer, 1)
    <2>1. Seeders(g) \ {h} = Seeders(f) \ {h}
      BY <1>11 DEF Seeders
    <2>2. Seeders(g) \in SUBSET Hosts /\ Seeders(f) \in SUBSET Hosts
      BY DEF Seeders
    <2>3. /\ OneS(f.peers[h], -1) = IF h \in Seeders(f) THEN -1 ELSE 0
          /\ OneS(peer, 1) = IF h \in Seeders(g) THEN 1 ELSE 0
      BY <1>11 DEF OneS, Seeders
    <2> QED
      BY SMTT(20), <2>1, <2>2, <2>3, Replaced
  <1>14. Counted(g)
    BY SMTT(20), <1>2, <1>3, <1>9, <1>12, <1>13 DEF Counted
  <1>15. g.fid = f.fid
    BY <1>2, <1>3, <1>10, Zenon
  <1>16. Inserted(g, f, h, ev)
    BY <1>p, <1>11 DEF Inserted
  <1> QED
    BY <1>8, <1>9, <1>10, <1>14, <1>15, <1>16 DEF g, done

\* No step but an announce makes a count of downloads that there was not, and no step
\* makes the row's smaller.
Keeps ==
    /\ \A r \in {file', row'} \ {NULL} :
         r.completed = 0 \/ \E s \in {file, row} \ {NULL} : r.completed = s.completed
    /\ (row # NULL /\ row' # NULL) => row'.completed >= row.completed

LEMMA RowOf == ASSUME NEW f \in File PROVE Row(f) \in RowT /\ Row(f).completed = f.completed
  BY DEF File, RowT, Row

LEMMA CleanUp == TrackerInv /\ clean_up => TrackerInv' /\ Keeps /\ file' \in File
  <1> SUFFICES ASSUME TrackerInv, clean_up PROVE TrackerInv' /\ Keeps /\ file' \in File
    OBVIOUS
  <1> DEFINE old == expired(file)
             peers == [h \in Hosts |-> IF h \in old THEN NULL ELSE file.peers[h]]
             L == {h \in old : file.peers[h].left = TRUE}
             S == {h \in old : file.peers[h].left = FALSE}
  <1>1. /\ up /\ file # NULL /\ UNCHANGED <<up, row, lost>>
        /\ file' = [file EXCEPT !.peers = peers, !.leechers = file.leechers - Cardinality(L),
                               !.seeders = file.seeders - Cardinality(S), !.dirty = TRUE]
    BY DEF clean_up
  <1>2. file \in File /\ Counted(file) /\ file.leechers \in Int /\ file.seeders \in Int
    BY <1>1 DEF TrackerInv, File
  <1>3. peers \in [Hosts -> Peer \cup {NULL}]
    BY <1>2 DEF File
  <1>4. L = Leechers(file) \cap old /\ S = Seeders(file) \cap old
    <2>1. \A h \in old : h \in Hosts /\ file.peers[h] # NULL /\ file.peers[h] \in Peer
      BY <1>2 DEF expired, File
    <2>2. \A h \in old : file.peers[h].left \in BOOLEAN
      BY <2>1 DEF Peer
    <2> HIDE DEF old
    <2> QED
      BY <2>1, <2>2 DEF Leechers, Seeders
  <1>5. /\ Cardinality(Leechers(file) \ old) = Cardinality(Leechers(file)) - Cardinality(L)
        /\ Cardinality(Seeders(file) \ old) = Cardinality(Seeders(file)) - Cardinality(S)
    <2>1. IsFiniteSet(Leechers(file)) /\ IsFiniteSet(Seeders(file))
      BY PeersFinite
    <2> HIDE DEF old, L, S
    <2> QED
      BY <1>4, <2>1, FS_Difference, Zenon
  <1>6. Cardinality(L) \in Nat /\ Cardinality(S) \in Nat
    <2>1. L \in SUBSET Hosts /\ S \in SUBSET Hosts
      BY DEF expired
    <2> QED
      BY <2>1, HostsAssumption, FS_Subset, FS_CardinalityType
  <1> HIDE DEF old, peers, L, S
  <1>7. file' \in File
    <2>1. ASSUME NEW x \in Int, NEW y \in Int
          PROVE  [file EXCEPT !.peers = peers, !.leechers = x, !.seeders = y, !.dirty = TRUE] \in File
      BY <1>2, <1>3, Zenon DEF File
    <2>2. file.leechers - Cardinality(L) \in Int /\ file.seeders - Cardinality(S) \in Int
      BY SMTT(20), <1>2, <1>6
    <2> QED
      BY <1>1, <2>1, <2>2, Zenon
  <1>8. /\ file'.peers = peers /\ file'.completed = file.completed
        /\ file'.leechers = file.leechers - Cardinality(L) /\ file'.seeders = file.seeders - Cardinality(S)
    BY <1>1, <1>2 DEF File
  <1>9. file'.dirty /\ (file'.fid => file.fid)
    BY <1>1, <1>2 DEF File
  <1>10. Leechers(file') = Leechers(file) \ old /\ Seeders(file') = Seeders(file) \ old
    BY <1>8 DEF peers, Leechers, Seeders
  <1>11. Counted(file')
    BY <1>2, <1>5, <1>8, <1>10 DEF Counted
  <1>12. file # NULL => (row # NULL /\ file.fid => row.completed <= file.completed)
    BY DEF TrackerInv
  <1>13. row # NULL => row \in RowT
    BY DEF TrackerInv
  <1>14. TrackerInv'
    BY <1>1, <1>7, <1>8, <1>9, <1>11, <1>12, <1>13 DEF TrackerInv
  <1>15. Keeps
    <2>1. row # NULL => row.completed \in Nat
      BY <1>13 DEF RowT
    <2>2. row' = row
      BY <1>1
    <2>3. ASSUME NEW r \in {file', row'} \ {NULL}
          PROVE  \E s \in {file, row} \ {NULL} : r.completed = s.completed
      BY <1>1, <1>8, <2>2, Zenon
    <2> QED
      BY SMTT(20), <2>1, <2>2, <2>3 DEF Keeps
  <1> QED
    BY <1>7, <1>14, <1>15

LEMMA ReadFiles ==
    ASSUME TrackerInv, NEW fails, read_db_files_sql(fails), up', file = NULL \/ lost' = lost
    PROVE  TrackerInv' /\ Keeps
  <1> DEFINE deletes == ~m_auto_register /\ flagged /\ fails # "flags"
             kept == IF deletes THEN NULL ELSE file
             throws == fails = "flags" \/ (deletes /\ fails = "delete")
             gone == deletes /\ ~throws
             row1 == IF gone THEN NULL ELSE row
             resets == ~throws /\ kept = NULL /\ fails # "reset"
             row2 == IF resets /\ row1 # NULL THEN [row1 EXCEPT !.leechers = 0, !.seeders = 0] ELSE row1
             selects == ~throws /\ fails = "none" /\ (kept = NULL \/ ~m_auto_register)
  <1>1. /\ file' = IF selects /\ kept = NULL /\ row2 # NULL THEN loads(row2) ELSE kept
        /\ row' = row2
    BY DEF read_db_files_sql
  <1>2. row1 = NULL \/ (row1 = row /\ row \in RowT)
    BY DEF TrackerInv
  <1>3. row2 # NULL => row1 # NULL /\ row2 \in RowT /\ row2.completed = row.completed
    <2>1. ASSUME NEW r \in RowT
          PROVE  [r EXCEPT !.leechers = 0, !.seeders = 0] \in RowT
      <3>1. ASSUME NEW x \in Int, NEW y \in Int PROVE [r EXCEPT !.leechers = x, !.seeders = y] \in RowT
        BY Zenon DEF RowT
      <3>2. 0 \in Int
        BY SMTT(20)
      <3> QED
        BY <3>1, <3>2, Zenon
    <2>2. ASSUME NEW r \in RowT
          PROVE  [r EXCEPT !.leechers = 0, !.seeders = 0].completed = r.completed
      BY DEF RowT
    <2> QED
      BY <1>2, <2>1, <2>2, Zenon
  <1>4. CASE selects /\ kept = NULL /\ row2 # NULL
    <2>1. resets /\ row1 # NULL
      BY <1>3, <1>4
    <2>2. row2 = [row EXCEPT !.leechers = 0, !.seeders = 0] /\ row \in RowT
      BY <1>2, <2>1, Zenon
    <2> HIDE DEF row2, row1, resets, kept, selects
    <2>3. /\ file' = [t_file EXCEPT !.completed = row2.completed, !.fid = TRUE, !.dirty = FALSE]
          /\ row2.completed \in Nat
      BY <1>1, <1>3, <1>4 DEF loads, RowT
    <2>4. file' \in File
      BY <2>3, NewFile, Zenon DEF File
    <2>5. /\ file'.peers = t_file.peers /\ file'.completed = row2.completed
          /\ file'.leechers = t_file.leechers /\ file'.seeders = t_file.seeders
      BY <2>3 DEF t_file
    <2>6. Counted(file')
      BY <2>5, NewFile DEF Counted, Leechers, Seeders
    <2>7. row2 = Row(file')
      <3>1. row2 = [leechers |-> 0, seeders |-> 0, completed |-> row2.completed]
        BY <2>2, Zenon DEF RowT
      <3>2. file'.leechers = 0 /\ file'.seeders = 0
        BY <2>5 DEF t_file
      <3> QED
        BY <3>1, <3>2, <2>5 DEF Row
    <2>8. row # NULL
      BY <1>3, <1>4 DEF row1
    <2>9. TrackerInv'
      BY SMTT(20), <1>1, <1>3, <1>4, <2>3, <2>4, <2>5, <2>6, <2>7 DEF TrackerInv
    <2>10. Keeps
      <3>1. row.completed \in Nat
        BY <2>2 DEF RowT
      <3>2. row' = row2 /\ row'.completed = row.completed /\ file'.completed = row.completed
        BY <1>1, <1>3, <1>4, <2>5
      <3> QED
        BY SMTT(20), <3>1, <3>2, <2>8 DEF Keeps
    <2> QED
      BY <2>9, <2>10
  <1>5. CASE ~(selects /\ kept = NULL /\ row2 # NULL)
    <2>1. file' = NULL \/ (file' = file /\ ~deletes)
      BY <1>1, <1>5
    <2>2. file' # NULL => file' = file /\ row' = row /\ lost' = lost
      BY <1>1, <1>5, <2>1
    <2>3. row' # NULL => row' \in RowT /\ row # NULL /\ row'.completed = row.completed
      BY <1>1, <1>2, <1>3
    <2> HIDE DEF row2, row1, resets, kept, selects, deletes, throws, gone
    <2>4. TrackerInv'
      BY <2>2, <2>3 DEF TrackerInv
    <2>5. Keeps
      BY SMTT(20), <2>2, <2>3 DEF Keeps, RowT
    <2> QED
      BY <2>4, <2>5
  <1> QED
    BY <1>4, <1>5

\* A torrent that goes on as it is.
LEMMA SameTracker == TrackerInv /\ UNCHANGED <<up, file, row, lost>> => TrackerInv' /\ Keeps
  <1> SUFFICES ASSUME TrackerInv, UNCHANGED <<up, file, row, lost>> PROVE TrackerInv' /\ Keeps
    OBVIOUS
  <1>1. TrackerInv'
    BY DEF TrackerInv
  <1>2. row # NULL => row.completed \in Nat
    BY DEF TrackerInv, RowT
  <1> QED
    BY SMTT(20), <1>1, <1>2 DEF Keeps

LEMMA WriteFiles ==
    TrackerInv /\ write_files => TrackerInv' /\ Keeps /\ file' \in File /\ file'.peers = file.peers
  <1> SUFFICES ASSUME TrackerInv, write_files
               PROVE  TrackerInv' /\ Keeps /\ file' \in File /\ file'.peers = file.peers
    OBVIOUS
  <1> PICK fails \in Writing \cup {"none"} : write_db_files(file, fails)
    BY DEF write_files
  <1> DEFINE throws == ~file.fid /\ (row # NULL \/ fails = "insert")
  <1>1. up /\ up' = up /\ file # NULL /\ file.dirty
    BY DEF write_files
  <1>2. file \in File /\ Counted(file)
    BY <1>1 DEF TrackerInv
  <1>3. row # NULL => row \in RowT /\ row.completed \in Nat
    BY DEF TrackerInv, RowT
  <1>4. CASE throws
    BY <1>1, <1>2, <1>4, SameTracker DEF write_db_files
  <1>5. CASE ~throws
    <2>1. /\ file' = [file EXCEPT !.fid = TRUE, !.dirty = FALSE]
          /\ lost' = (fails = "update")
          /\ row' = IF fails # "update" THEN Row(file) ELSE IF file.fid THEN row ELSE Row(t_file)
      BY <1>1, <1>5 DEF write_db_files
    <2>2. file' \in File
      BY <1>2, <2>1, Zenon DEF File
    <2>3. /\ file'.peers = file.peers /\ file'.completed = file.completed
          /\ file'.leechers = file.leechers /\ file'.seeders = file.seeders
      BY <1>2, <2>1 DEF File
    <2>4. Counted(file') /\ Row(file') = Row(file)
      BY <1>2, <2>3 DEF Counted, Leechers, Seeders, Row
    <2>5. Row(file) \in RowT /\ Row(file).completed = file.completed /\ file.completed \in Nat
      BY <1>2, RowOf DEF File
    <2>6. Row(t_file) \in RowT /\ Row(t_file).completed = 0
      BY NewFile, RowOf
    <2>7. row' # NULL => row' \in RowT /\ row'.completed <= file.completed
      BY SMTT(20), <1>1, <1>3, <2>1, <2>5, <2>6 DEF TrackerInv
    <2>8. lost' \/ row' = Row(file')
      BY <2>1, <2>4, Zenon
    <2>9. TrackerInv'
      BY <1>1, <2>2, <2>3, <2>4, <2>7, <2>8 DEF TrackerInv
    <2>10. row' # NULL => \/ row'.completed = 0
                          \/ row'.completed = file.completed
                          \/ row' = row
      BY <2>1, <2>5, <2>6
    <2>11. row # NULL => file.fid /\ row.completed <= file.completed
      BY <1>1, <1>5 DEF TrackerInv
    <2>12. (row # NULL /\ row' # NULL) => row'.completed >= row.completed
      <3>1. ASSUME row # NULL PROVE row' = Row(file) \/ row' = row
        BY <2>1, <2>11, <3>1
      <3> QED
        BY SMTT(20), <1>3, <2>5, <2>11, <3>1
    <2>13. ASSUME NEW r \in {file', row'} \ {NULL}
           PROVE  r.completed = 0 \/ \E s \in {file, row} \ {NULL} : r.completed = s.completed
      <3>1. CASE r = file'
        BY <1>1, <2>3, <3>1
      <3>2. CASE r = row'
        BY <1>1, <2>10, <3>2
      <3> QED
        BY <3>1, <3>2
    <2> QED
      BY <2>2, <2>3, <2>9, <2>12, <2>13 DEF Keeps
  <1> QED
    BY <1>4, <1>5

\* A process that goes down, in whatever way.
LEMMA Downs == TrackerInv /\ (term \/ Down) => TrackerInv' /\ Keeps
  <1> SUFFICES ASSUME TrackerInv, term \/ Down PROVE TrackerInv' /\ Keeps
    OBVIOUS
  <1>1. up' = FALSE /\ file' = NULL
    BY DEF term, Down
  <1>2. row # NULL => row \in RowT /\ row.completed \in Nat
    BY DEF TrackerInv, RowT
  <1>3. \/ row' = row
        \/ row' = Row(file) /\ file # NULL /\ (row # NULL => file.fid)
    BY DEF term, Down
  <1>4. CASE row' = row
    <2>1. TrackerInv'
      BY <1>1, <1>2, <1>4, Zenon DEF TrackerInv
    <2> QED
      BY SMTT(20), <2>1, <1>1, <1>2, <1>4 DEF Keeps
  <1>5. CASE row' = Row(file) /\ file # NULL /\ (row # NULL => file.fid)
    <2>1. row' \in RowT /\ row'.completed = file.completed /\ file.completed \in Nat
      BY <1>5, RowOf DEF TrackerInv, File
    <2>2. row # NULL => row'.completed >= row.completed
      BY <1>2, <1>5, <2>1 DEF TrackerInv
    <2>3. TrackerInv'
      BY <1>1, <2>1, Zenon DEF TrackerInv
    <2> QED
      BY <1>1, <1>5, <2>1, <2>2, <2>3 DEF Keeps
  <1> QED
    BY <1>3, <1>4, <1>5

LEMMA TrackerTasks ==
    TrackerInv /\ (clean_up \/ read_db_files \/ write_files \/ flag \/ start \/ term \/ crash)
      => TrackerInv' /\ Keeps
  <1> SUFFICES ASSUME TrackerInv,
                      clean_up \/ read_db_files \/ write_files \/ flag \/ start \/ term \/ crash
               PROVE  TrackerInv' /\ Keeps
    OBVIOUS
  <1>1. CASE read_db_files
    <2>1. up' /\ lost' = lost /\ \E fails \in Reading \cup {"none"} : read_db_files_sql(fails)
      BY <1>1 DEF read_db_files
    <2> QED
      BY <2>1, ReadFiles
  <1>2. CASE start
    <2>1. up' /\ file = NULL /\ \E fails \in Reading \cup {"none"} : read_db_files_sql(fails)
      BY <1>2 DEF start, TrackerInv
    <2> QED
      BY <2>1, ReadFiles
  <1>3. CASE flag
    BY <1>3, SameTracker DEF flag
  <1>4. CASE term \/ crash
    BY <1>4, Downs DEF crash
  <1> QED
    BY <1>1, <1>2, <1>3, <1>4, CleanUp, WriteFiles

\* An announce: a completed event is one more download of the torrent.
LEMMA AnnounceEffect ==
    ASSUME TrackerInv, up, NEW h \in Hosts, NEW ev, NEW b \in BOOLEAN, announce(h, ev, b)
    PROVE  /\ TrackerInv' /\ file' \in File
           /\ row' = row /\ (row # NULL => row.completed \in Nat)
           /\ \/ file'.completed = Bit(ev = "completed")
              \/ file # NULL /\ file'.completed = file.completed + Bit(ev = "completed")
           /\ Inserted(file', IF file = NULL THEN t_file ELSE file, h, ev)
  <1> DEFINE f == IF file = NULL THEN t_file ELSE file
  <1>1. f \in File /\ Counted(f) /\ (row # NULL /\ f.fid => row.completed <= f.completed)
    BY NewFile DEF TrackerInv
  <1>2. file' = insert_peer(f, h, ev, b) /\ UNCHANGED <<up, row, lost>>
    BY DEF announce
  <1>3. /\ file' \in File /\ Counted(file') /\ file'.dirty /\ file'.fid = f.fid
        /\ file'.completed = f.completed + Bit(ev = "completed") /\ Inserted(file', f, h, ev)
    <2> DEFINE g == insert_peer(f, h, ev, b)
    <2> HIDE DEF f
    <2>1. /\ g \in File /\ Counted(g) /\ g.dirty /\ g.fid = f.fid
          /\ g.completed = f.completed + Bit(ev = "completed") /\ Inserted(g, f, h, ev)
      BY SMTT(20), <1>1, InsertPeer
    <2> HIDE DEF g
    <2>2. file' = g
      BY <1>2 DEF g
    <2> QED
      BY <2>1, <2>2, Zenon
  <1>4. f.completed \in Nat /\ Bit(ev = "completed") \in Nat
    BY <1>1 DEF File, Bit
  <1>5. row # NULL => row \in RowT /\ row.completed \in Nat
    BY DEF TrackerInv, RowT
  <1>6. f.completed = 0 \/ (file # NULL /\ f.completed = file.completed)
    <2>1. CASE file = NULL
      <3>1. f = t_file
        BY <2>1
      <3> QED
        BY <3>1, NewFile, Zenon
    <2>2. CASE file # NULL
      BY <2>2
    <2> QED
      BY <2>1, <2>2
  <1> HIDE DEF f
  <1>7. (row' # NULL /\ file'.fid) => row'.completed <= file'.completed
    BY SMTT(20), <1>1, <1>2, <1>3, <1>4, <1>5
  <1>8. TrackerInv'
    BY <1>2, <1>3, <1>5, <1>7 DEF TrackerInv
  <1>9. Inserted(file', IF file = NULL THEN t_file ELSE file, h, ev)
    BY <1>3 DEF f
  <1> QED
    BY SMTT(20), <1>2, <1>3, <1>4, <1>5, <1>6, <1>8, <1>9

-----------------------------------------------------------------------------
(* The clients. *)

\* Only sent() and event() touch the event of a link.
LEMMA LinkOps ==
    ASSUME NEW l, IsLink(l), NEW x
    PROVE  /\ IsLink(close(l)) /\ close(l).m_event = l.m_event
           /\ IsLink(attempt(l, x)) /\ attempt(l, x).m_event = l.m_event
           /\ IsLink(answered(l)) /\ answered(l).m_event = l.m_event
           /\ IsLink(sent(l, x)) /\ sent(l, x).m_event = "none"
           /\ IsLink([l EXCEPT !.m_state = x]) /\ [l EXCEPT !.m_state = x].m_event = l.m_event
           /\ IsLink([l EXCEPT !.m_announce_time = x])
           /\ [l EXCEPT !.m_announce_time = x].m_event = l.m_event
  <1>1. ASSUME NEW k, IsLink(k) PROVE IsLink(close(k)) /\ close(k).m_event = k.m_event
    BY <1>1, Zenon DEF IsLink, LinkFields, close
  <1>2. IsLink(attempt(l, x)) /\ attempt(l, x).m_event = l.m_event
    <2> DEFINE k(a, b, c) == [l EXCEPT !.m_announce_time = a, !.mc_attempts = b, !.m_state = c]
               n == IF l.mc_attempts < MaxAttempts THEN l.mc_attempts + 1 ELSE l.mc_attempts
               st == IF URL(l) = "http" THEN 1 ELSE 3
    <2>1. ASSUME NEW a, NEW b, NEW c PROVE IsLink(k(a, b, c)) /\ k(a, b, c).m_event = l.m_event
      BY Zenon DEF IsLink, LinkFields
    <2>2. attempt(l, x) = k(x, n, st)
      BY DEF attempt
    <2> HIDE DEF k, n, st
    <2> QED
      BY <2>1, <2>2, Zenon
  <1>3. IsLink(answered(l)) /\ answered(l).m_event = l.m_event
    <2> DEFINE k(a, b) == [l EXCEPT !.m_announce_time = a, !.mc_attempts = b]
    <2>1. ASSUME NEW a, NEW b PROVE IsLink(k(a, b)) /\ k(a, b).m_event = l.m_event
      BY Zenon DEF IsLink, LinkFields
    <2>2. answered(l) = close(k(Interval, 0))
      BY DEF answered
    <2> HIDE DEF k
    <2> QED
      BY <1>1, <2>1, <2>2, Zenon
  <1>4. IsLink(sent(l, x)) /\ sent(l, x).m_event = "none"
    <2>1. ASSUME NEW a
          PROVE  /\ IsLink([l EXCEPT !.m_event = a, !.m_state = x])
                 /\ [l EXCEPT !.m_event = a, !.m_state = x].m_event = a
      BY Zenon DEF IsLink, LinkFields
    <2> QED
      BY <2>1, Zenon DEF sent
  <1>5. IsLink([l EXCEPT !.m_state = x]) /\ [l EXCEPT !.m_state = x].m_event = l.m_event
    BY DEF IsLink, LinkFields
  <1>6. /\ IsLink([l EXCEPT !.m_announce_time = x])
        /\ [l EXCEPT !.m_announce_time = x].m_event = l.m_event
    BY DEF IsLink, LinkFields
  <1> QED
    BY <1>1, <1>2, <1>3, <1>4, <1>5, <1>6

LEMMA EventOp ==
    ASSUME NEW l, IsLink(l), NEW v PROVE IsLink(event(l, v)) /\ event(l, v).m_event = v
  <1> DEFINE k(a) == [l EXCEPT !.m_event = v, !.m_announce_time = a]
  <1>1. ASSUME NEW a PROVE IsLink(k(a)) /\ k(a).m_event = v
    BY Zenon DEF IsLink, LinkFields
  <1>2. event(l, v) = k(0)
    BY DEF event
  <1> HIDE DEF k
  <1> QED
    BY <1>1, <1>2, Zenon

LEMMA RequestShape ==
    ASSUME NEW act, NEW h \in Hosts, NEW l, NEW id
    PROVE  /\ IsRequest(Request(act, h, l, id))
           /\ Request(act, h, l, id).to = "tracker" /\ Request(act, h, l, id).host = h
           /\ Request(act, h, l, id).event = "completed" => l.m_event = "completed"
  BY DEF Request, IsRequest, RequestFields

\* A step of the clients or of the network that sends no completed event.
Quiet ==
    /\ UNCHANGED left
    /\ DOMAIN link' = Hosts
    /\ \A h \in Hosts : IsLink(link'[h]) /\ (link'[h].m_event = "completed" => Held(h))
    /\ \A m \in net' : m.to = "tracker" => IsRequest(m) /\ (m.event = "completed" => m \in net)

LEMMA QuietStep == ClientInv /\ Quiet => ClientInv' /\ Pending' \subseteq Pending
  <1> SUFFICES ASSUME ClientInv, Quiet PROVE ClientInv' /\ Pending' \subseteq Pending
    OBVIOUS
  <1>1. \A h \in Hosts : Sent(h)' \subseteq Sent(h) /\ (Held(h)' => Held(h))
    BY DEF Quiet, Sent, Held
  <1>2. Pending' \subseteq Pending
    BY <1>1 DEF Pending
  <1>3. ClientInv'
    BY <1>1 DEF ClientInv, Quiet
  <1> QED
    BY <1>2, <1>3

\* The event of a link goes out with a request.
Sending(h) ==
    /\ UNCHANGED left
    /\ \E l : IsLink(l) /\ l.m_event = "none" /\ link' = [link EXCEPT ![h] = l]
    /\ \E r : /\ net' \subseteq net \cup {r} /\ r.host = h /\ IsRequest(r)
              /\ r.event = "completed" => Held(h)

LEMMA SendingStep ==
    ASSUME ClientInv, NEW h \in Hosts, Sending(h)
    PROVE  ClientInv' /\ Pending' \subseteq Pending
  <1> PICK l : IsLink(l) /\ l.m_event = "none" /\ link' = [link EXCEPT ![h] = l]
    BY Zenon DEF Sending
  <1> PICK r : /\ net' \subseteq net \cup {r} /\ r.host = h /\ IsRequest(r)
               /\ r.event = "completed" => Held(h)
    BY DEF Sending
  <1>1. /\ DOMAIN link' = Hosts /\ link'[h] = l
        /\ \A i \in Hosts \ {h} : link'[i] = link[i]
    BY DEF ClientInv
  <1>2. \A i \in Hosts \ {h} : Sent(i)' \subseteq Sent(i) /\ (Held(i)' => Held(i))
    BY <1>1 DEF Sent, Held
  <1>3. ~Held(h)' /\ Sent(h)' \subseteq Sent(h) \cup {r}
    BY <1>1 DEF Sent, Held
  <1>4. r.event # "completed" => r \notin Sent(h)'
    BY DEF Sent
  <1>5. Held(h) => Sent(h) = {} /\ h \notin left
    BY DEF ClientInv
  <1>6. Pending' \subseteq Pending
    BY <1>2, <1>3, <1>4 DEF Pending
  <1>7. \A i \in Hosts : IsLink(link'[i])
    BY <1>1 DEF ClientInv
  <1>8. \A m \in net' : m.to = "tracker" => IsRequest(m)
    BY DEF ClientInv
  <1>9. /\ Sent(h)' # {} => h \notin left
        /\ \A m, n \in Sent(h)' : m = n
    BY SMTT(20), <1>3, <1>4, <1>5 DEF ClientInv
  <1>10. left' = left
    BY DEF Sending
  <1>11. ASSUME NEW i \in Hosts
         PROVE  /\ Held(i)' => Sent(i)' = {} /\ i \notin left'
                /\ Sent(i)' # {} => i \notin left'
                /\ \A m, n \in Sent(i)' : m = n
    <2>1. CASE i = h
      BY <2>1, <1>3, <1>9, <1>10
    <2>2. CASE i # h
      BY <2>2, <1>2, <1>10 DEF ClientInv
    <2> QED
      BY <2>1, <2>2
  <1>12. ClientInv'
    BY <1>1, <1>7, <1>8, <1>10, <1>11 DEF ClientInv
  <1> QED
    BY <1>6, <1>12

LEMMA CountsBounded ==
    ASSUME IInv, NEW s \in {file, row} \ {NULL}
    PROVE  s.completed \in Nat /\ s.completed + Cardinality(Pending) <= Cardinality(Hosts \ left)
  <1>1. \A f \in File : f.completed \in Nat
    BY DEF File
  <1>2. \A r \in RowT : r.completed \in Nat
    BY DEF RowT
  <1>3. s \in File \/ s \in RowT
    BY SMTT(20) DEF IInv, TrackerInv
  <1> QED
    BY <1>1, <1>2, <1>3 DEF IInv, Bounded

LEMMA BoundedKept ==
    ASSUME IInv, TrackerInv', Keeps, Pending' \subseteq Pending, left' = left
    PROVE  Bounded'
  <1>1. /\ Cardinality(Pending) \in Nat /\ Cardinality(Pending') \in Nat /\ Cardinality(Hosts \ left) \in Nat
        /\ Cardinality(Pending') <= Cardinality(Pending) /\ Cardinality(Pending) <= Cardinality(Hosts \ left)
    <2>1. Pending \in SUBSET (Hosts \ left)
      BY DEF IInv, ClientInv, Pending
    <2>2. IsFiniteSet(Hosts \ left) /\ IsFiniteSet(Pending)
      BY <2>1, HostsAssumption, FS_Subset
    <2> QED
      BY <2>1, <2>2, FS_Subset, FS_CardinalityType
  <1>2. \A s \in {file, row} \ {NULL} : s.completed \in Nat /\ s.completed + Cardinality(Pending) <= Cardinality(Hosts \ left)
    BY CountsBounded
  <1> SUFFICES ASSUME NEW r \in {file', row'} \ {NULL}
               PROVE  r.completed + Cardinality(Pending') <= Cardinality(Hosts \ left)
    BY DEF Bounded
  <1>3. r.completed = 0 \/ \E s \in {file, row} \ {NULL} : r.completed = s.completed
    BY DEF Keeps
  <1> QED
    BY SMTT(20), <1>1, <1>2, <1>3

RowGrows == (row # NULL /\ row' # NULL) => row'.completed >= row.completed

\* A step that leaves the tracker alone.
LEMMA ClientsOnly ==
    ASSUME IInv, UNCHANGED <<up, file, row, lost>>, ClientInv', Pending' \subseteq Pending, left' = left
    PROVE  IInv' /\ RowGrows
  <1>1. TrackerInv' /\ Keeps
    BY SameTracker DEF IInv
  <1>2. Bounded'
    BY <1>1, BoundedKept
  <1> QED
    BY <1>1, <1>2 DEF IInv, Keeps, RowGrows

\* The requests on their way are old ones or carry no completed event.
NothingCompleted == \A m \in net' : m.to = "tracker" => IsRequest(m) /\ (m.event = "completed" => m \in net)

LEMMA OneLink ==
    ASSUME IInv, UNCHANGED <<up, file, row, lost>>, UNCHANGED left, NothingCompleted,
           NEW h \in Hosts, NEW l, IsLink(l), l.m_event = "completed" => Held(h),
           link' = [link EXCEPT ![h] = l]
    PROVE  IInv' /\ RowGrows
  <1>1. /\ DOMAIN link' = Hosts /\ link'[h] = l /\ \A i \in Hosts \ {h} : link'[i] = link[i]
        /\ \A i \in Hosts : IsLink(link[i])
    BY DEF IInv, ClientInv
  <1>2. Quiet
    BY <1>1 DEF Quiet, NothingCompleted, Held
  <1> QED
    BY <1>2, QuietStep, ClientsOnly DEF IInv, Quiet

LEMMA Fewer == ASSUME IInv, net' \subseteq net PROVE NothingCompleted
  BY DEF IInv, ClientInv, NothingCompleted

LEMMA UserStep ==
    ASSUME IInv, NEW h \in Hosts, user(h)
    PROVE  IInv' /\ RowGrows
  <1>l. IsLink(link[h])
    BY DEF IInv, ClientInv
  <1>1. CASE open(h)
    <2> DEFINE l == [link[h] EXCEPT !.m_announce_time = 0]
    <2>1. IsLink(l) /\ l.m_event = link[h].m_event
      BY <1>l, LinkOps, Zenon
    <2>2. link' = [link EXCEPT ![h] = l] /\ UNCHANGED <<left, net, up, file, row, lost>>
      BY <1>1 DEF open, tracker
    <2>3. NothingCompleted
      BY <2>2, Fewer
    <2> HIDE DEF l
    <2> QED
      BY <2>1, <2>2, <2>3, OneLink, Zenon DEF Held
  <1>2. CASE Cbt_file_close(h)
    <2>1. UNCHANGED <<left, up, file, row, lost>>
      BY <1>2 DEF Cbt_file_close, tracker
    <2>2. CASE link[h].m_trackers[1] = "http"
      <3> DEFINE k == event(link[h], "stopped")
                 l == sent(k, k.m_state)
                 r == Request("stop", h, k, 0)
      <3>1. IsLink(k) /\ k.m_event = "stopped"
        BY <1>l, EventOp, Zenon
      <3>2. link' = [link EXCEPT ![h] = l] /\ net' = net \cup Sends(r)
        BY <1>2, <2>2 DEF Cbt_file_close
      <3> HIDE DEF k
      <3>3. IsLink(l) /\ l.m_event = "none"
        BY <3>1, LinkOps, Zenon
      <3>4. IsRequest(r) /\ r.event # "completed"
        BY SMTT(20), <3>1, RequestShape
      <3> HIDE DEF l, r
      <3>5. NothingCompleted
        BY <3>2, <3>4 DEF NothingCompleted, Sends, IInv, ClientInv
      <3> QED
        BY <2>1, <3>2, <3>3, <3>5, OneLink, Zenon
    <2>3. CASE link[h].m_trackers[1] # "http"
      <3>1. UNCHANGED <<link, net>>
        BY <1>2, <2>3 DEF Cbt_file_close
      <3>2. Quiet
        BY <2>1, <3>1 DEF Quiet, IInv, ClientInv, Held
      <3> QED
        BY <2>1, <3>2, QuietStep, ClientsOnly DEF IInv
    <2> QED
      BY <2>2, <2>3
  <1>3. CASE write_data(h)
    <2> DEFINE l == event(link[h], "completed")
    <2>1. /\ h \in left /\ left' = left \ {h} /\ link' = [link EXCEPT ![h] = l]
          /\ UNCHANGED <<net, up, file, row, lost>>
      BY <1>3 DEF write_data, tracker
    <2>2. IsLink(l) /\ l.m_event = "completed"
      BY <1>l, EventOp, Zenon
    <2> HIDE DEF l
    <2>3. /\ DOMAIN link' = Hosts /\ link'[h] = l /\ \A i \in Hosts \ {h} : link'[i] = link[i]
          /\ \A i \in Hosts : IsLink(link'[i])
      BY <2>1, <2>2 DEF IInv, ClientInv
    <2>4. ~Held(h) /\ Sent(h) = {} /\ h \notin Pending
      BY <2>1 DEF IInv, ClientInv, Pending
    <2>5. \A i \in Hosts : Sent(i)' = Sent(i) /\ (i # h => (Held(i)' <=> Held(i)))
      BY <2>1, <2>3 DEF Sent, Held
    <2>6. Pending' = Pending \cup {h} /\ Hosts \ left' = (Hosts \ left) \cup {h}
      <3>1. Held(h)'
        BY <2>2, <2>3 DEF Held
      <3> QED
        BY <2>1, <2>5, <3>1 DEF Pending
    <2>7. ClientInv'
      BY SMTT(20), <2>1, <2>3, <2>4, <2>5 DEF IInv, ClientInv
    <2>8. TrackerInv' /\ Keeps
      BY <2>1, SameTracker DEF IInv
    <2>9. /\ Cardinality(Pending) \in Nat /\ Cardinality(Hosts \ left) \in Nat
          /\ Cardinality(Pending') = Cardinality(Pending) + 1
          /\ Cardinality(Hosts \ left') = Cardinality(Hosts \ left) + 1
      <3>1. Pending \in SUBSET Hosts /\ Hosts \ left \in SUBSET Hosts
        BY DEF Pending
      <3>2. IsFiniteSet(Pending) /\ IsFiniteSet(Hosts \ left)
        BY <3>1, HostsAssumption, FS_Subset
      <3> QED
        BY <2>1, <2>4, <2>6, <3>2, FS_AddElement, FS_CardinalityType, Zenon
    <2>10. Bounded'
      <3>1. \A r \in {file, row} \ {NULL} : r.completed \in Nat
        BY SMTT(20) DEF IInv, TrackerInv, File, RowT
      <3> QED
        BY SMTT(20), <2>1, <2>9, <3>1 DEF IInv, Bounded
    <2> QED
      BY <2>7, <2>8, <2>10 DEF IInv, Keeps, RowGrows
  <1> QED
    BY <1>1, <1>2, <1>3 DEF user

\* The event leaves with a request, or the link forgets it.
LEMMA LinkSends ==
    ASSUME IInv, UNCHANGED <<up, file, row, lost>>, UNCHANGED left, NEW h \in Hosts,
           NEW act, NEW id, NEW x, link' = [link EXCEPT ![h] = sent(link[h], x)],
           net' \subseteq net \cup {Request(act, h, link[h], id)}
    PROVE  IInv' /\ RowGrows
  <1> DEFINE l == sent(link[h], x)
             r == Request(act, h, link[h], id)
  <1>1. IsLink(l) /\ l.m_event = "none"
    BY LinkOps, Zenon DEF IInv, ClientInv
  <1>2. IsRequest(r) /\ r.host = h /\ (r.event = "completed" => Held(h))
    BY SMTT(20), RequestShape DEF Held
  <1> HIDE DEF l, r
  <1>3. link' = [link EXCEPT ![h] = l] /\ net' \subseteq net \cup {r}
    BY DEF l, r
  <1>4. Sending(h)
    BY <1>1, <1>2, <1>3, Zenon DEF Sending
  <1>5. ClientInv' /\ Pending' \subseteq Pending
    BY <1>4, SendingStep DEF IInv
  <1> QED
    BY <1>5, ClientsOnly

LEMMA LinkFails ==
    ASSUME IInv, UNCHANGED <<up, file, row, lost>>, UNCHANGED left, NEW h \in Hosts,
           NEW l, IsLink(l), l.m_event = "completed" => Held(h), failed(h, l), net' \subseteq net
    PROVE  IInv' /\ RowGrows
  <1>1. IsLink(close(l)) /\ close(l).m_event = l.m_event
    BY LinkOps, Zenon
  <1>2. link' = [link EXCEPT ![h] = close(l)]
    BY DEF failed
  <1>3. NothingCompleted
    BY Fewer
  <1> QED
    BY <1>1, <1>2, <1>3, OneLink, Zenon

LEMMA PreSelect ==
    ASSUME IInv, NEW h \in Hosts, pre_select(h)
    PROVE  IInv' /\ RowGrows
  <1> PICK wait \in 0 .. MaxBackoff :
        LET l == attempt(link[h], wait)
        IN  \/ /\ link' = [link EXCEPT ![h] = l]
               /\ net' = net \cup (IF URL(l) = "udp" THEN Sends(Request("connect", h, l, 0)) ELSE {})
            \/ failed(h, l) /\ UNCHANGED net
            \/ UNCHANGED net /\ link' = [link EXCEPT ![h] = [l EXCEPT !.m_state = 0]]
    BY DEF pre_select
  <1> DEFINE l == attempt(link[h], wait)
             r == Request("connect", h, l, 0)
  <1>1. UNCHANGED <<left, up, file, row, lost>>
    BY DEF pre_select, tracker
  <1>2. IsLink(l) /\ l.m_event = link[h].m_event
    BY LinkOps, Zenon DEF IInv, ClientInv
  <1>3. IsRequest(r) /\ r.event = "none"
    BY RequestShape DEF Request
  <1>4. CASE /\ link' = [link EXCEPT ![h] = l]
             /\ net' = net \cup (IF URL(l) = "udp" THEN Sends(r) ELSE {})
    <2> HIDE DEF l, r
    <2>1. net' \subseteq net \cup {r}
      BY <1>4 DEF Sends
    <2>2. NothingCompleted
      BY <1>3, <2>1 DEF NothingCompleted, IInv, ClientInv
    <2> QED
      BY <1>1, <1>2, <1>4, <2>2, OneLink, Zenon DEF Held
  <1>5. CASE failed(h, l) /\ UNCHANGED net
    <2> HIDE DEF l
    <2> QED
      BY <1>1, <1>2, <1>5, LinkFails DEF Held
  <1>6. CASE UNCHANGED net /\ link' = [link EXCEPT ![h] = [l EXCEPT !.m_state = 0]]
    <2> HIDE DEF l
    <2> DEFINE k == [l EXCEPT !.m_state = 0]
    <2>1. IsLink(k) /\ k.m_event = l.m_event
      BY <1>2, LinkOps, Zenon
    <2>2. NothingCompleted /\ link' = [link EXCEPT ![h] = k]
      BY <1>6, Fewer
    <2> HIDE DEF k
    <2> QED
      BY <1>1, <1>2, <2>1, <2>2, OneLink, Zenon DEF Held
  <1> QED
    BY <1>4, <1>5, <1>6

LEMMA PostSelect ==
    ASSUME IInv, NEW h \in Hosts, connected(h) \/ recv_connect(h) \/ recv_answer(h)
    PROVE  IInv' /\ RowGrows
  <1>1. UNCHANGED <<left, up, file, row, lost>>
    BY DEF connected, recv_connect, recv_answer, tracker
  <1>2. IsLink(link[h]) /\ (link[h].m_event = "completed" => Held(h))
    BY DEF IInv, ClientInv, Held
  <1>3. ASSUME NEW x PROVE IsLink(sent(link[h], x)) /\ (sent(link[h], x).m_event = "completed" => Held(h))
    BY <1>2, LinkOps, Zenon
  <1>4. CASE connected(h)
    <2>1. CASE /\ net' = net \cup {Request("http", h, link[h], 0)}
               /\ link' = [link EXCEPT ![h] = sent(@, 2)]
      <3>1. link' = [link EXCEPT ![h] = sent(link[h], 2)]
        BY <2>1
      <3> QED
        BY <1>1, <2>1, <3>1, LinkSends, Zenon
    <2>2. CASE failed(h, sent(link[h], 1)) /\ UNCHANGED net
      BY <1>1, <1>3, <2>2, LinkFails
    <2>3. CASE failed(h, link[h]) /\ UNCHANGED net
      BY <1>1, <1>2, <2>3, LinkFails
    <2> QED
      BY <1>4, <2>1, <2>2, <2>3 DEF connected
  <1>5. CASE recv_connect(h)
    <2> PICK m \in Replies(h) :
          \/ /\ link' = [link EXCEPT ![h] = sent(@, 4)]
             /\ net' = (net \ {m}) \cup Sends(Request("announce", h, link[h], m.id))
          \/ failed(h, sent(link[h], 3)) /\ net' = net \ {m}
      BY <1>5 DEF recv_connect
    <2>1. CASE /\ link' = [link EXCEPT ![h] = sent(@, 4)]
               /\ net' = (net \ {m}) \cup Sends(Request("announce", h, link[h], m.id))
      <3>1. /\ link' = [link EXCEPT ![h] = sent(link[h], 4)]
            /\ net' \subseteq net \cup {Request("announce", h, link[h], m.id)}
        BY <2>1 DEF Sends
      <3> QED
        BY <1>1, <3>1, LinkSends, Zenon
    <2>2. CASE failed(h, sent(link[h], 3)) /\ net' = net \ {m}
      BY <1>1, <1>3, <2>2, LinkFails
    <2> QED
      BY <2>1, <2>2
  <1>6. CASE recv_answer(h)
    <2> PICK m \in Replies(h) :
          /\ net' = net \ {m}
          /\ \/ link' = [link EXCEPT ![h] = answered(@)]
             \/ failed(h, link[h])
      BY <1>6 DEF recv_answer
    <2>1. CASE link' = [link EXCEPT ![h] = answered(@)]
      <3>1. link' = [link EXCEPT ![h] = answered(link[h])]
        BY <2>1
      <3>2. IsLink(answered(link[h])) /\ answered(link[h]).m_event = link[h].m_event
        BY <1>2, LinkOps, Zenon
      <3>3. NothingCompleted
        BY Fewer
      <3> QED
        BY <1>1, <1>2, <3>1, <3>2, <3>3, OneLink, Zenon
    <2>2. CASE failed(h, link[h])
      BY <1>1, <1>2, <2>2, LinkFails
    <2> QED
      BY <2>1, <2>2
  <1> QED
    BY <1>4, <1>5, <1>6

\* An announce that is delayed is still one announce.
LEMMA Timeout ==
    ASSUME IInv, NEW h \in Hosts, timeout(h)
    PROVE  IInv' /\ RowGrows
  <1> DEFINE late(m) == [m EXCEPT !.late = TRUE]
             D == {n \in Requests(h) : n.act = "announce"}
  <1>1. /\ UNCHANGED <<left, up, file, row, lost>> /\ link' = [link EXCEPT ![h] = close(link[h])]
        /\ net' = (net \ (Replies(h) \cup Requests(h))) \cup {late(m) : m \in D}
    BY DEF timeout, failed, tracker
  <1>2. ASSUME NEW m \in D
        PROVE  /\ m \in net /\ m.to = "tracker" /\ m.host = h /\ IsRequest(late(m))
               /\ late(m).host = h /\ late(m).event = m.event
    <2>1. m \in net /\ m.to = "tracker" /\ m.host = h
      BY DEF Requests
    <2>2. IsRequest(m)
      BY <2>1 DEF IInv, ClientInv
    <2> QED
      BY <2>1, <2>2, Zenon DEF IsRequest, RequestFields
  <1>3. D \subseteq Requests(h)
    OBVIOUS
  <1> HIDE DEF late, D
  <1>4. IsLink(close(link[h])) /\ close(link[h]).m_event = link[h].m_event
    BY LinkOps, Zenon DEF IInv, ClientInv
  <1>5. /\ DOMAIN link' = Hosts
        /\ \A i \in Hosts : IsLink(link'[i]) /\ (Held(i)' <=> Held(i))
    BY <1>1, <1>4 DEF IInv, ClientInv, Held
  <1>6. \A m \in net' : m.to = "tracker" => IsRequest(m)
    BY <1>1, <1>2 DEF IInv, ClientInv
  <1>7. \A i \in Hosts \ {h} : Sent(i)' \subseteq Sent(i)
    BY <1>1, <1>2 DEF Sent
  <1>8. \A m \in Sent(h)' : \/ m \in Sent(h) \ Requests(h)
                            \/ \E n \in D : n \in Sent(h) /\ m = late(n)
    BY SMTT(20), <1>1, <1>2 DEF Sent
  <1>9. /\ Sent(h)' # {} => Sent(h) # {}
        /\ \A m, n \in Sent(h)' : m = n
    BY SMTT(20), <1>3, <1>8 DEF IInv, ClientInv
  <1>10. Pending' \subseteq Pending
    BY <1>5, <1>7, <1>9 DEF Pending
  <1>11. ASSUME NEW i \in Hosts
         PROVE  /\ Held(i)' => Sent(i)' = {} /\ i \notin left'
                /\ Sent(i)' # {} => i \notin left'
                /\ \A m, n \in Sent(i)' : m = n
    <2>1. CASE i = h
      BY <2>1, <1>1, <1>5, <1>9 DEF IInv, ClientInv
    <2>2. CASE i # h
      BY <2>2, <1>1, <1>5, <1>7 DEF IInv, ClientInv
    <2> QED
      BY <2>1, <2>2
  <1>12. ClientInv'
    BY <1>1, <1>5, <1>6, <1>11 DEF IInv, ClientInv
  <1> QED
    BY <1>1, <1>10, <1>12, ClientsOnly

-----------------------------------------------------------------------------
(* The tracker's side and the network. *)

\* A step that leaves the links alone and sends the tracker nothing.
LEMMA LinksAlone ==
    ASSUME IInv, UNCHANGED <<left, link>>, \A m \in net' : m \in net \/ m.to = "client"
    PROVE  ClientInv' /\ Pending' \subseteq Pending
  <1>1. Quiet
    BY DEF Quiet, IInv, ClientInv, Held
  <1> QED
    BY <1>1, QuietStep DEF IInv

LEMMA TaskStep ==
    ASSUME IInv, UNCHANGED <<left, link>>, \A m \in net' : m \in net \/ m.to = "client",
           TrackerInv', Keeps
    PROVE  IInv' /\ RowGrows
  <1>1. ClientInv' /\ Pending' \subseteq Pending
    BY LinksAlone
  <1>2. Bounded'
    BY <1>1, BoundedKept
  <1> QED
    BY <1>1, <1>2 DEF IInv, Keeps, RowGrows

LEMMA ResetEffect == ASSUME Reset PROVE \A m \in net' : m \in net \/ m.to = "client"
  BY SMTT(20) DEF Reset, Reply

LEMMA AnswerEffect == ASSUME NEW m, NEW ok PROVE \A n \in Answer(m, ok) : n.to = "client"
  BY SMTT(20) DEF Answer, Reply

\* An announce that the tracker counts uses up the event it carries.
LEMMA AnnounceStep ==
    ASSUME IInv, up, NEW m \in net, m.to = "tracker", UNCHANGED <<left, link>>,
           announce(m.host, m.event, m.left), net' = (net \ {m}) \cup Answer(m, TRUE)
    PROVE  IInv' /\ RowGrows
  <1> DEFINE h == m.host
             one == Bit(m.event = "completed")
  <1>1. h \in Hosts /\ m.left \in BOOLEAN
    BY DEF IInv, ClientInv, IsRequest
  <1>2. /\ TrackerInv' /\ row' = row /\ (row # NULL => row.completed \in Nat)
        /\ \/ file'.completed = one
           \/ file # NULL /\ file'.completed = file.completed + one
    BY SMTT(20), <1>1, AnnounceEffect DEF IInv
  <1>3. ClientInv' /\ Pending' \subseteq Pending
    <2>1. \A n \in net' : n \in net \/ n.to = "client"
      BY AnswerEffect, Zenon
    <2> QED
      BY <2>1, LinksAlone, Zenon
  <1>4. m.event = "completed" => h \in Pending /\ h \notin Pending'
    <2> SUFFICES ASSUME m.event = "completed" PROVE h \in Pending /\ h \notin Pending'
      OBVIOUS
    <2>1. m \in Sent(h)
      BY DEF Sent
    <2>2. ~Held(h) /\ Sent(h) = {m} /\ h \in Pending
      BY SMTT(20), <1>1, <2>1 DEF IInv, ClientInv, Pending
    <2>3. Sent(h)' \subseteq Sent(h) \ {m}
      BY AnswerEffect, Zenon DEF Sent
    <2>4. ~Held(h)'
      BY <2>2 DEF Held
    <2> QED
      BY <2>2, <2>3, <2>4 DEF Pending
  <1>5. /\ Cardinality(Pending) \in Nat /\ Cardinality(Pending') \in Nat
        /\ Cardinality(Hosts \ left) \in Nat
        /\ Cardinality(Pending') + one <= Cardinality(Pending)
        /\ Cardinality(Pending) <= Cardinality(Hosts \ left)
        /\ one \in Nat
    <2>1. Pending \in SUBSET (Hosts \ left) /\ Pending' \in SUBSET Pending
      BY <1>3 DEF IInv, ClientInv, Pending
    <2>2. IsFiniteSet(Hosts \ left) /\ IsFiniteSet(Pending) /\ IsFiniteSet(Pending')
      BY <2>1, HostsAssumption, FS_Subset
    <2>3. /\ Cardinality(Pending) \in Nat /\ Cardinality(Pending') \in Nat
          /\ Cardinality(Hosts \ left) \in Nat /\ Cardinality(Pending) <= Cardinality(Hosts \ left)
          /\ Cardinality(Pending') <= Cardinality(Pending)
      BY <2>1, <2>2, FS_Subset, FS_CardinalityType
    <2>4. CASE m.event = "completed"
      <3>1. Pending' \in SUBSET (Pending \ {h}) /\ h \in Pending
        BY <1>3, <1>4, <2>4
      <3>2. IsFiniteSet(Pending \ {h}) /\ Cardinality(Pending \ {h}) = Cardinality(Pending) - 1
        BY <2>2, <3>1, FS_RemoveElement, Zenon
      <3>3. Cardinality(Pending') <= Cardinality(Pending \ {h})
        BY <3>1, <3>2, FS_Subset
      <3>4. one = 1
        BY <2>4 DEF Bit
      <3> QED
        BY SMTT(20), <2>3, <3>2, <3>3, <3>4
    <2>5. CASE m.event # "completed"
      <3>1. one = 0
        BY <2>5 DEF Bit
      <3> QED
        BY SMTT(20), <2>3, <3>1
    <2> QED
      BY <2>4, <2>5
  <1> HIDE DEF one
  <1>6. \A s \in {file, row} \ {NULL} :
          s.completed \in Nat /\ s.completed + Cardinality(Pending) <= Cardinality(Hosts \ left)
    BY CountsBounded
  <1>7. ASSUME NEW r \in {file', row'} \ {NULL}
        PROVE  r.completed + Cardinality(Pending') <= Cardinality(Hosts \ left)
    <2>1. CASE r = row'
      BY SMTT(20), <1>2, <1>5, <1>6, <2>1
    <2>2. CASE r = file' /\ file'.completed = one
      BY SMTT(20), <1>5, <2>2
    <2>3. CASE r = file' /\ file # NULL /\ file'.completed = file.completed + one
      BY SMTT(20), <1>5, <1>6, <2>3
    <2> QED
      BY <1>2, <2>1, <2>2, <2>3
  <1>8. Bounded'
    BY <1>7 DEF Bounded
  <1>9. RowGrows
    BY SMTT(20), <1>2 DEF RowGrows
  <1> QED
    BY <1>2, <1>3, <1>8, <1>9 DEF IInv

LEMMA RecvStep ==
    ASSUME IInv, NEW m \in net, recv(m)
    PROVE  IInv' /\ RowGrows
  <1>1. up /\ m.to = "tracker" /\ UNCHANGED <<left, link>>
    BY DEF recv
  <1>2. CASE /\ UNCHANGED tracker
             /\ \/ net' = net \ {m}
                \/ \E ok \in BOOLEAN : net' = (net \ {m}) \cup Answer(m, ok)
    <2>1. \A n \in net' : n \in net \/ n.to = "client"
      BY <1>2, AnswerEffect
    <2>2. UNCHANGED <<up, file, row, lost>>
      BY <1>2 DEF tracker
    <2>3. TrackerInv' /\ Keeps
      BY <2>2, SameTracker DEF IInv
    <2> QED
      BY <1>1, <2>1, <2>3, TaskStep
  <1>3. CASE announce(m.host, m.event, m.left) /\ net' = (net \ {m}) \cup Answer(m, TRUE)
    BY <1>1, <1>3, AnnounceStep, Zenon
  <1>4. CASE select_peers_crashes(m.event) /\ Reset
    <2>1. TrackerInv' /\ Keeps
      BY <1>4, Downs DEF select_peers_crashes, IInv
    <2> QED
      BY <1>1, <1>4, <2>1, ResetEffect, TaskStep
  <1> QED
    BY <1>2, <1>3, <1>4, Zenon DEF recv

\* Half an interval: the peers are older, and as many.
LEMMA TickStep == IInv /\ tick => IInv' /\ RowGrows
  <1> SUFFICES ASSUME IInv, tick PROVE IInv' /\ RowGrows
    OBVIOUS
  <1> DEFINE peers == [h \in Hosts |-> older(file.peers[h])]
  <1>1. /\ UNCHANGED <<left, net, up, row, lost>>
        /\ link' = [h \in Hosts |-> [link[h] EXCEPT !.m_announce_time = IF @ = 0 THEN 0 ELSE @ - 1]]
        /\ file' = IF file = NULL THEN NULL ELSE [file EXCEPT !.peers = peers]
    BY DEF tick
  <1>2. \A h \in Hosts : IsLink(link'[h]) /\ link'[h].m_event = link[h].m_event
    <2> TAKE h \in Hosts
    <2>1. PICK x : link'[h] = [link[h] EXCEPT !.m_announce_time = x]
      BY <1>1, Zenon
    <2>2. IsLink(link[h])
      BY DEF IInv, ClientInv
    <2>3. /\ IsLink([link[h] EXCEPT !.m_announce_time = x])
          /\ [link[h] EXCEPT !.m_announce_time = x].m_event = link[h].m_event
      BY <2>2, LinkOps, Zenon
    <2> QED
      BY <2>1, <2>3, Zenon
  <1>3. Quiet
    BY <1>1, <1>2 DEF Quiet, IInv, ClientInv, Held
  <1>4. ClientInv' /\ Pending' \subseteq Pending
    BY <1>3, QuietStep DEF IInv
  <1>5. TrackerInv' /\ Keeps
    <2>1. CASE file = NULL
      BY <1>1, <2>1, SameTracker DEF IInv
    <2>2. CASE file # NULL
      <3>1. file \in File /\ Counted(file)
        BY <2>2 DEF IInv, TrackerInv
      <3>2. ASSUME NEW q \in Peer \cup {NULL}
            PROVE  /\ older(q) \in Peer \cup {NULL}
                   /\ older(q) = NULL <=> q = NULL
                   /\ q # NULL => (older(q).left <=> q.left)
        BY SMTT(20), HostsAssumption DEF Peer, Expiry, older
      <3>3. file.peers \in [Hosts -> Peer \cup {NULL}]
        BY <3>1 DEF File
      <3>4. peers \in [Hosts -> Peer \cup {NULL}]
        BY <3>2, <3>3
      <3>5. \A h \in Hosts :
              /\ peers[h] = NULL <=> file.peers[h] = NULL
              /\ file.peers[h] # NULL => (peers[h].left <=> file.peers[h].left)
        BY <3>2, <3>3
      <3> HIDE DEF peers
      <3>6. file' = [file EXCEPT !.peers = peers] /\ file' \in File
        BY <1>1, <2>2, <3>1, <3>4 DEF File
      <3>7. /\ file'.peers = peers /\ file'.completed = file.completed
            /\ file'.leechers = file.leechers /\ file'.seeders = file.seeders
        BY <3>1, <3>6 DEF File
      <3>8. (file'.dirty <=> file.dirty) /\ (file'.fid <=> file.fid)
        BY <3>1, <3>6 DEF File
      <3>9. Leechers(file') = Leechers(file) /\ Seeders(file') = Seeders(file)
        <4>1. \A h \in Hosts :
                /\ (file'.peers[h] # NULL /\ file'.peers[h].left) <=> (file.peers[h] # NULL /\ file.peers[h].left)
                /\ (file'.peers[h] # NULL /\ ~file'.peers[h].left) <=> (file.peers[h] # NULL /\ ~file.peers[h].left)
          BY <3>5, <3>7, Zenon
        <4> QED
          BY <4>1 DEF Leechers, Seeders
      <3>10. Counted(file') /\ Row(file') = Row(file)
        BY <3>1, <3>7, <3>9 DEF Counted, Row
      <3>11. TrackerInv'
        BY <1>1, <2>2, <3>6, <3>7, <3>8, <3>10 DEF IInv, TrackerInv
      <3>12. row # NULL => row.completed \in Nat
        BY DEF IInv, TrackerInv, RowT
      <3>13. ASSUME NEW r \in {file', row'} \ {NULL}
             PROVE  \E s \in {file, row} \ {NULL} : r.completed = s.completed
        BY <1>1, <2>2, <3>7, Zenon
      <3>14. Keeps
        BY SMTT(20), <1>1, <3>12, <3>13 DEF Keeps
      <3> QED
        BY <3>11, <3>14
    <2> QED
      BY <2>1, <2>2
  <1>6. Bounded'
    BY <1>1, <1>4, <1>5, BoundedKept
  <1> QED
    BY <1>4, <1>5, <1>6 DEF IInv, Keeps, RowGrows

LEMMA InitIInv == SysInit => IInv
  <1> SUFFICES ASSUME SysInit PROVE IInv
    OBVIOUS
  <1>1. TrackerInv
    <2>1. Row(t_file) \in RowT
      BY NewFile, RowOf
    <2> QED
      BY <2>1, Zenon DEF SysInit, Init, TrackerInv
  <1>2. /\ DOMAIN link = Hosts
        /\ \A h \in Hosts : IsLink(link[h]) /\ link[h].m_event = "started"
    <2>1. ASSUME NEW list
          PROVE  IsLink(Cbt_tracker_link(list)) /\ Cbt_tracker_link(list).m_event = "started"
      BY DEF IsLink, LinkFields, Cbt_tracker_link
    <2> QED
      BY <2>1 DEF SysInit
  <1>3. \A h \in Hosts : ~Held(h) /\ Sent(h) = {}
    BY <1>2 DEF SysInit, Held, Sent
  <1>4. ClientInv
    BY <1>2, <1>3 DEF SysInit, ClientInv
  <1>5. Bounded
    <2>1. Pending = {} /\ Hosts \ left = {}
      BY <1>3 DEF Pending, SysInit
    <2>2. file = NULL /\ (row # NULL => row.completed = 0)
      BY NewFile, RowOf DEF SysInit, Init
    <2> QED
      BY SMTT(20), <2>1, <2>2, FS_EmptySet DEF Bounded
  <1> QED
    BY <1>1, <1>4, <1>5 DEF IInv

LEMMA StepIInv == IInv /\ [Next]_vars => IInv' /\ RowGrows
  <1> SUFFICES ASSUME IInv, [Next]_vars PROVE IInv' /\ RowGrows
    OBVIOUS
  <1>1. ASSUME NEW h \in Hosts, select_loop(h) \/ user(h) PROVE IInv' /\ RowGrows
    BY <1>1, UserStep, PreSelect, PostSelect, Timeout DEF select_loop
  <1>2. ASSUME NEW m \in net, recv(m) PROVE IInv' /\ RowGrows
    BY <1>2, RecvStep
  <1>3. ASSUME NEW m \in net, lose(m) PROVE IInv' /\ RowGrows
    <2>1. UNCHANGED <<left, link, up, file, row, lost>> /\ net' \subseteq net
      BY <1>3 DEF lose, tracker
    <2>2. TrackerInv' /\ Keeps
      BY <2>1, SameTracker DEF IInv
    <2> QED
      BY <2>1, <2>2, TaskStep
  <1>4. CASE tasks
    <2>1. UNCHANGED <<left, link, net>>
      BY <1>4 DEF tasks, clients
    <2>2. TrackerInv' /\ Keeps
      BY <1>4, TrackerTasks DEF tasks, IInv
    <2> QED
      BY <2>1, <2>2, TaskStep
  <1>5. CASE down
    <2>1. TrackerInv' /\ Keeps
      BY <1>5, TrackerTasks DEF down, IInv
    <2>2. UNCHANGED <<left, link>> /\ Reset
      BY <1>5 DEF down
    <2> QED
      BY <2>1, <2>2, ResetEffect, TaskStep
  <1>6. CASE UNCHANGED vars
    <2>1. UNCHANGED <<left, link, net, up, file, row, lost>>
      BY <1>6 DEF vars, tracker, clients
    <2>2. TrackerInv' /\ Keeps
      BY <2>1, SameTracker DEF IInv
    <2> QED
      BY <2>1, <2>2, TaskStep
  <1> QED
    BY <1>1, <1>2, <1>3, <1>4, <1>5, <1>6, TickStep DEF Next

\* insert_peer, clean_up, write_db_files: the counters are those of the peers, and the row
\* shows them or is known not to, for any number of hosts, faults and restarts.
THEOREM CountersAgree == Spec => []CountsAgree
  <1>1. IInv => CountsAgree
    <2> SUFFICES ASSUME IInv, up, file # NULL
                 PROVE  /\ file.leechers = Cardinality(Peers(TRUE))
                        /\ file.seeders = Cardinality(Peers(FALSE))
                        /\ (file.dirty \/ lost \/ row = Row(file))
      BY Zenon DEF CountsAgree
    <2>1. file \in File /\ Counted(file) /\ (file.dirty \/ lost \/ row = Row(file))
      BY DEF IInv, TrackerInv
    <2>2. \A h \in Hosts : file.peers[h] # NULL => file.peers[h].left \in BOOLEAN
      BY <2>1 DEF File, Peer
    <2>3. Peers(TRUE) = Leechers(file) /\ Peers(FALSE) = Seeders(file)
      BY <2>2 DEF Peers, Leechers, Seeders
    <2> QED
      BY <2>1, <2>3, Zenon DEF Counted
  <1> QED
    BY InitIInv, StepIInv, <1>1, PTL DEF Spec

\* write_data, sent, insert_peer, read_db_files, write_db_files: no download is counted
\* twice, by the tracker or in the row, and the row's count never goes back.
THEOREM DownloadsCountedOnce == Spec => DownloadsCounted
  <1> DEFINE A == /\ \A r \in {file', row'} \ {NULL} : r.completed <= Cardinality(Hosts \ left')
                  /\ (row # NULL /\ row' # NULL) => row'.completed >= row.completed
  <1>1. IInv /\ [Next]_vars => IInv' /\ [A]_vars
    <2> SUFFICES ASSUME IInv, [Next]_vars PROVE IInv' /\ A
      OBVIOUS
    <2>1. IInv' /\ RowGrows
      BY StepIInv
    <2>2. Cardinality(Pending') \in Nat /\ Cardinality(Hosts \ left') \in Nat
      <3>1. Pending' \in SUBSET Hosts /\ Hosts \ left' \in SUBSET Hosts
        BY DEF Pending
      <3> QED
        BY <3>1, HostsAssumption, FS_Subset, FS_CardinalityType
    <2>3. \A r \in {file', row'} \ {NULL} : r.completed \in Nat
      BY SMTT(20), <2>1 DEF IInv, TrackerInv, File, RowT
    <2>4. \A r \in {file', row'} \ {NULL} : r.completed <= Cardinality(Hosts \ left')
      BY SMTT(20), <2>1, <2>2, <2>3 DEF IInv, Bounded
    <2> QED
      BY <2>1, <2>4 DEF RowGrows
  <1> QED
    BY InitIInv, <1>1, PTL DEF Spec, DownloadsCounted

-----------------------------------------------------------------------------
(* Clients that are answered stay listed. *)

\* What is under way for the attempt of a link: its request, or the reply to it.
Wire(h) == Replies(h) \cup Requests(h)

IsMessage(m) ==
    /\ m.host \in Hosts /\ m.to \in {"tracker", "client"}
    /\ m.to = "tracker" => /\ m.act \in {"connect", "announce", "http", "stop"}
                           /\ m.late => m.act = "announce"
    /\ m.to = "client" => m.act \in {"connect", "announce", "http"}

\* The request that a link in state s waits for the reply to.
ActOf(s) == CASE s = 2 -> "http" [] s = 3 -> "connect" [] s = 4 -> "announce" [] OTHER -> "none"

\* At most one message is under way for a link, and none for one that has sent nothing.
LineOK(h) ==
    /\ link[h].m_state \in 0..4 /\ link[h].m_announce_time \in Nat
    /\ \A m \in Wire(h) : m.act = ActOf(link[h].m_state)
    /\ \A m, n \in Wire(h) : m = n

WireInv == (\A m \in net : IsMessage(m)) /\ \A h \in Hosts : LineOK(h)

\* A positive answer to an announce.
OkAnswer(m) == m.to = "client" /\ m.act # "connect" /\ m.ok

\* A host that was answered is listed.  Its peer and the time until its next announce add up
\* to less than what clean_up allows; while it announces no time passes, unless the packets
\* of an HTTP announce are lost.
Timely(h) ==
    file # NULL =>
      /\ file.peers[h] # NULL /\ file.peers[h].age <= Interval
      /\ link[h].m_state = 0 => file.peers[h].age + link[h].m_announce_time <= Interval
      /\ link[h].m_state = 2 => Wire(h) # {}

\* An answer reaches its client before time passes.
FreshAnswers ==
    file # NULL => \A m \in net : OkAnswer(m) =>
        file.peers[m.host] = NULL \/ file.peers[m.host].age = 0

\* A torrent that was deleted under its clients does not come back with the row.
HeardInv ==
    /\ heard \subseteq running /\ running \subseteq Hosts
    /\ heard # {} => up
    /\ heard # {} /\ file = NULL => ~m_auto_register /\ (row = NULL \/ flagged)
    /\ \A h \in heard : Timely(h)
    /\ FreshAnswers

LEMMA Moves ==
    ASSUME NEW l, IsLink(l), NEW x
    PROVE  /\ close(l).m_state = 0 /\ close(l).m_announce_time = l.m_announce_time
           /\ attempt(l, x).m_state \in {1, 3} /\ attempt(l, x).m_announce_time = x
           /\ answered(l).m_state = 0 /\ answered(l).m_announce_time = Interval
           /\ sent(l, x).m_state = x /\ sent(l, x).m_announce_time = l.m_announce_time
           /\ event(l, x).m_state = l.m_state /\ event(l, x).m_announce_time = 0
  <1>1. ASSUME NEW k, IsLink(k)
        PROVE  close(k).m_state = 0 /\ close(k).m_announce_time = k.m_announce_time
    BY <1>1 DEF IsLink, LinkFields, close
  <1>2. attempt(l, x).m_state \in {1, 3} /\ attempt(l, x).m_announce_time = x
    BY DEF IsLink, LinkFields, attempt
  <1>3. answered(l).m_state = 0 /\ answered(l).m_announce_time = Interval
    <2> DEFINE k(a, b) == [l EXCEPT !.m_announce_time = a, !.mc_attempts = b]
    <2>1. ASSUME NEW a, NEW b PROVE IsLink(k(a, b)) /\ k(a, b).m_announce_time = a
      BY Zenon DEF IsLink, LinkFields
    <2>2. answered(l) = close(k(Interval, 0))
      BY DEF answered
    <2> HIDE DEF k
    <2>3. IsLink(k(Interval, 0)) /\ k(Interval, 0).m_announce_time = Interval
      BY <2>1
    <2> QED
      BY <1>1, <2>2, <2>3
  <1>4. sent(l, x).m_state = x /\ sent(l, x).m_announce_time = l.m_announce_time
    BY DEF IsLink, LinkFields, sent
  <1>5. event(l, x).m_state = l.m_state /\ event(l, x).m_announce_time = 0
    BY DEF IsLink, LinkFields, event
  <1> QED
    BY <1>1, <1>2, <1>3, <1>4, <1>5

\* Nothing is under way for a link that has sent nothing.
LEMMA Silent ==
    ASSUME WireInv, NEW h \in Hosts, link[h].m_state \in {0, 1}
    PROVE  Wire(h) = {}
  <1>1. \A m \in Wire(h) : IsMessage(m) /\ (m.to = "client" \/ m.act # "stop")
    BY DEF WireInv, Wire, Replies, Requests
  <1>2. \A m \in Wire(h) : m.act = "none"
    BY SMTT(20) DEF WireInv, LineOK, ActOf
  <1> QED
    BY <1>1, <1>2 DEF IsMessage

LEMMA Messages ==
    ASSUME NEW act, NEW h \in Hosts, NEW l, NEW id, NEW ok
    PROVE  /\ act \in {"connect", "announce", "http", "stop"} => IsMessage(Request(act, h, l, id))
           /\ Request(act, h, l, id).to = "tracker" /\ Request(act, h, l, id).host = h
           /\ Request(act, h, l, id).act = act /\ ~Request(act, h, l, id).late
           /\ act \in {"connect", "announce", "http"} => IsMessage(Reply(act, h, ok))
           /\ Reply(act, h, ok).to = "client" /\ Reply(act, h, ok).host = h
           /\ Reply(act, h, ok).act = act /\ Reply(act, h, ok).ok = ok
  BY DEF Request, Reply, IsMessage

\* A step of one client: X leaves the network and Y, which answers nothing, enters it.
Exchanges(h, X, Y) ==
    /\ net' = (net \ X) \cup Y /\ \A m \in X \cup Y : m.host = h
    /\ \A m \in Y : IsMessage(m) /\ ~OkAnswer(m)

LineNext(h) ==
    /\ link'[h].m_state \in 0..4 /\ link'[h].m_announce_time \in Nat
    /\ \A m \in Wire(h)' : m.act = ActOf(link'[h].m_state)
    /\ \A m, n \in Wire(h)' : m = n

HeardNext(h) ==
    /\ heard' \subseteq running' /\ running' \subseteq Hosts /\ heard' \subseteq heard \cup {h}
    /\ heard' # {} => heard # {} \/ file # NULL
    /\ h \in heard' => Timely(h)'

LEMMA WireOthers ==
    ASSUME NEW h, NEW X, NEW Y, Exchanges(h, X, Y)
    PROVE  \A i \in Hosts \ {h} : Wire(i)' = Wire(i)
  BY DEF Exchanges, Wire, Replies, Requests

Relinks(h, l) == link'[h] = l /\ \A i \in Hosts \ {h} : link'[i] = link[i]

LEMMA OneChanged ==
    ASSUME IInv, NEW h \in Hosts, NEW l, link' = [link EXCEPT ![h] = l]
    PROVE  Relinks(h, l)
  BY DEF IInv, ClientInv, Relinks

LEMMA ClientStep ==
    ASSUME IInv, WireInv, HeardInv, NEW h \in Hosts, NEW l, Relinks(h, l),
           NEW X, NEW Y, Exchanges(h, X, Y), LineNext(h), HeardNext(h),
           UNCHANGED <<m_auto_register, up, file, row, flagged>>
    PROVE  WireInv' /\ HeardInv'
  <1>1. \A i \in Hosts \ {h} : Wire(i)' = Wire(i) /\ link'[i] = link[i]
    BY WireOthers DEF Relinks
  <1>2. \A m \in net' : IsMessage(m)
    BY DEF Exchanges, WireInv
  <1>3. \A i \in Hosts : LineOK(i)'
    <2>1. \A i \in Hosts \ {h} : LineOK(i)'
      BY SMTT(20), <1>1 DEF WireInv, LineOK
    <2>2. LineOK(h)'
      BY DEF LineOK, LineNext
    <2> QED
      BY <2>1, <2>2
  <1>4. WireInv'
    BY <1>2, <1>3 DEF WireInv
  <1>5. \A i \in heard' : Timely(i)'
    <2>1. ASSUME NEW i \in heard', i # h PROVE Timely(i)'
      <3>1. i \in heard /\ i \in Hosts \ {h}
        BY <2>1 DEF HeardNext, HeardInv
      <3>2. Timely(i)
        BY <3>1 DEF HeardInv
      <3> QED
        BY <1>1, <3>1, <3>2 DEF Timely
    <2> QED
      BY <2>1 DEF HeardNext
  <1>6. FreshAnswers'
    BY DEF FreshAnswers, HeardInv, Exchanges
  <1>7. heard' # {} => up'
    BY DEF HeardNext, HeardInv, IInv, TrackerInv
  <1>8. heard' # {} /\ file' = NULL => ~m_auto_register' /\ (row' = NULL \/ flagged')
    BY DEF HeardNext, HeardInv
  <1>9. heard' \subseteq running' /\ running' \subseteq Hosts
    BY DEF HeardNext
  <1> QED
    BY <1>4, <1>5, <1>6, <1>7, <1>8, <1>9 DEF HeardInv

\* Y are stopped events.
Stops(h, Y) ==
    /\ net' = net \cup Y
    /\ \A m \in Y : IsMessage(m) /\ m.host = h /\ m.to = "tracker" /\ m.act = "stop"

\* A client's step that announces nothing and leaves the state of its link.
LEMMA SameLine ==
    ASSUME IInv, WireInv, HeardInv, NEW h \in Hosts, NEW l, Relinks(h, l),
           l.m_state = link[h].m_state, l.m_announce_time \in {0, link[h].m_announce_time},
           NEW Y, Stops(h, Y),
           heard' \subseteq heard, heard' \subseteq running', running' \subseteq Hosts,
           UNCHANGED <<m_auto_register, up, file, row, flagged>>
    PROVE  WireInv' /\ HeardInv'
  <1>1. Wire(h)' = Wire(h) /\ link'[h] = l
    BY DEF Wire, Replies, Requests, Stops, Relinks
  <1>2. Exchanges(h, {}, Y)
    BY DEF Exchanges, OkAnswer, Stops
  <1>3. LineOK(h)
    BY DEF WireInv
  <1>4. LineNext(h)
    BY SMTT(20), <1>1, <1>3 DEF LineNext, LineOK
  <1>5. ASSUME h \in heard' PROVE Timely(h)'
    <2>1. Timely(h) /\ (file # NULL => file \in File)
      BY <1>5 DEF HeardInv, IInv, TrackerInv
    <2>2. CASE file = NULL
      BY <2>2 DEF Timely
    <2>3. CASE file # NULL
      <3>1. file.peers[h] \in Peer
        BY <2>1, <2>3 DEF File, Timely
      <3>2. file.peers[h].age \in 0..Expiry /\ link[h].m_announce_time \in Nat
        BY <1>3, <3>1 DEF Peer, LineOK
      <3> QED
        BY SMTT(20), <1>1, <2>1, <2>3, <3>2 DEF Timely, Interval, Expiry
    <2> QED
      BY <2>2, <2>3
  <1>6. HeardNext(h)
    BY <1>5 DEF HeardNext
  <1> QED
    BY <1>2, <1>4, <1>6, ClientStep

LEMMA UserHeard ==
    ASSUME IInv, WireInv, HeardInv, NEW h \in Hosts, user(h)
    PROVE  WireInv' /\ HeardInv'
  <1>l. IsLink(link[h]) /\ UNCHANGED <<m_auto_register, up, file, row, flagged>>
    BY DEF IInv, ClientInv, user, open, Cbt_file_close, write_data, tracker
  <1>h. heard \subseteq running /\ running \subseteq Hosts
    BY DEF HeardInv
  <1>1. CASE open(h)
    <2> DEFINE l == [link[h] EXCEPT !.m_announce_time = 0]
    <2>1. Relinks(h, l)
      BY <1>1, OneChanged, Zenon DEF open
    <2>2. l.m_state = link[h].m_state /\ l.m_announce_time = 0
      BY <1>l DEF IsLink, LinkFields
    <2> HIDE DEF l
    <2>3. Stops(h, {}) /\ heard' \subseteq heard /\ heard' \subseteq running' /\ running' \subseteq Hosts
      BY <1>1, <1>h DEF open, Stops
    <2> QED
      BY <1>l, <2>1, <2>2, <2>3, SameLine
  <1>2. CASE Cbt_file_close(h)
    <2>1. heard' \subseteq heard /\ heard' \subseteq running' /\ running' \subseteq Hosts
      BY <1>2, <1>h DEF Cbt_file_close
    <2>2. CASE UNCHANGED <<link, net>>
      <3>1. Relinks(h, link[h]) /\ Stops(h, {})
        BY <2>2 DEF Relinks, Stops
      <3> QED
        BY <1>l, <2>1, <3>1, SameLine
    <2>3. CASE ~UNCHANGED <<link, net>>
      <3> DEFINE e == event(link[h], "stopped")
                 l == sent(e, e.m_state)
                 Y == Sends(Request("stop", h, e, 0))
      <3>1. link' = [link EXCEPT ![h] = l] /\ net' = net \cup Y
        BY <1>2, <2>3 DEF Cbt_file_close
      <3>r. Relinks(h, l)
        BY <3>1, OneChanged, Zenon
      <3>2. IsLink(e) /\ e.m_state = link[h].m_state /\ e.m_announce_time = 0
        <4>1. IsLink(e)
          BY <1>l, EventOp, Zenon
        <4> QED
          BY <1>l, Zenon DEF event, IsLink, LinkFields
      <3> HIDE DEF e
      <3>3. l.m_state = link[h].m_state /\ l.m_announce_time = 0
        BY SMTT(20), <3>2, Moves
      <3>4. Stops(h, Y)
        BY SMTT(20), <3>1, Messages DEF Sends, Stops
      <3> HIDE DEF l, Y
      <3> QED
        BY <1>l, <2>1, <3>r, <3>3, <3>4, SameLine
    <2> QED
      BY <2>2, <2>3
  <1>3. CASE write_data(h)
    <2> DEFINE l == event(link[h], "completed")
    <2>1. Relinks(h, l)
      BY <1>3, OneChanged, Zenon DEF write_data
    <2>2. l.m_state = link[h].m_state /\ l.m_announce_time = 0
      BY SMTT(20), <1>l, Moves
    <2> HIDE DEF l
    <2>3. Stops(h, {}) /\ heard' \subseteq heard /\ heard' \subseteq running' /\ running' \subseteq Hosts
      BY <1>3, <1>h DEF write_data, Stops
    <2> QED
      BY <1>l, <2>1, <2>2, <2>3, SameLine
  <1> QED
    BY <1>1, <1>2, <1>3 DEF user

\* An attempt ends badly: nothing is under way any more, and the client has not been answered.
LEMMA FailedHeard ==
    ASSUME IInv, WireInv, HeardInv, NEW h \in Hosts, NEW l, Relinks(h, l),
           l.m_state = 0, l.m_announce_time \in Nat, NEW X, NEW Y, Exchanges(h, X, Y),
           Wire(h)' = {}, heard' = heard \ {h}, UNCHANGED running,
           UNCHANGED <<m_auto_register, up, file, row, flagged>>
    PROVE  WireInv' /\ HeardInv'
  <1>1. link'[h] = l
    BY DEF Relinks
  <1>2. LineNext(h)
    BY SMTT(20), <1>1 DEF LineNext
  <1>3. HeardNext(h)
    BY DEF HeardNext, HeardInv
  <1> QED
    BY <1>2, <1>3, ClientStep

\* An attempt goes on, with request r if one is sent.
LEMMA SentHeard ==
    ASSUME IInv, WireInv, HeardInv, NEW h \in Hosts, NEW l, Relinks(h, l),
           l.m_state \in 1..4, l.m_announce_time \in Nat, NEW X, NEW Y, Exchanges(h, X, Y),
           NEW r, Wire(h)' \subseteq {r}, r \in Wire(h)' => r.act = ActOf(l.m_state),
           l.m_state = 2 => Wire(h)' # {}, UNCHANGED <<heard, running>>,
           UNCHANGED <<m_auto_register, up, file, row, flagged>>
    PROVE  WireInv' /\ HeardInv'
  <1>1. link'[h] = l
    BY DEF Relinks
  <1>2. LineNext(h)
    BY SMTT(20), <1>1 DEF LineNext
  <1>3. h \in heard' => Timely(h)'
    BY SMTT(20), <1>1 DEF Timely, HeardInv
  <1>4. HeardNext(h)
    BY <1>3 DEF HeardNext, HeardInv
  <1> QED
    BY <1>2, <1>4, ClientStep

TrackerSame == UNCHANGED <<m_auto_register, up, file, row, flagged>>

\* Replacing what is under way.
LEMMA NewWire ==
    ASSUME NEW h, NEW X, NEW Y, Exchanges(h, X, Y)
    PROVE  /\ Wire(h)' \subseteq (Wire(h) \ X) \cup Y
           /\ \A m \in Y : m.to = "tracker" /\ m.act # "stop" /\ ~m.late => m \in Wire(h)'
  BY DEF Exchanges, Wire, Replies, Requests

LEMMA PreSelectHeard ==
    ASSUME IInv, WireInv, HeardInv, NEW h \in Hosts, pre_select(h)
    PROVE  WireInv' /\ HeardInv'
  <1> PICK wait \in 0 .. MaxBackoff :
        LET l == attempt(link[h], wait)
        IN  \/ /\ link' = [link EXCEPT ![h] = l]
               /\ net' = net \cup (IF URL(l) = "udp" THEN Sends(Request("connect", h, l, 0)) ELSE {})
               /\ UNCHANGED heard
            \/ failed(h, l) /\ UNCHANGED net
            \/ /\ UNCHANGED net /\ link' = [link EXCEPT ![h] = [l EXCEPT !.m_state = 0]]
               /\ heard' = heard \ {h}
    BY Zenon DEF pre_select
  <1> DEFINE l == attempt(link[h], wait)
             r == Request("connect", h, l, 0)
             Y == IF URL(l) = "udp" THEN Sends(r) ELSE {}
  <1>1. link[h].m_state = 0 /\ UNCHANGED running /\ TrackerSame
    BY DEF pre_select, tracker, due, TrackerSame
  <1>2. IsLink(l) /\ l.m_state \in {1, 3} /\ l.m_announce_time = wait
    <2>1. IsLink(link[h])
      BY DEF IInv, ClientInv
    <2>2. IsLink(l)
      BY <2>1, LinkOps, Zenon
    <2> QED
      BY SMTT(20), <2>1, <2>2, Moves
  <1>3. Wire(h) = {} /\ wait \in Nat
    BY SMTT(20), <1>1, Silent
  <1>4. l.m_state = 1 => Y = {}
    <2>1. URL(l) = URL(link[h])
      BY SMTT(20) DEF IInv, ClientInv, IsLink, LinkFields, attempt, URL
    <2>2. l.m_state = 1 => URL(link[h]) = "http"
      BY SMTT(20) DEF IInv, ClientInv, IsLink, LinkFields, attempt
    <2> HIDE DEF l
    <2> QED
      BY <2>1, <2>2
  <1> HIDE DEF l
  <1>5. CASE link' = [link EXCEPT ![h] = l] /\ net' = net \cup Y /\ UNCHANGED heard
    <2>1. Relinks(h, l)
      BY <1>5, OneChanged, Zenon
    <2>2. r.act = "connect" /\ r.host = h /\ r.to = "tracker" /\ IsMessage(r)
      BY DEF Request, IsMessage
    <2>3. Exchanges(h, {}, Y)
      BY <1>5, <2>2 DEF Exchanges, Sends, OkAnswer
    <2>4. Wire(h)' \subseteq {r} /\ (r \in Wire(h)' => Y # {})
      BY SMTT(20), <1>3, <2>3, NewWire DEF Sends
    <2>5. r \in Wire(h)' => r.act = ActOf(l.m_state)
      BY SMTT(20), <1>2, <1>4, <2>2, <2>4 DEF ActOf
    <2>6. l.m_state \in 1..4 /\ l.m_announce_time \in Nat /\ l.m_state # 2
      BY SMTT(20), <1>2, <1>3
    <2> HIDE DEF r, Y
    <2> QED
      BY <1>1, <1>5, <2>1, <2>3, <2>4, <2>5, <2>6, SentHeard DEF TrackerSame
  <1>6. ASSUME UNCHANGED net, heard' = heard \ {h}, NEW k, Relinks(h, k), k.m_state = 0, k.m_announce_time = wait
        PROVE  WireInv' /\ HeardInv'
    <2>1. Exchanges(h, {}, {})
      BY <1>6 DEF Exchanges
    <2>2. Wire(h)' = {}
      BY <1>3, <2>1, NewWire
    <2> QED
      BY <1>1, <1>3, <1>6, <2>1, <2>2, FailedHeard DEF TrackerSame
  <1>7. CASE failed(h, l) /\ UNCHANGED net
    <2>1. Relinks(h, close(l)) /\ heard' = heard \ {h}
      BY <1>7, OneChanged, Zenon DEF failed
    <2>2. close(l).m_state = 0 /\ close(l).m_announce_time = wait
      BY <1>2, Moves
    <2> QED
      BY <1>6, <1>7, <2>1, <2>2
  <1>8. CASE UNCHANGED net /\ link' = [link EXCEPT ![h] = [l EXCEPT !.m_state = 0]] /\ heard' = heard \ {h}
    <2> DEFINE k == [l EXCEPT !.m_state = 0]
    <2>1. Relinks(h, k)
      BY <1>8, OneChanged, Zenon
    <2>2. k.m_state = 0 /\ k.m_announce_time = wait
      BY <1>2 DEF IsLink, LinkFields
    <2> HIDE DEF k
    <2> QED
      BY <1>6, <1>8, <2>1, <2>2
  <1> QED
    BY <1>5, <1>7, <1>8 DEF l

\* The one message under way is the reply that the client takes.
LEMMA OnlyReply ==
    ASSUME WireInv, NEW h \in Hosts, NEW m \in Replies(h)
    PROVE  /\ Wire(h) = {m} /\ m \in net /\ m.to = "client" /\ m.host = h
           /\ m.act = ActOf(link[h].m_state)
  BY SMTT(20) DEF WireInv, LineOK, Wire, Replies

\* An attempt that fails, with what was under way gone from the network.
LEMMA AttemptFails ==
    ASSUME IInv, WireInv, HeardInv, NEW h \in Hosts, NEW l, IsLink(l), failed(h, l),
           l.m_announce_time \in Nat, NEW X, NEW Y, Exchanges(h, X, Y), Wire(h) \subseteq X,
           \A m \in Y : m.to = "tracker" /\ m.late, UNCHANGED running, TrackerSame
    PROVE  WireInv' /\ HeardInv'
  <1>1. Relinks(h, close(l)) /\ heard' = heard \ {h}
    BY OneChanged, Zenon DEF failed
  <1>2. close(l).m_state = 0 /\ close(l).m_announce_time \in Nat
    BY Moves
  <1>3. Wire(h)' = {}
    <2>1. Wire(h)' \subseteq Y
      BY NewWire
    <2>2. \A m \in Y : m \notin Wire(h)'
      BY DEF Wire, Replies, Requests
    <2> QED
      BY <2>1, <2>2
  <1> QED
    BY <1>1, <1>2, <1>3, FailedHeard DEF TrackerSame

LEMMA ConnectedHeard ==
    ASSUME IInv, WireInv, HeardInv, NEW h \in Hosts, connected(h)
    PROVE  WireInv' /\ HeardInv'
  <1>1. link[h].m_state = 1 /\ UNCHANGED running /\ TrackerSame
    BY DEF connected, tracker, TrackerSame
  <1>2. IsLink(link[h]) /\ link[h].m_announce_time \in Nat
    BY DEF IInv, ClientInv, WireInv, LineOK
  <1>3. Wire(h) = {}
    BY <1>1, Silent
  <1>4. ASSUME NEW l, IsLink(l), l.m_announce_time = link[h].m_announce_time, failed(h, l), UNCHANGED net
        PROVE  WireInv' /\ HeardInv'
    <2>1. Exchanges(h, {}, {})
      BY <1>4 DEF Exchanges
    <2> QED
      BY <1>1, <1>2, <1>3, <1>4, <2>1, AttemptFails
  <1>5. CASE failed(h, link[h]) /\ UNCHANGED net
    BY <1>2, <1>4, <1>5
  <1>6. CASE failed(h, sent(link[h], 1)) /\ UNCHANGED net
    <2>1. IsLink(sent(link[h], 1)) /\ sent(link[h], 1).m_announce_time = link[h].m_announce_time
      BY <1>2, LinkOps, Moves, Zenon
    <2> QED
      BY <1>4, <1>6, <2>1
  <1>7. CASE /\ net' = net \cup {Request("http", h, link[h], 0)}
             /\ link' = [link EXCEPT ![h] = sent(@, 2)] /\ UNCHANGED heard
    <2> DEFINE r == Request("http", h, link[h], 0)
               l == sent(link[h], 2)
    <2>1. Relinks(h, l)
      BY <1>7, OneChanged, Zenon
    <2>2. r.act = "http" /\ r.host = h /\ r.to = "tracker" /\ ~r.late /\ IsMessage(r)
      BY DEF Request, IsMessage
    <2>3. l.m_state = 2 /\ l.m_announce_time \in Nat
      BY SMTT(20), <1>2, Moves
    <2> HIDE DEF l
    <2>4. Exchanges(h, {}, {r})
      BY <1>7, <2>2 DEF Exchanges, OkAnswer
    <2>5. Wire(h)' = {r}
      BY SMTT(20), <1>3, <2>2, <2>4, NewWire
    <2>6. r.act = ActOf(l.m_state)
      BY SMTT(20), <2>2, <2>3 DEF ActOf
    <2> HIDE DEF r
    <2> QED
      BY SMTT(20), <1>1, <1>7, <2>1, <2>3, <2>4, <2>5, <2>6, SentHeard DEF TrackerSame
  <1> QED
    BY <1>5, <1>6, <1>7 DEF connected

LEMMA RecvConnectHeard ==
    ASSUME IInv, WireInv, HeardInv, NEW h \in Hosts, recv_connect(h)
    PROVE  WireInv' /\ HeardInv'
  <1>1. UNCHANGED running /\ TrackerSame
    BY DEF recv_connect, tracker, TrackerSame
  <1>2. IsLink(link[h]) /\ link[h].m_announce_time \in Nat
    BY DEF IInv, ClientInv, WireInv, LineOK
  <1> PICK m \in Replies(h) :
        \/ /\ link' = [link EXCEPT ![h] = sent(@, 4)]
           /\ net' = (net \ {m}) \cup Sends(Request("announce", h, link[h], m.id))
           /\ UNCHANGED heard
        \/ failed(h, sent(link[h], 3)) /\ net' = net \ {m}
    BY Zenon DEF recv_connect
  <1>3. Wire(h) = {m} /\ m.host = h
    BY OnlyReply
  <1>4. CASE failed(h, sent(link[h], 3)) /\ net' = net \ {m}
    <2>1. Exchanges(h, {m}, {})
      BY <1>3, <1>4 DEF Exchanges
    <2>2. IsLink(sent(link[h], 3)) /\ sent(link[h], 3).m_announce_time \in Nat
      <3>1. IsLink(sent(link[h], 3))
        BY <1>2, LinkOps, Zenon
      <3> QED
        BY <1>2, <3>1, Moves, Zenon
    <2> QED
      BY SMTT(20), <1>1, <1>3, <1>4, <2>1, <2>2, AttemptFails
  <1>5. CASE /\ link' = [link EXCEPT ![h] = sent(@, 4)]
             /\ net' = (net \ {m}) \cup Sends(Request("announce", h, link[h], m.id))
             /\ UNCHANGED heard
    <2> DEFINE r == Request("announce", h, link[h], m.id)
               l == sent(link[h], 4)
    <2>1. Relinks(h, l)
      BY <1>5, OneChanged, Zenon
    <2>2. r.act = "announce" /\ r.host = h /\ r.to = "tracker" /\ IsMessage(r)
      BY SMTT(20), Messages
    <2>3. l.m_state = 4 /\ l.m_announce_time \in Nat
      BY SMTT(20), <1>2, Moves
    <2> HIDE DEF l
    <2>4. Exchanges(h, {m}, Sends(r)) /\ Sends(r) \subseteq {r}
      BY <1>3, <1>5, <2>2 DEF Exchanges, OkAnswer, Sends
    <2>5. Wire(h)' \subseteq {r}
      BY SMTT(20), <1>3, <2>4, NewWire
    <2>6. r.act = ActOf(l.m_state)
      BY SMTT(20), <2>2, <2>3 DEF ActOf
    <2> HIDE DEF r
    <2> QED
      BY SMTT(20), <1>1, <1>5, <2>1, <2>3, <2>4, <2>5, <2>6, SentHeard DEF TrackerSame
  <1> QED
    BY <1>4, <1>5

\* The answer comes: the next announce is Interval away, and the peer is new.
LEMMA RecvAnswerHeard ==
    ASSUME IInv, WireInv, HeardInv, NEW h \in Hosts, recv_answer(h)
    PROVE  WireInv' /\ HeardInv'
  <1>1. UNCHANGED running /\ TrackerSame /\ link[h].m_state \in {2, 4}
    BY DEF recv_answer, tracker, TrackerSame
  <1>2. IsLink(link[h]) /\ link[h].m_announce_time \in Nat
    BY DEF IInv, ClientInv, WireInv, LineOK
  <1> PICK m \in Replies(h) :
        /\ net' = net \ {m}
        /\ IF m.ok
           THEN /\ link' = [link EXCEPT ![h] = answered(@)]
                /\ heard' = IF h \in running /\ listed(h) THEN heard \cup {h} ELSE heard
           ELSE failed(h, link[h])
    BY Zenon DEF recv_answer
  <1>3. /\ Wire(h) = {m} /\ m.host = h /\ m \in net /\ m.to = "client"
        /\ m.act = ActOf(link[h].m_state)
    BY OnlyReply
  <1>4. Exchanges(h, {m}, {})
    BY <1>3 DEF Exchanges
  <1>5. CASE ~m.ok
    <2>1. failed(h, link[h])
      BY <1>5
    <2> QED
      BY SMTT(20), <1>1, <1>2, <1>3, <1>4, <2>1, AttemptFails
  <1>6. CASE m.ok
    <2> DEFINE l == answered(link[h])
    <2>1. Relinks(h, l)
      BY <1>6, OneChanged
    <2>2. l.m_state = 0 /\ l.m_announce_time = Interval
      BY <1>2, Moves
    <2> HIDE DEF l
    <2>3. Wire(h)' = {}
      BY SMTT(20), <1>3, <1>4, NewWire
    <2>4. LineNext(h)
      BY SMTT(20), <2>1, <2>2, <2>3 DEF LineNext, Relinks, Interval
    <2>5. OkAnswer(m)
      BY SMTT(20), <1>1, <1>3, <1>6 DEF OkAnswer, ActOf
    <2>6. file # NULL => file.peers[h] = NULL \/ file.peers[h].age = 0
      BY <1>3, <2>5 DEF HeardInv, FreshAnswers
    <2>7. h \in heard' => Timely(h) \/ (file # NULL /\ file.peers[h] # NULL)
      BY <1>6 DEF HeardInv, listed
    <2>8. h \in heard' => Timely(h)'
      <3>1. link'[h].m_state = 0 /\ link'[h].m_announce_time = Interval /\ UNCHANGED file
        BY <1>1, <2>1, <2>2 DEF TrackerSame, Relinks
      <3>2. h \in heard' /\ file # NULL => file.peers[h] # NULL /\ file.peers[h].age = 0
        BY <2>6, <2>7 DEF Timely
      <3> QED
        BY SMTT(20), <3>1, <3>2 DEF Timely, Interval
    <2>9. HeardNext(h)
      BY <1>1, <1>6, <2>8 DEF HeardNext, HeardInv, listed
    <2> QED
      BY <1>1, <1>4, <2>1, <2>4, <2>9, ClientStep DEF TrackerSame
  <1> QED
    BY <1>5, <1>6

LEMMA TimeoutHeard ==
    ASSUME IInv, WireInv, HeardInv, NEW h \in Hosts, timeout(h)
    PROVE  WireInv' /\ HeardInv'
  <1> DEFINE late(m) == [m EXCEPT !.late = TRUE]
             D == {n \in Requests(h) : n.act = "announce"}
             Y == {late(m) : m \in D}
  <1>1. /\ UNCHANGED running /\ TrackerSame /\ failed(h, link[h])
        /\ net' = (net \ Wire(h)) \cup Y
    BY DEF timeout, tracker, TrackerSame, Wire
  <1>2. IsLink(link[h]) /\ link[h].m_announce_time \in Nat
    BY DEF IInv, ClientInv, WireInv, LineOK
  <1>3. ASSUME NEW m \in D
        PROVE  /\ late(m).to = "tracker" /\ late(m).host = h /\ late(m).act = "announce" /\ late(m).late
    <2>1. m \in net /\ m.to = "tracker" /\ m.host = h /\ m.act = "announce"
      BY DEF Requests
    <2>2. m = [x \in RequestFields |-> m[x]]
      BY <2>1 DEF IInv, ClientInv, IsRequest
    <2> QED
      BY <2>1, <2>2 DEF RequestFields
  <1> HIDE DEF late
  <1>4. \A m \in Y : m.to = "tracker" /\ m.host = h /\ m.act = "announce" /\ m.late
    BY <1>3
  <1> HIDE DEF Y
  <1>5. \A m \in Wire(h) : m.host = h
    BY DEF Wire, Replies, Requests
  <1>6. Exchanges(h, Wire(h), Y)
    BY <1>1, <1>4, <1>5 DEF Exchanges, IsMessage, OkAnswer
  <1> QED
    BY <1>1, <1>2, <1>4, <1>6, AttemptFails

\* The tracker goes down, and with it every client's announce.
LEMMA ResetHeard ==
    ASSUME IInv, WireInv, HeardInv, Reset, file' = NULL, UNCHANGED <<running, link>>
    PROVE  WireInv' /\ HeardInv'
  <1>1. heard' = {} /\ \A m \in net' : (m \in net /\ m.to = "client")
           \/ \E n \in net : n.act = "http" /\ n.to = "tracker" /\ m = Reply("http", n.host, FALSE)
    BY Zenon DEF Reset
  <1>2. ASSUME NEW n \in net, n.act = "http", n.to = "tracker"
        PROVE  n.host \in Hosts /\ n \in Requests(n.host)
    BY <1>2 DEF WireInv, IsMessage, Requests
  <1>3. \A m \in net' : IsMessage(m) /\ m.to = "client"
    <2>1. ASSUME NEW n \in net, n.act = "http", n.to = "tracker"
          PROVE  IsMessage(Reply("http", n.host, FALSE)) /\ Reply("http", n.host, FALSE).to = "client"
      BY <1>2, <2>1 DEF Reply, IsMessage
    <2> QED
      BY <1>1, <2>1, Zenon DEF WireInv
  <1>4. ASSUME NEW h \in Hosts PROVE LineOK(h)'
    <2> DEFINE r == Reply("http", h, FALSE)
    <2>1. \A m \in Wire(h)' : \/ m \in Wire(h) /\ m.to = "client"
                              \/ m = r /\ \E n \in Wire(h) : n.act = "http" /\ n.to = "tracker"
      <3>1. \A m \in Wire(h)' : m \in net' /\ m.host = h /\ m.to = "client"
        <4>1. \A m \in Wire(h)' : m \in net' /\ m.host = h
          BY DEF Wire, Replies, Requests
        <4> QED
          BY <1>3, <4>1
      <3>2. \A n \in net : Reply("http", n.host, FALSE).host = n.host
        BY DEF Reply
      <3>3. ASSUME NEW m \in Wire(h)', m \in net PROVE m \in Wire(h)
        BY <3>1, <3>3 DEF Wire, Replies
      <3>4. ASSUME NEW m \in Wire(h)', NEW n \in net, n.act = "http", n.to = "tracker",
                   m = Reply("http", n.host, FALSE)
            PROVE  m = r /\ n \in Wire(h)
        <4>1. n.host = h
          BY <3>1, <3>2, <3>4, Zenon
        <4> QED
          BY <1>2, <3>4, <4>1 DEF Wire
      <3> HIDE DEF r
      <3> QED
        BY <1>1, <3>1, <3>3, <3>4, Zenon
    <2>2. LineOK(h)
      BY DEF WireInv
    <2>3. r.act = "http"
      BY DEF Reply
    <2> HIDE DEF r
    <2>4. \A m \in Wire(h)' : m.act = ActOf(link[h].m_state)
      BY <2>1, <2>2, <2>3 DEF LineOK
    <2>5. \A m, n \in Wire(h)' : m = n
      BY <2>1, <2>2 DEF LineOK
    <2> QED
      BY <2>2, <2>4, <2>5 DEF LineOK
  <1>5. WireInv'
    BY <1>3, <1>4 DEF WireInv
  <1>6. HeardInv'
    BY <1>1 DEF HeardInv, FreshAnswers
  <1> QED
    BY <1>5, <1>6

\* Request m is answered with Y, or not at all.
LEMMA AnswerWire ==
    ASSUME IInv, WireInv, NEW m \in net, m.to = "tracker", UNCHANGED link,
           NEW ok, net' = (net \ {m}) \cup Answer(m, ok) \/ (net' = net \ {m} /\ m.act = "announce")
    PROVE  /\ WireInv' /\ m.host \in Hosts
           /\ \A h \in Hosts : link[h].m_state = 2 /\ Wire(h) # {} => Wire(h)' # {}
           /\ \A n \in net' : n \in net \/ (n = Reply(m.act, m.host, ok) /\ n.to = "client" /\ n.act = m.act
                                              /\ n.ok = ok /\ n.host = m.host)
  <1> DEFINE h == m.host
             r == Reply(m.act, h, ok)
  <1>1. h \in Hosts /\ IsMessage(m)
    BY DEF WireInv, IsMessage
  <1>2. /\ r.to = "client" /\ r.host = h /\ r.act = m.act /\ r.ok = ok
        /\ m.act # "stop" => IsMessage(r)
    BY <1>1 DEF Reply, IsMessage
  <1>3. /\ Answer(m, ok) \subseteq {r}
        /\ Answer(m, ok) # {} => m \in Wire(h)
        /\ m \in Wire(h) => Answer(m, ok) = {r}
    BY DEF Answer, Wire, Requests, Replies
  <1> HIDE DEF r
  <1>4. m.act = "stop" => Answer(m, ok) = {}
    BY DEF Answer
  <1>5. \A n \in net' : n \in net \/ (n = r /\ r \in Answer(m, ok))
    BY <1>3
  <1>6. \A n \in net' : IsMessage(n)
    BY <1>2, <1>4, <1>5 DEF WireInv
  <1>7. \A i \in Hosts \ {h} : Wire(i)' = Wire(i)
    BY <1>2, <1>3 DEF Wire, Replies, Requests
  <1>8. Wire(h)' \subseteq Wire(h) \cup {r} /\ m \notin Wire(h)'
        /\ (r \in Wire(h)' => r \in Wire(h) \/ m \in Wire(h))
    BY <1>2, <1>3, <1>5 DEF Wire, Replies, Requests
  <1>9. ASSUME NEW i \in Hosts PROVE LineOK(i)'
    <2>1. LineOK(i)
      BY DEF WireInv
    <2>2. CASE i # h
      BY <1>7, <2>1, <2>2 DEF LineOK
    <2>3. CASE i = h
      <3>1. \A n \in Wire(h)' : n.act = ActOf(link[h].m_state)
        BY <1>2, <1>8, <2>1, <2>3 DEF LineOK
      <3>2. \A n, k \in Wire(h)' : n = k
        BY <1>8, <2>1, <2>3 DEF LineOK
      <3> QED
        BY <2>1, <2>3, <3>1, <3>2 DEF LineOK
    <2> QED
      BY <2>2, <2>3
  <1>10. WireInv'
    BY <1>6, <1>9 DEF WireInv
  <1>11. ASSUME NEW i \in Hosts, link[i].m_state = 2, Wire(i) # {} PROVE Wire(i)' # {}
    <2>1. CASE i # h
      BY <1>7, <1>11, <2>1
    <2>2. CASE i = h /\ m \in Wire(h)
      <3>1. m.act = "http"
        BY SMTT(20), <1>11, <2>2 DEF WireInv, LineOK, ActOf
      <3>2. r \in net'
        BY <1>3, <2>2, <3>1
      <3> QED
        BY <1>2, <2>2, <3>2 DEF Wire, Replies
    <2>3. CASE i = h /\ m \notin Wire(h)
      <3>1. PICK n \in Wire(h) : n # m /\ n \in net
        BY <1>11, <2>3 DEF Wire, Replies, Requests
      <3>2. n \in net'
        BY <3>1
      <3> QED
        BY <2>3, <3>1, <3>2 DEF Wire, Replies, Requests
    <2> QED
      BY <2>1, <2>2, <2>3
  <1> QED
    BY <1>1, <1>2, <1>5, <1>10, <1>11 DEF r

\* The row of a torrent that was deleted under its clients is gone, or will be.
Deleted == ~m_auto_register' /\ (row' = NULL \/ flagged')

\* A task of the tracker that erases none of the peers that are answered, unless it deletes
\* the torrent; and that makes no peer younger or older.
TaskKeeps ==
    /\ UNCHANGED clients
    /\ heard # {} => up'
    /\ heard # {} /\ file' = NULL => Deleted
    /\ heard # {} /\ file' # NULL => file # NULL /\ \A h \in heard : file'.peers[h] = file.peers[h]
    /\ file' # NULL => \A i \in Hosts : \/ file'.peers[i] = NULL
                                        \/ file # NULL /\ file'.peers[i] = file.peers[i]

LEMMA TaskHeard ==
    ASSUME WireInv, HeardInv, TaskKeeps
    PROVE  WireInv' /\ HeardInv'
  <1>1. UNCHANGED <<running, link, net, heard>>
    BY DEF TaskKeeps, clients
  <1>2. \A h \in Hosts : Wire(h)' = Wire(h) /\ (LineOK(h) => LineOK(h)')
    BY <1>1 DEF Wire, Replies, Requests, LineOK
  <1>3. WireInv'
    BY <1>1, <1>2 DEF WireInv
  <1>4. ASSUME NEW h \in heard' PROVE Timely(h)'
    <2>1. h \in Hosts /\ Timely(h)
      BY <1>1 DEF HeardInv
    <2> QED
      BY <1>1, <1>2, <2>1 DEF Timely, TaskKeeps
  <1>5. FreshAnswers'
    <2> SUFFICES ASSUME file' # NULL, NEW m \in net, OkAnswer(m)
                 PROVE  file'.peers[m.host] = NULL \/ file'.peers[m.host].age = 0
      BY <1>1 DEF FreshAnswers
    <2>1. m.host \in Hosts
      BY DEF WireInv, IsMessage
    <2>2. file # NULL => file.peers[m.host] = NULL \/ file.peers[m.host].age = 0
      BY DEF HeardInv, FreshAnswers
    <2> QED
      BY <2>1, <2>2 DEF TaskKeeps
  <1> QED
    BY <1>1, <1>3, <1>4, <1>5 DEF HeardInv, TaskKeeps, Deleted

\* clean_up erases peers that are older than an answered client's ever is.
LEMMA CleanUpKeeps ==
    ASSUME IInv, HeardInv, clean_up, file' \in File, UNCHANGED clients
    PROVE  TaskKeeps
  <1> DEFINE old == expired(file)
             peers == [h \in Hosts |-> IF h \in old THEN NULL ELSE file.peers[h]]
  <1>1. file # NULL /\ file \in File /\ up /\ up'
    BY DEF clean_up, IInv, TrackerInv
  <1>2. PICK x, y : file' = [file EXCEPT !.peers = peers, !.leechers = x, !.seeders = y, !.dirty = TRUE]
    <2> HIDE DEF old
    <2> QED
      BY Zenon DEF clean_up, old
  <1>3. file'.peers = peers
    <2> HIDE DEF peers
    <2> QED
      BY <1>1, <1>2 DEF File
  <1>4. file' # NULL
    BY HostsAssumption
  <1>5. ASSUME NEW h \in heard PROVE h \in Hosts /\ peers[h] = file.peers[h]
    <2>1. h \in Hosts /\ file.peers[h] # NULL /\ file.peers[h].age <= Interval
      BY <1>1 DEF HeardInv, Timely
    <2>2. file.peers[h] \in Peer
      BY <1>1, <2>1 DEF File
    <2>3. ~(file.peers[h].age >= Expiry)
      BY SMTT(20), <2>1, <2>2 DEF Peer, Interval, Expiry
    <2>4. h \notin old
      BY <2>3 DEF expired
    <2> QED
      BY <2>1, <2>4
  <1>6. \A i \in Hosts : peers[i] = NULL \/ peers[i] = file.peers[i]
    OBVIOUS
  <1> HIDE DEF peers
  <1> QED
    BY <1>1, <1>3, <1>4, <1>5, <1>6 DEF TaskKeeps

\* A torrent is read again only when no client believes to be listed.
LEMMA ReadKeeps ==
    ASSUME IInv, HeardInv, NEW fails, read_db_files_sql(fails), UNCHANGED m_auto_register, up',
           UNCHANGED clients
    PROVE  TaskKeeps
  <1> DEFINE deletes == ~m_auto_register /\ flagged /\ fails # "flags"
             kept == IF deletes THEN NULL ELSE file
             throws == fails = "flags" \/ (deletes /\ fails = "delete")
             gone == deletes /\ ~throws
             row1 == IF gone THEN NULL ELSE row
             resets == ~throws /\ kept = NULL /\ fails # "reset"
             row2 == IF resets /\ row1 # NULL THEN [row1 EXCEPT !.leechers = 0, !.seeders = 0] ELSE row1
             selects == ~throws /\ fails = "none" /\ (kept = NULL \/ ~m_auto_register)
             reads == selects /\ kept = NULL /\ row2 # NULL
  <1>1. /\ file' = IF reads THEN loads(row2) ELSE kept
        /\ row' = row2 /\ flagged' = (flagged /\ ~gone)
    BY DEF read_db_files_sql
  <1>2. row1 = NULL => row2 = NULL
    OBVIOUS
  <1>3. CASE reads
    <2>1. ~deletes
      BY <1>2, <1>3
    <2>2. heard = {}
      <3>1. file = NULL /\ row # NULL
        BY <1>2, <1>3, <2>1
      <3>2. ~(~m_auto_register /\ flagged)
        BY <1>3, <2>1
      <3> QED
        BY <3>1, <3>2 DEF HeardInv
    <2>3. file'.peers = [h \in Hosts |-> NULL]
      <3> HIDE DEF row2
      <3>1. file' = [t_file EXCEPT !.completed = row2.completed, !.fid = TRUE, !.dirty = FALSE]
        BY <1>1, <1>3 DEF loads
      <3> QED
        BY <3>1 DEF t_file
    <2>4. \A i \in Hosts : file'.peers[i] = NULL
      BY <2>3
    <2> QED
      BY <2>2, <2>4 DEF TaskKeeps
  <1>4. CASE ~reads
    <2>1. file' = kept
      BY <1>1, <1>4
    <2>2. deletes => ~m_auto_register /\ (row2 = NULL \/ (flagged /\ ~gone))
      BY <1>2
    <2>3. ~deletes /\ file = NULL /\ heard # {} => ~m_auto_register /\ (row2 = NULL \/ (flagged /\ ~gone))
      BY <1>2 DEF HeardInv
    <2>4. heard # {} /\ file' = NULL => Deleted
      BY <1>1, <2>1, <2>2, <2>3, Zenon DEF Deleted
    <2>5. file' # NULL => file' = file
      BY <2>1
    <2> QED
      BY <2>4, <2>5 DEF TaskKeeps
  <1> QED
    BY <1>3, <1>4

LEMMA TasksHeard ==
    ASSUME IInv, WireInv, HeardInv, tasks, clean_up => file' \in File
    PROVE  WireInv' /\ HeardInv'
  <1>1. UNCHANGED clients
    BY DEF tasks
  <1>2. CASE clean_up
    BY <1>1, <1>2, CleanUpKeeps, TaskHeard
  <1>3. CASE read_db_files \/ start
    <2>1. up' /\ UNCHANGED m_auto_register /\ \E fails \in Reading \cup {"none"} : read_db_files_sql(fails)
      BY SMTT(20), <1>3 DEF read_db_files, start
    <2> QED
      BY <1>1, <2>1, ReadKeeps, TaskHeard
  <1>4. CASE write_files
    <2>1. file # NULL /\ UNCHANGED up
      BY <1>4 DEF write_files
    <2>2. file' # NULL /\ file'.peers = file.peers
      BY <1>4, WriteFiles, HostsAssumption DEF IInv
    <2>3. TaskKeeps
      BY <1>1, <2>1, <2>2 DEF TaskKeeps, HeardInv
    <2> QED
      BY <2>3, TaskHeard
  <1>5. CASE flag
    <2>1. UNCHANGED <<m_auto_register, up, file, row>> /\ flagged'
      BY <1>5 DEF flag
    <2>2. TaskKeeps
      BY <1>1, <2>1 DEF TaskKeeps, HeardInv, Deleted
    <2> QED
      BY <2>2, TaskHeard
  <1> QED
    BY <1>2, <1>3, <1>4, <1>5 DEF tasks

\* A request that changes nothing in the tracker.
LEMMA RepliedHeard ==
    ASSUME IInv, WireInv, HeardInv, NEW m \in net, m.to = "tracker", NEW ok,
           net' = (net \ {m}) \cup Answer(m, ok) \/ (net' = net \ {m} /\ m.act = "announce"),
           ~ok \/ m.act = "connect", UNCHANGED <<running, link, heard>>, TrackerSame
    PROVE  WireInv' /\ HeardInv'
  <1>1. WireInv'
    BY AnswerWire, Zenon
  <1>2. \A h \in Hosts : link[h].m_state = 2 /\ Wire(h) # {} => Wire(h)' # {}
    BY AnswerWire, Zenon
  <1>3. \A n \in net' : OkAnswer(n) => n \in net
    <2>1. \A n \in net' : n \in net \/ (n.act = m.act /\ n.ok = ok)
      BY AnswerWire, Zenon
    <2> QED
      BY <2>1 DEF OkAnswer
  <1>4. ASSUME NEW h \in heard' PROVE Timely(h)'
    <2>1. h \in Hosts /\ Timely(h)
      BY DEF HeardInv
    <2> QED
      BY <1>2, <2>1 DEF Timely, TrackerSame
  <1>5. FreshAnswers'
    BY <1>3 DEF HeardInv, FreshAnswers, TrackerSame
  <1> QED
    BY <1>1, <1>4, <1>5 DEF HeardInv, TrackerSame

\* An announce makes the peer of its host new; the others stay as they are.
LEMMA AnnouncedHeard ==
    ASSUME IInv, WireInv, HeardInv, NEW m \in net, m.to = "tracker", up, ~refused,
           announce(m.host, m.event, m.left), net' = (net \ {m}) \cup Answer(m, TRUE),
           heard' = IF m.event = "stopped" THEN heard \ {m.host} ELSE heard,
           UNCHANGED <<running, link>>
    PROVE  WireInv' /\ HeardInv'
  <1> DEFINE h == m.host
             f == IF file = NULL THEN t_file ELSE file
  <1>1. h \in Hosts /\ m.left \in BOOLEAN
    BY DEF IInv, ClientInv, IsRequest
  <1>2. file' \in File /\ Inserted(file', f, h, m.event)
    BY <1>1, AnnounceEffect DEF IInv
  <1>3. file' # NULL /\ up' /\ UNCHANGED <<m_auto_register, row, flagged>>
    BY <1>2, HostsAssumption DEF announce
  <1>4. heard # {} => file # NULL
    BY DEF HeardInv, refused
  <1>5. /\ \A i \in Hosts \ {h} : file'.peers[i] = f.peers[i]
        /\ file'.peers[h] = NULL \/ file'.peers[h].age = 0
        /\ m.event # "stopped" => file'.peers[h] # NULL
    BY <1>2 DEF Inserted
  <1>6. \A i \in Hosts : file = NULL => f.peers[i] = NULL
    BY DEF t_file
  <1>7. file # NULL => f = file
    OBVIOUS
  <1> HIDE DEF f
  <1>8. WireInv'
    BY AnswerWire, Zenon
  <1>9. \A i \in Hosts : link[i].m_state = 2 /\ Wire(i) # {} => Wire(i)' # {}
    BY AnswerWire, Zenon
  <1>10. \A n \in net' : n \in net \/ n.host = h
    BY AnswerWire, Zenon
  <1>11. ASSUME NEW i \in heard' PROVE Timely(i)'
    <2>1. i \in Hosts /\ Timely(i) /\ file # NULL /\ (i = h => m.event # "stopped")
      BY <1>4 DEF HeardInv
    <2>2. /\ file.peers[i] # NULL /\ file.peers[i].age <= Interval
          /\ link[i].m_state = 0 => file.peers[i].age + link[i].m_announce_time <= Interval
          /\ link[i].m_state = 2 => Wire(i) # {}
      BY <2>1 DEF Timely
    <2>3. file \in File /\ link[i].m_announce_time \in Nat
      BY <2>1 DEF IInv, TrackerInv, WireInv, LineOK
    <2>4. file.peers[i].age \in Nat
      BY SMTT(20), <2>1, <2>2, <2>3 DEF File, Peer
    <2>5. f = file
      BY <1>7, <2>1, Zenon
    <2>6. /\ file'.peers[i] # NULL
          /\ file'.peers[i].age = 0 \/ file'.peers[i].age = file.peers[i].age
      BY <1>5, <2>1, <2>2, <2>5
    <2>7. /\ file'.peers[i].age <= Interval
          /\ link[i].m_state = 0 => file'.peers[i].age + link[i].m_announce_time <= Interval
      BY SMTT(20), <2>2, <2>3, <2>4, <2>6 DEF Interval
    <2> QED
      BY <1>9, <2>1, <2>2, <2>6, <2>7 DEF Timely
  <1>12. FreshAnswers'
    <2> SUFFICES ASSUME NEW n \in net', OkAnswer(n)
                 PROVE  file'.peers[n.host] = NULL \/ file'.peers[n.host].age = 0
      BY Zenon DEF FreshAnswers
    <2>1. n.host = h \/ (n \in net /\ n.host \in Hosts)
      BY <1>10, Zenon DEF WireInv, IsMessage
    <2>2. CASE n.host = h
      BY <1>5, <2>2
    <2>3. CASE n \in net /\ n.host \in Hosts \ {h}
      BY <1>5, <1>6, <1>7, <2>3 DEF HeardInv, FreshAnswers
    <2> QED
      BY <2>1, <2>2, <2>3
  <1> QED
    BY <1>3, <1>8, <1>11, <1>12 DEF HeardInv

LEMMA RecvHeard ==
    ASSUME IInv, WireInv, HeardInv, NEW m \in net, recv(m)
    PROVE  WireInv' /\ HeardInv'
  <1>1. up /\ m.to = "tracker" /\ UNCHANGED <<running, left, link>>
    BY DEF recv
  <1>2. CASE m.act = "connect"
    <2>1. net' = (net \ {m}) \cup Answer(m, TRUE) /\ UNCHANGED heard /\ TrackerSame
      BY <1>2, Zenon DEF recv, tracker, TrackerSame
    <2> QED
      BY <1>1, <1>2, <2>1, RepliedHeard, Zenon
  <1>3. CASE m.act = "announce" /\ m.id # m_secret
    <2>1. net' = net \ {m} /\ UNCHANGED heard /\ TrackerSame
      BY <1>3, Zenon DEF recv, tracker, TrackerSame
    <2> QED
      BY <1>1, <1>3, <2>1, RepliedHeard
  <1>4. CASE m.act # "connect" /\ ~(m.act = "announce" /\ m.id # m_secret) /\ refused
    <2>1. net' = (net \ {m}) \cup Answer(m, FALSE) /\ UNCHANGED heard /\ TrackerSame
      BY <1>4, Zenon DEF recv, tracker, TrackerSame
    <2> QED
      BY <1>1, <2>1, RepliedHeard, Zenon
  <1>5. CASE m.act # "connect" /\ ~(m.act = "announce" /\ m.id # m_secret) /\ ~refused
    <2>1. \/ /\ announce(m.host, m.event, m.left)
             /\ net' = (net \ {m}) \cup Answer(m, TRUE)
             /\ heard' = IF m.event = "stopped" THEN heard \ {m.host} ELSE heard
          \/ select_peers_crashes(m.event) /\ Reset
      BY <1>5, Zenon DEF recv
    <2>2. select_peers_crashes(m.event) => file' = NULL
      BY DEF select_peers_crashes, Down
    <2> QED
      BY <1>1, <1>5, <2>1, <2>2, AnnouncedHeard, ResetHeard, Zenon
  <1> QED
    BY <1>2, <1>3, <1>4, <1>5

\* A client whose packet is lost no longer counts as answered; the others notice nothing.
LEMMA LoseHeard ==
    ASSUME IInv, WireInv, HeardInv, NEW m \in net, lose(m)
    PROVE  WireInv' /\ HeardInv'
  <1>1. /\ net' = net \ {m} /\ heard' = heard \ {m.host} /\ UNCHANGED <<running, link>> /\ TrackerSame
        /\ m.host \in Hosts
    BY DEF lose, tracker, TrackerSame, WireInv, IsMessage
  <1>2. \A h \in Hosts : Wire(h)' \subseteq Wire(h) /\ (h # m.host => Wire(h)' = Wire(h))
    BY <1>1 DEF Wire, Replies, Requests
  <1>3. \A h \in Hosts : LineOK(h) => LineOK(h)'
    BY <1>1, <1>2 DEF LineOK
  <1>4. WireInv'
    BY <1>1, <1>3 DEF WireInv
  <1>5. ASSUME NEW h \in heard' PROVE Timely(h)'
    <2>1. h \in Hosts /\ h # m.host /\ Timely(h)
      BY <1>1 DEF HeardInv
    <2> QED
      BY <1>1, <1>2, <2>1 DEF Timely, TrackerSame
  <1>6. FreshAnswers'
    BY <1>1 DEF HeardInv, FreshAnswers, TrackerSame
  <1> QED
    BY <1>1, <1>4, <1>5, <1>6 DEF HeardInv, TrackerSame

\* Time passes for a peer only as it does for the announce that renews it: no answered
\* client is due, or waits for an answer, when half an interval goes by.
LEMMA TickHeard ==
    ASSUME IInv, WireInv, HeardInv, tick
    PROVE  WireInv' /\ HeardInv'
  <1> DEFINE time(h) == link[h].m_announce_time
             peers == [h \in Hosts |-> older(file.peers[h])]
  <1>1. /\ net = {} /\ UNCHANGED <<net, running, heard, m_auto_register, up, row, flagged>>
        /\ \A h \in Hosts : link[h].m_state \in {0, 2} /\ ~(h \in running /\ due(link[h]))
        /\ link' = [h \in Hosts |-> [link[h] EXCEPT !.m_announce_time = IF @ = 0 THEN 0 ELSE @ - 1]]
        /\ file' = IF file = NULL THEN NULL ELSE [file EXCEPT !.peers = peers]
    BY DEF tick
  <1>2. \A h \in Hosts : Wire(h) = {} /\ Wire(h)' = {}
    BY <1>1 DEF Wire, Replies, Requests
  <1>3. \A h \in Hosts : /\ link'[h].m_state = link[h].m_state
                         /\ link'[h].m_announce_time = IF time(h) = 0 THEN 0 ELSE time(h) - 1
    <2> TAKE h \in Hosts
    <2>1. IsLink(link[h])
      BY DEF IInv, ClientInv
    <2> QED
      BY <1>1, <2>1 DEF IsLink, LinkFields
  <1>4. \A h \in Hosts : time(h) \in Nat
    BY DEF WireInv, LineOK
  <1> HIDE DEF time
  <1>5. WireInv'
    <2>1. ASSUME NEW h \in Hosts PROVE LineOK(h)'
      <3>1. link'[h].m_state \in 0..4 /\ link'[h].m_announce_time \in Nat
        BY SMTT(20), <1>3, <1>4 DEF WireInv, LineOK
      <3> QED
        BY <1>2, <3>1 DEF LineOK
    <2> QED
      BY <1>1, <2>1 DEF WireInv
  <1>6. CASE file = NULL
    BY <1>1, <1>5, <1>6 DEF HeardInv, Timely, FreshAnswers
  <1>7. CASE file # NULL
    <2>1. file \in File /\ file.peers \in [Hosts -> Peer \cup {NULL}]
      BY <1>7 DEF IInv, TrackerInv, File
    <2>2. ASSUME NEW q \in Peer \cup {NULL}
          PROVE  /\ older(q) \in Peer \cup {NULL} /\ (older(q) = NULL <=> q = NULL)
                 /\ q # NULL => q.age \in Nat /\ older(q).age <= q.age + 1
      BY SMTT(20), HostsAssumption DEF Peer, Expiry, older
    <2>3. peers \in [Hosts -> Peer \cup {NULL}]
      BY <2>1, <2>2
    <2>4. \A h \in Hosts : peers[h] = older(file.peers[h])
      OBVIOUS
    <2> HIDE DEF peers
    <2>5. file' \in File /\ file'.peers = peers
      BY <1>1, <1>7, <2>1, <2>3 DEF File
    <2>6. file' # NULL
      BY <2>5, HostsAssumption
    <2>7. ASSUME NEW h \in heard PROVE Timely(h)'
      <3>1. h \in Hosts /\ h \in running /\ Timely(h)
        BY DEF HeardInv
      <3>2. link[h].m_state = 0 /\ time(h) # 0
        BY <1>1, <1>2, <1>7, <3>1 DEF Timely, due, time
      <3>3. /\ file.peers[h] # NULL /\ file.peers[h] \in Peer
            /\ file.peers[h].age + time(h) <= Interval
        <4>1. file.peers[h] # NULL /\ file.peers[h].age + time(h) <= Interval
          BY <1>7, <3>1, <3>2 DEF Timely, time
        <4> QED
          BY <2>1, <3>1, <4>1
      <3>4. /\ peers[h] # NULL /\ peers[h] \in Peer
            /\ file.peers[h].age \in Nat /\ peers[h].age <= file.peers[h].age + 1
        BY <2>2, <2>3, <2>4, <3>1, <3>3
      <3>5. peers[h].age \in Nat
        BY SMTT(20), <3>4 DEF Peer
      <3>6. /\ peers[h].age <= Interval
            /\ peers[h].age + link'[h].m_announce_time <= Interval
        BY SMTT(20), <1>3, <1>4, <3>1, <3>2, <3>3, <3>4, <3>5 DEF Interval
      <3> QED
        BY SMTT(20), <1>3, <2>5, <3>1, <3>2, <3>4, <3>6 DEF Timely
    <2>8. FreshAnswers'
      BY <1>1 DEF FreshAnswers
    <2> QED
      BY <1>1, <1>5, <2>6, <2>7, <2>8 DEF HeardInv
  <1> QED
    BY <1>6, <1>7

LEMMA InitHeard == SysInit => WireInv /\ HeardInv
  <1> SUFFICES ASSUME SysInit PROVE WireInv /\ HeardInv
    OBVIOUS
  <1>1. net = {} /\ heard = {} /\ running = {} /\ file = NULL
    BY DEF SysInit, Init
  <1>2. \A h \in Hosts : link[h].m_state = 0 /\ link[h].m_announce_time = 0
    BY SMTT(20) DEF SysInit, Cbt_tracker_link
  <1>3. \A h \in Hosts : Wire(h) = {}
    BY <1>1 DEF Wire, Replies, Requests
  <1> QED
    BY SMTT(20), <1>1, <1>2, <1>3 DEF WireInv, LineOK, HeardInv, FreshAnswers

LEMMA NextHeard ==
    ASSUME IInv, WireInv, HeardInv, [Next]_vars, clean_up => file' \in File
    PROVE  WireInv' /\ HeardInv'
  <1>1. ASSUME NEW h \in Hosts, select_loop(h) PROVE WireInv' /\ HeardInv'
    BY <1>1, PreSelectHeard, ConnectedHeard, RecvConnectHeard, RecvAnswerHeard, TimeoutHeard
       DEF select_loop
  <1>2. ASSUME NEW h \in Hosts, user(h) PROVE WireInv' /\ HeardInv'
    BY <1>2, UserHeard
  <1>3. ASSUME NEW m \in net, recv(m) \/ lose(m) PROVE WireInv' /\ HeardInv'
    BY <1>3, RecvHeard, LoseHeard
  <1>4. CASE down
    <2>1. Reset /\ file' = NULL /\ UNCHANGED <<running, link>>
      BY <1>4 DEF down, term, crash, Down
    <2> QED
      BY <2>1, ResetHeard
  <1>5. CASE UNCHANGED vars
    <2>1. TaskKeeps
      BY <1>5, Zenon DEF vars, tracker, TaskKeeps, HeardInv, Deleted
    <2> QED
      BY <2>1, TaskHeard, Zenon
  <1>6. CASE tasks
    BY <1>6, TasksHeard
  <1> QED
    BY <1>1, <1>2, <1>3, <1>4, <1>5, <1>6, TickHeard DEF Next

\* clean_up, insert_peer and the announce interval of Cbt_tracker_link: whatever is lost,
\* delayed or restarted, a client whose announces are all answered is never erased; the
\* tracker of a torrent deleted under it refuses it.
THEOREM AnsweredAlwaysListed == Spec => []ListedWhileAnswered
  <1>1. HeardInv => ListedWhileAnswered
    BY DEF HeardInv, Timely, ListedWhileAnswered, listed, refused
  <1>2. IInv /\ WireInv /\ HeardInv /\ [Next]_vars => IInv' /\ WireInv' /\ HeardInv'
    <2> SUFFICES ASSUME IInv, WireInv, HeardInv, [Next]_vars PROVE IInv' /\ WireInv' /\ HeardInv'
      OBVIOUS
    <2>1. clean_up => file' \in File
      BY CleanUp DEF IInv
    <2> QED
      BY <2>1, StepIInv, NextHeard
  <1> QED
    BY InitIInv, InitHeard, <1>1, <1>2, PTL DEF Spec

=============================================================================
