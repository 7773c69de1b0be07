--------------------------- MODULE GuidanceProofs ---------------------------
(***************************************************************************)
(* Proofs about Guidance for any finite sets of ISPs and selection         *)
(* managers, any options and any number of updates: the times of the       *)
(* matrices, the options in effect and which thread computes what; then    *)
(* the references to the matrices, which are counted exactly.              *)
(***************************************************************************)
EXTENDS Guidance, Integers, FiniteSetTheorems, TLAPS

\* The provers' time limits, where a step names no prover.
USE ZenonT(20), SMTT(20)

Keys == SelMgrs \X ISPs

Matrix == [isp : ISPs, options : Options, refs : Int, time : Nat, weights : Nat]

Visits(c) == c.pc \in {"assign", "list", "ask"}

\* A computation that is under way: weights are for PIDs listed after the time was read.
CallOK(c) ==
    /\ "pc" \in DOMAIN c
    /\ c = Idle \/ Visits(c) \/ c.pc \in {"lookup", "thrown", "undefined"}
    /\ Visits(c) \/ c.pc = "lookup" => c.s \in SelMgrs /\ c.todo \subseteq ISPs
    /\ Visits(c) => c.isp \in ISPs /\ c.m \in Matrices
    /\ c.pc \in {"list", "ask"} => c.time \in Nat /\ c.time <= m_lastUpdate[c.isp]
    /\ c.pc = "ask" => c.rows \in Nat /\ c.time <= c.rows

Mats(mats) == DOMAIN mats \subseteq Matrices /\ mats \in [DOMAIN mats -> Matrix]

TimeInv ==
    /\ pids \in [ISPs -> 0..MaxUpdates] /\ m_lastUpdate \in [ISPs -> 0..MaxUpdates]
    /\ \A i \in ISPs : m_lastUpdate[i] <= pids[i]
    /\ DOMAIN call = Threads /\ \A t \in Threads : CallOK(call[t])
    /\ Mats(m_matrices) /\ \A m \in DOMAIN m_matrices : m_matrices[m].time <= m_matrices[m].weights
    /\ m_guidance \in [SelMgrs -> [ISPs -> Matrices \cup {NULL}]]

OptsInv ==
    /\ m_guidance_opts_default \in [SelMgrs -> Options]
    /\ DOMAIN m_guidance_opts = SelMgrs
    /\ \A s \in SelMgrs : \A i \in DOMAIN m_guidance_opts[s] : m_guidance_opts[s][i] \in Options

\* The two threads compute the guidance of different selection managers: the application
\* of one that it has not registered yet, the update manager of one that is registered.
OwnerInv ==
    /\ m_selection_mgrs \subseteq m_guidance_initialized \ gone
    /\ m_guidance_initialized \subseteq SelMgrs
    /\ ~idle("app") => call["app"].s \in m_guidance_initialized \ (m_selection_mgrs \cup gone)
    /\ ~idle("update") => call["update"].s \in m_selection_mgrs
    /\ tasks \subseteq m_selection_mgrs \X ISPs
    /\ \A t \in Threads : call[t].pc \notin {"thrown", "undefined"}

\* What the selection managers refer to.
Pointers == [k \in Keys |-> Pointer(k[1], k[2])]

UsersOf(P, m) == {k \in Keys : P[k] = m}

\* References go to live matrices of their ISP ...
Linked(mats, P, h) ==
    /\ P \in [Keys -> Matrices \cup {NULL}]
    /\ \A k \in Keys : P[k] # NULL => P[k] \in DOMAIN mats /\ mats[P[k]].isp = k[2]
    /\ h \in DOMAIN mats \cup {NULL}

\* ... and are counted.
Counted(mats, P, h) ==
    \A m \in DOMAIN mats :
        /\ mats[m].refs = Cardinality(UsersOf(P, m)) + (IF h = m THEN 1 ELSE 0)
        /\ mats[m].refs > 0
        /\ SwarmDependent(mats[m].options) => Cardinality(UsersOf(P, m)) <= 1

\* Generic matrices are shared.
Shared(mats) ==
    \A m, k \in DOMAIN mats : m # k =>
        SwarmDependent(mats[m].options) \/ mats[k].isp # mats[m].isp \/ mats[k].options # mats[m].options

RefInv(mats, P, h) == Mats(mats) /\ Linked(mats, P, h) /\ Counted(mats, P, h) /\ Shared(mats)

\* The matrix that is computed is the one that the selection manager refers to.
ComputeInv ==
    \A t \in Threads : Visits(call[t]) =>
        /\ Pointers[<<call[t].s, call[t].isp>>] = call[t].m
        /\ SameOptions(m_matrices[call[t].m].options, getConfiguredOptions(call[t].s, call[t].isp))

IInv ==
    /\ TimeInv /\ OptsInv
    /\ ~register_first => OwnerInv /\ RefInv(m_matrices, Pointers, held) /\ ComputeInv

-----------------------------------------------------------------------------
(* What the matrix manager does. *)

\* releaseGuidanceMatrixNoLock() changes nothing but counts.
Released(mats, M, r) ==
    /\ Mats(r) /\ DOMAIN r = DOMAIN mats \ {k \in M : mats[k].refs = 1}
    /\ \A m \in DOMAIN r :
         /\ r[m].isp = mats[m].isp /\ r[m].options = mats[m].options
         /\ r[m].time = mats[m].time /\ r[m].weights = mats[m].weights
         /\ r[m].refs = IF m \in M THEN mats[m].refs - 1 ELSE mats[m].refs

LEMMA ReleaseFields ==
    ASSUME NEW mats, Mats(mats), NEW M
    PROVE  Released(mats, M, releaseGuidanceMatrixNoLock(mats, M))
  <1> DEFINE r == releaseGuidanceMatrixNoLock(mats, M)
  <1>1. DOMAIN r = DOMAIN mats \ {k \in M : mats[k].refs = 1}
    BY DEF releaseGuidanceMatrixNoLock
  <1>2. ASSUME NEW m \in DOMAIN r
        PROVE  /\ r[m] \in Matrix
               /\ r[m].isp = mats[m].isp /\ r[m].options = mats[m].options
               /\ r[m].time = mats[m].time /\ r[m].weights = mats[m].weights
               /\ r[m].refs = IF m \in M THEN mats[m].refs - 1 ELSE mats[m].refs
    <2>1. mats[m] \in Matrix
      BY <1>1, <1>2 DEF Mats
    <2>2. r[m] = IF m \in M THEN [mats[m] EXCEPT !.refs = mats[m].refs - 1] ELSE mats[m]
      BY <1>1, <1>2 DEF releaseGuidanceMatrixNoLock
    <2> QED
      BY SMTT(20), <2>1, <2>2 DEF Matrix
  <1>3. r = [m \in DOMAIN r |-> r[m]]
    BY DEF releaseGuidanceMatrixNoLock
  <1> HIDE DEF r
  <1>4. Mats(r)
    BY <1>1, <1>2, <1>3 DEF Mats
  <1> QED
    BY <1>1, <1>2, <1>4 DEF r, Released

\* The references of the keys D are given up, each to a matrix of its own in M.
Drops(P, Q, D, M) ==
    /\ D \subseteq Keys /\ \A j, l \in D : P[j] = P[l] => j = l \/ P[j] = NULL
    /\ \A j \in D : P[j] \in M
    /\ \A m \in M : m # NULL => \E j \in D : P[j] = m
    /\ Q = [j \in Keys |-> IF j \in D THEN NULL ELSE P[j]]

\* getGuidanceMatrixNoLock() finds a matrix that is shared, or makes one.
Gains(P, Q, k, m) == Q = [j \in Keys |-> IF j = k THEN m ELSE P[j]]

KeepsOptions(mats, after, P) == \A k \in Keys : P[k] # NULL => after[P[k]].options = mats[P[k]].options

-----------------------------------------------------------------------------
(* What the selection managers refer to. *)

\* Thread t of c is about to assign the matrix of s for i.
Assigns(c, t, s, i) == c[t].pc = "assign" /\ c[t].s = s /\ c[t].isp = i

Alone(c) == \A t, u \in Threads : \A s, i : Assigns(c, t, s, i) /\ Assigns(c, u, s, i) => t = u

PointerAt(c, g, s, i) ==
    LET T == {t \in Threads : Assigns(c, t, s, i)}
    IN  IF T = {} THEN g[s][i] ELSE c[CHOOSE t \in T : TRUE].m

LEMMA PointerNow ==
    /\ Pointers = [k \in Keys |-> PointerAt(call, m_guidance, k[1], k[2])]
    /\ Pointers' = [k \in Keys |-> PointerAt(call', m_guidance', k[1], k[2])]
  BY DEF Pointers, Pointer, PointerAt, Assigns

LEMMA Assigned ==
    ASSUME NEW c, NEW g, NEW s, NEW i, Alone(c), NEW t \in Threads, Assigns(c, t, s, i)
    PROVE  PointerAt(c, g, s, i) = c[t].m
  <1>1. {u \in Threads : Assigns(c, u, s, i)} = {t}
    BY DEF Alone
  <1> QED
    BY <1>1 DEF PointerAt

NoneAssigns(c, s, i) == \A t \in Threads : ~Assigns(c, t, s, i)

LEMMA Stored ==
    ASSUME NEW c, NEW g, NEW s, NEW i, NoneAssigns(c, s, i)
    PROVE  PointerAt(c, g, s, i) = g[s][i]
  <1>1. {u \in Threads : Assigns(c, u, s, i)} = {}
    BY DEF NoneAssigns
  <1> QED
    BY <1>1 DEF PointerAt

SameAssigns(c, d, s, i) ==
    \A t \in Threads : /\ Assigns(d, t, s, i) <=> Assigns(c, t, s, i)
                       /\ Assigns(c, t, s, i) => d[t] = c[t]

LEMMA SamePointer ==
    ASSUME NEW c, NEW d, NEW f, NEW g, NEW s, NEW i, SameAssigns(c, d, s, i), f[s][i] = g[s][i]
    PROVE  PointerAt(d, f, s, i) = PointerAt(c, g, s, i)
  <1> DEFINE T == {t \in Threads : Assigns(c, t, s, i)}
             x == CHOOSE t \in T : TRUE
  <1>1. {t \in Threads : Assigns(d, t, s, i)} = T
    BY DEF SameAssigns
  <1>2. PointerAt(c, g, s, i) = IF T = {} THEN g[s][i] ELSE c[x].m
    BY DEF PointerAt
  <1>3. PointerAt(d, f, s, i) = IF T = {} THEN f[s][i] ELSE d[x].m
    <2> DEFINE S == {t \in Threads : Assigns(d, t, s, i)}
    <2>1. PointerAt(d, f, s, i) = IF S = {} THEN f[s][i] ELSE d[CHOOSE t \in S : TRUE].m
      BY DEF PointerAt
    <2>2. S = T
      BY <1>1
    <2> HIDE DEF S, T
    <2> QED
      BY <2>1, <2>2
  <1>4. T # {} => x \in T
    OBVIOUS
  <1>5. \A t \in T : d[t] = c[t]
    BY DEF SameAssigns
  <1> HIDE DEF T, x
  <1> QED
    BY SMTT(20), <1>2, <1>3, <1>4, <1>5

\* Steps that assign nothing.
LEMMA SamePointers ==
    ASSUME UNCHANGED m_guidance,
           \A t \in Threads : call'[t] = call[t] \/ (call[t].pc # "assign" /\ call'[t].pc # "assign")
    PROVE  Pointers' = Pointers
  <1>1. ASSUME NEW s, NEW i PROVE PointerAt(call', m_guidance', s, i) = PointerAt(call, m_guidance, s, i)
    <2>1. SameAssigns(call, call', s, i)
      BY DEF SameAssigns, Assigns
    <2> QED
      BY SMTT(20), <2>1, SamePointer
  <1> QED
    BY <1>1, PointerNow

\* lookup(): the matrix is the selection manager's before it is assigned.
LEMMA LookupPointers ==
    ASSUME UNCHANGED m_guidance, Alone(call'), NEW t \in Threads, NEW s, NEW i, NEW m,
           call[t].pc # "assign", Assigns(call', t, s, i), call'[t].m = m,
           \A u \in Threads \ {t} : call'[u] = call[u], <<s, i>> \in Keys
    PROVE  Gains(Pointers, Pointers', <<s, i>>, m)
  <1>1. PointerAt(call', m_guidance', s, i) = m
    BY SMTT(20), Assigned
  <1>2. ASSUME NEW r, NEW j, ~(r = s /\ j = i)
        PROVE  PointerAt(call', m_guidance', r, j) = PointerAt(call, m_guidance, r, j)
    <2>1. SameAssigns(call, call', r, j)
      BY <1>2 DEF SameAssigns, Assigns
    <2> QED
      BY SMTT(20), <2>1, SamePointer
  <1>3. ASSUME NEW k \in Keys
        PROVE  PointerAt(call', m_guidance', k[1], k[2])
                 = IF k = <<s, i>> THEN m ELSE PointerAt(call, m_guidance, k[1], k[2])
    BY SMTT(20), <1>1, <1>2 DEF Keys
  <1> QED
    BY <1>3, PointerNow DEF Gains

\* assign(): it is the same after.
Stores(f, g, s, i, m) ==
    /\ f[s][i] = m
    /\ \A r \in SelMgrs, j \in ISPs : ~(r = s /\ j = i) => f[r][j] = g[r][j]

LEMMA AssignPointers ==
    ASSUME Alone(call), Alone(call'), NEW t \in Threads, NEW s \in SelMgrs, NEW i \in ISPs,
           Assigns(call, t, s, i), call'[t].pc # "assign", \A u \in Threads \ {t} : call'[u] = call[u],
           Stores(m_guidance', m_guidance, s, i, call[t].m)
    PROVE  Pointers' = Pointers
  <1>1. /\ m_guidance'[s][i] = call[t].m
        /\ \A r \in SelMgrs, j \in ISPs : ~(r = s /\ j = i) => m_guidance'[r][j] = m_guidance[r][j]
    BY DEF Stores
  <1>2. PointerAt(call, m_guidance, s, i) = call[t].m
    BY SMTT(20), Assigned
  <1>3. PointerAt(call', m_guidance', s, i) = call[t].m
    <2>1. NoneAssigns(call', s, i)
      BY DEF Alone, Assigns, NoneAssigns
    <2>2. PointerAt(call', m_guidance', s, i) = m_guidance'[s][i]
      BY SMTT(20), <2>1, Stored
    <2> QED
      BY <1>1, <2>2
  <1>4. ASSUME NEW r \in SelMgrs, NEW j \in ISPs, ~(r = s /\ j = i)
        PROVE  PointerAt(call', m_guidance', r, j) = PointerAt(call, m_guidance, r, j)
    <2>1. SameAssigns(call, call', r, j)
      BY <1>4 DEF SameAssigns, Assigns
    <2> QED
      <3>1. m_guidance'[r][j] = m_guidance[r][j]
        BY <1>1, <1>4
      <3> QED
        BY SMTT(20), <2>1, <3>1, SamePointer
  <1>5. ASSUME NEW k \in Keys
        PROVE  PointerAt(call', m_guidance', k[1], k[2]) = PointerAt(call, m_guidance, k[1], k[2])
    BY <1>2, <1>3, <1>4 DEF Keys
  <1> QED
    BY <1>5, PointerNow

\* deleteSelectionManager(): its references are given up when no thread computes.
Clears(f, g, s) ==
    /\ \A i \in ISPs : f[s][i] = NULL
    /\ \A r \in SelMgrs \ {s} : f[r] = g[r]

Quiet(c) == \A t \in Threads : c[t].pc # "assign"

LEMMA DeletePointers ==
    ASSUME RefInv(m_matrices, Pointers, held), Quiet(call), Quiet(call'),
           NEW s \in SelMgrs, Clears(m_guidance', m_guidance, s)
    PROVE  Drops(Pointers, Pointers', {s} \X ISPs, {m_guidance[s][i] : i \in ISPs})
  <1>1. ASSUME NEW r, NEW j
        PROVE  /\ PointerAt(call, m_guidance, r, j) = m_guidance[r][j]
               /\ PointerAt(call', m_guidance', r, j) = m_guidance'[r][j]
    <2>1. NoneAssigns(call, r, j) /\ NoneAssigns(call', r, j)
      BY DEF NoneAssigns, Assigns, Quiet
    <2>2. PointerAt(call, m_guidance, r, j) = m_guidance[r][j]
      BY SMTT(20), <2>1, Stored
    <2>3. PointerAt(call', m_guidance', r, j) = m_guidance'[r][j]
      BY SMTT(20), <2>1, Stored
    <2> QED
      BY <2>2, <2>3
  <1>2. Pointers = [k \in Keys |-> m_guidance[k[1]][k[2]]] /\ Pointers' = [k \in Keys |-> m_guidance'[k[1]][k[2]]]
    BY SMTT(20), <1>1, PointerNow
  <1>3. /\ \A i \in ISPs : m_guidance'[s][i] = NULL
        /\ \A r \in SelMgrs \ {s} : m_guidance'[r] = m_guidance[r]
    BY DEF Clears
  <1>4. \A k \in Keys : k = <<k[1], k[2]>> /\ k[1] \in SelMgrs /\ k[2] \in ISPs
    BY SMTT(20) DEF Keys
  <1>5. Pointers' = [k \in Keys |-> IF k \in {s} \X ISPs THEN NULL ELSE Pointers[k]]
    BY SMTT(20), <1>2, <1>3, <1>4
  <1>6. {s} \X ISPs \subseteq Keys
    BY DEF Keys
  <1>7. \A j, l \in {s} \X ISPs : Pointers[j] = Pointers[l] => j = l \/ Pointers[j] = NULL
    <2>1. \A j \in Keys : Pointers[j] # NULL => m_matrices[Pointers[j]].isp = j[2]
      BY DEF RefInv, Linked
    <2> QED
      BY SMTT(20), <1>4, <1>6, <2>1
  <1>8. \A j \in {s} \X ISPs : Pointers[j] \in {m_guidance[s][i] : i \in ISPs}
    BY <1>2, <1>4, <1>6
  <1>9. ASSUME NEW m \in {m_guidance[s][i] : i \in ISPs} PROVE \E j \in {s} \X ISPs : Pointers[j] = m
    <2>1. PICK i \in ISPs : m = m_guidance[s][i]
      BY <1>9
    <2>2. <<s, i>> \in {s} \X ISPs /\ Pointers[<<s, i>>] = m
      BY <1>2, <1>6, <2>1
    <2> QED
      BY <2>2
  <1> QED
    BY <1>5, <1>6, <1>7, <1>8, <1>9 DEF Drops

-----------------------------------------------------------------------------
(* The times of the pDistances and the PIDs that weights are for. *)

Timed(mats) == Mats(mats) /\ \A m \in DOMAIN mats : mats[m].time <= mats[m].weights

LEMMA ReleaseTimed ==
    ASSUME NEW mats, Timed(mats), NEW M
    PROVE  Timed(releaseGuidanceMatrixNoLock(mats, M))
  <1> DEFINE r == releaseGuidanceMatrixNoLock(mats, M)
  <1>1. Released(mats, M, r)
    BY ReleaseFields DEF Timed
  <1> HIDE DEF r
  <1>2. Timed(r)
    BY <1>1 DEF Timed, Released
  <1> QED
    BY <1>2 DEF r

\* One matrix changes, or none where there is none.
LEMMA UpdateTimed ==
    ASSUME NEW mats, Timed(mats), NEW m, NEW x, x \in Matrix, x.time <= x.weights
    PROVE  Timed([mats EXCEPT ![m] = x])
  <1> DEFINE after == [mats EXCEPT ![m] = x]
  <1>1. /\ DOMAIN after = DOMAIN mats
        /\ \A k \in DOMAIN after : after[k] = IF k = m THEN x ELSE mats[k]
        /\ after = [k \in DOMAIN after |-> after[k]]
    OBVIOUS
  <1>2. \A k \in DOMAIN mats : mats[k] \in Matrix
    BY DEF Timed, Mats
  <1> HIDE DEF after
  <1>3. Mats(after)
    BY <1>1, <1>2 DEF Timed, Mats
  <1>4. Timed(after)
    BY <1>1, <1>3 DEF Timed
  <1> QED
    BY <1>4 DEF after

LEMMA GetTimed ==
    ASSUME NEW mats, Timed(mats), NEW i \in ISPs, NEW o \in Options, NEW m \in Matrices, NEW after,
           getGuidanceMatrixNoLock(mats, i, o, m, after)
    PROVE  Timed(after)
  <1> DEFINE new == [isp |-> i, options |-> o, refs |-> 1, time |-> 0, weights |-> 0]
  <1>1. CASE after = With(mats, m, new)
    <2>1. /\ DOMAIN after = DOMAIN mats \cup {m}
          /\ \A k \in DOMAIN after : after[k] = IF k = m THEN new ELSE mats[k]
          /\ after = [k \in DOMAIN after |-> after[k]]
      BY <1>1 DEF With
    <2>2. new \in Matrix /\ new.time <= new.weights
      BY SMTT(20) DEF Matrix
    <2>3. \A k \in DOMAIN mats : mats[k] \in Matrix
      BY DEF Timed, Mats
    <2> HIDE DEF new
    <2>4. Mats(after)
      BY <2>1, <2>2, <2>3 DEF Timed, Mats
    <2> QED
      BY <2>1, <2>2, <2>4 DEF Timed
  <1>2. CASE m \in DOMAIN mats /\ after = [mats EXCEPT ![m] = [mats[m] EXCEPT !.refs = mats[m].refs + 1]]
    <2> DEFINE x == [mats[m] EXCEPT !.refs = mats[m].refs + 1]
    <2>1. mats[m] \in Matrix /\ mats[m].time <= mats[m].weights
      BY <1>2 DEF Timed, Mats
    <2>2. x \in Matrix /\ x.time <= x.weights
      BY SMTT(20), <2>1 DEF Matrix
    <2> QED
      BY <1>2, <2>2, UpdateTimed
  <1> QED
    BY <1>1, <1>2 DEF getGuidanceMatrixNoLock

CallsOK(c) == DOMAIN c = Threads /\ \A t \in Threads : CallOK(c[t])

LEMMA TimeInvIs ==
    TimeInv <=>
      /\ pids \in [ISPs -> 0..MaxUpdates] /\ m_lastUpdate \in [ISPs -> 0..MaxUpdates]
      /\ \A i \in ISPs : m_lastUpdate[i] <= pids[i]
      /\ CallsOK(call) /\ Timed(m_matrices)
      /\ m_guidance \in [SelMgrs -> [ISPs -> Matrices \cup {NULL}]]
  BY DEF TimeInv, CallsOK, Timed

\* A thread's step: the times of the pDistances stay.
LEMMA CallStep ==
    ASSUME CallsOK(call), UNCHANGED m_lastUpdate, NEW t \in Threads, NEW c, CallOK(c),
           call' = [call EXCEPT ![t] = c]
    PROVE  CallsOK(call)'
  <1>1. DOMAIN call' = Threads /\ \A u \in Threads : call'[u] = IF u = t THEN c ELSE call[u]
    BY DEF CallsOK
  <1>2. ASSUME NEW u \in Threads PROVE CallOK(call[u])'
    BY <1>1, <1>2 DEF CallsOK, CallOK
  <1> QED
    BY <1>1, <1>2 DEF CallsOK

LEMMA CallsStay ==
    ASSUME CallsOK(call), UNCHANGED <<m_lastUpdate, call>>
    PROVE  CallsOK(call)'
  BY DEF CallsOK, CallOK

LEMMA ReturnedOK ==
    ASSUME TimeInv, NEW t \in Threads, Visits(call[t])
    PROVE  CallOK(Returned(t))
  <1>1. CallOK(call[t])
    BY DEF TimeInv
  <1>2. call[t].s \in SelMgrs /\ call[t].todo \subseteq ISPs
    BY <1>1 DEF CallOK
  <1>3. Returned(t) = Idle \/ \E T \in SUBSET ISPs : Returned(t) = [pc |-> "lookup", s |-> call[t].s, todo |-> T]
    BY <1>2 DEF Returned
  <1> QED
    BY SMTT(20), <1>2, <1>3 DEF CallOK, Idle, Visits

LEMMA ConfiguredType ==
    ASSUME OptsInv, NEW s \in SelMgrs, NEW i
    PROVE  getConfiguredOptions(s, i) \in Options
  BY DEF OptsInv, getConfiguredOptions

\* The application's steps
LEMMA ApplicationTime ==
    ASSUME TimeInv, OptsInv, NEW s \in SelMgrs, application(s)
    PROVE  TimeInv'
  <1>0. /\ CallsOK(call) /\ Timed(m_matrices) /\ "app" \in Threads
        /\ m_guidance \in [SelMgrs -> [ISPs -> Matrices \cup {NULL}]]
    BY TimeInvIs DEF Threads
  <1>1. UNCHANGED <<pids, m_lastUpdate>>
    BY
       DEF application, newSelectionManager, initGuidance, addSelectionManager,
           deleteSelectionManager, configure,
           setDefaultOptions, setISPOptions, clearISPOptions, selectPeers, getGuidanceMatrix, isps
  <1>2. Timed(m_matrices)'
    <2>1. CASE deleteSelectionManager(s)
      BY <1>0, <2>1, ReleaseTimed DEF deleteSelectionManager
    <2>2. CASE \E i \in ISPs : getGuidanceMatrix(s, i)
      <3>1. m_matrices' = [m_matrices EXCEPT ![held'] = [m_matrices[held'] EXCEPT !.refs = m_matrices[held'].refs + 1]]
        BY <2>2 DEF getGuidanceMatrix
      <3> DEFINE x == [m_matrices[held'] EXCEPT !.refs = m_matrices[held'].refs + 1]
      <3>2. CASE held' \in DOMAIN m_matrices
        <4>1. m_matrices[held'] \in Matrix /\ m_matrices[held'].time <= m_matrices[held'].weights
          BY <1>0, <3>2 DEF Timed, Mats
        <4>2. x \in Matrix /\ x.time <= x.weights
          BY SMTT(20), <4>1 DEF Matrix
        <4> HIDE DEF x
        <4>3. Timed([m_matrices EXCEPT ![held'] = x])
          BY <1>0, <4>2, UpdateTimed
        <4> QED
          BY <3>1, <4>3 DEF x
      <3>3. CASE held' \notin DOMAIN m_matrices
        <4>1. m_matrices = [k \in DOMAIN m_matrices |-> m_matrices[k]]
          BY <1>0 DEF Timed, Mats
        <4>2. m_matrices' = m_matrices
          BY <3>1, <3>3, <4>1
        <4> QED
          BY <1>0, <4>2
      <3> QED
        BY <3>2, <3>3
    <2>3. CASE UNCHANGED m_matrices
      BY <1>0, <2>3
    <2> QED
      BY <2>1, <2>2, <2>3
      DEF application, newSelectionManager, initGuidance, addSelectionManager, configure,
          setDefaultOptions,
          setISPOptions, clearISPOptions, selectPeers
  <1>3. CallsOK(call)'
    <2>1. CASE initGuidance(s)
      <3> DEFINE c == [pc |-> "lookup", s |-> s, todo |-> ISPs]
      <3>1. CallOK(c)
        BY DEF CallOK, Visits
      <3> QED
        BY <1>0, <1>1, <2>1, <3>1, CallStep DEF initGuidance
    <2>2. CASE call' = [call EXCEPT !["app"] = [pc |-> "undefined", s |-> s]]
      <3>1. CallOK([pc |-> "undefined", s |-> s])
        BY DEF CallOK, Visits
      <3> QED
        BY <1>0, <1>1, <2>2, <3>1, CallStep
    <2>3. CASE UNCHANGED call
      BY <1>0, <1>1, <2>3, CallsStay
    <2> QED
      BY <2>1, <2>2, <2>3
      DEF application, newSelectionManager, addSelectionManager, deleteSelectionManager, configure,
          setDefaultOptions, setISPOptions, clearISPOptions, selectPeers, getGuidanceMatrix
  <1>4. (m_guidance \in [SelMgrs -> [ISPs -> Matrices \cup {NULL}]])'
    <2>1. CASE deleteSelectionManager(s)
      BY <1>0, <2>1 DEF deleteSelectionManager
    <2>2. CASE UNCHANGED m_guidance
      BY <1>0, <2>2
    <2> QED
      BY <2>1, <2>2
      DEF application, newSelectionManager, initGuidance, addSelectionManager, configure,
          setDefaultOptions,
          setISPOptions, clearISPOptions, selectPeers, getGuidanceMatrix
  <1> QED
    BY <1>1, <1>2, <1>3, <1>4 DEF TimeInv, CallsOK, Timed

\* ask(): only the weights and their time change.
LEMMA InstalledFields ==
    ASSUME Mats(m_matrices), NEW t, call[t].time \in Nat, call[t].rows \in Nat
    PROVE  /\ DOMAIN Installed(t) = DOMAIN m_matrices /\ Mats(Installed(t))
           /\ \A m \in DOMAIN m_matrices :
                /\ Installed(t)[m].isp = m_matrices[m].isp /\ Installed(t)[m].options = m_matrices[m].options
                /\ Installed(t)[m].refs = m_matrices[m].refs
                /\ m # call[t].m => Installed(t)[m] = m_matrices[m]
                /\ m = call[t].m => Installed(t)[m].time = call[t].time /\ Installed(t)[m].weights = call[t].rows
  <1> DEFINE k == call[t].m
             one == [m_matrices EXCEPT ![k] = [m_matrices[k] EXCEPT !.weights = call[t].rows]]
             two == [one EXCEPT ![k] = [one[k] EXCEPT !.time = call[t].time]]
  <1>1. Installed(t) = two
    BY DEF Installed
  <1>2. ASSUME NEW m \in DOMAIN m_matrices
        PROVE  /\ two[m] \in Matrix /\ two[m].isp = m_matrices[m].isp /\ two[m].options = m_matrices[m].options
               /\ two[m].refs = m_matrices[m].refs
               /\ m # k => two[m] = m_matrices[m]
               /\ m = k => two[m].time = call[t].time /\ two[m].weights = call[t].rows
    <2>1. m_matrices[m] \in Matrix
      BY <1>2 DEF Mats
    <2> DEFINE x == [m_matrices[m] EXCEPT !.weights = call[t].rows]
               y == [x EXCEPT !.time = call[t].time]
    <2>2. CASE m = k
      <3>1. two[m] = y
        BY <1>2, <2>2
      <3>2. x \in Matrix /\ x.isp = m_matrices[m].isp /\ x.options = m_matrices[m].options
            /\ x.refs = m_matrices[m].refs /\ x.weights = call[t].rows
        BY <2>1 DEF Matrix
      <3> HIDE DEF x
      <3>3. y \in Matrix /\ y.isp = x.isp /\ y.options = x.options /\ y.refs = x.refs
            /\ y.weights = x.weights /\ y.time = call[t].time
        BY <3>2 DEF Matrix
      <3> HIDE DEF y, two
      <3> QED
        BY <2>2, <3>1, <3>2, <3>3
    <2>3. CASE m # k
      <3>1. two[m] = m_matrices[m]
        BY <1>2, <2>3
      <3> QED
        BY <2>1, <2>3, <3>1
    <2> QED
      BY <2>2, <2>3
  <1>3. DOMAIN two = DOMAIN m_matrices /\ two = [m \in DOMAIN two |-> two[m]]
    OBVIOUS
  <1> HIDE DEF two
  <1>4. Mats(two)
    BY <1>2, <1>3 DEF Mats
  <1> QED
    BY <1>1, <1>2, <1>3, <1>4

LEMMA InstalledTimed ==
    ASSUME Timed(m_matrices), NEW t, call[t].time \in Nat, call[t].rows \in Nat, call[t].time <= call[t].rows
    PROVE  Timed(Installed(t))
  <1>1. Mats(m_matrices) /\ \A m \in DOMAIN m_matrices : m_matrices[m].time <= m_matrices[m].weights
    BY DEF Timed
  <1>2. /\ DOMAIN Installed(t) = DOMAIN m_matrices /\ Mats(Installed(t))
        /\ \A m \in DOMAIN m_matrices :
             /\ m # call[t].m => Installed(t)[m] = m_matrices[m]
             /\ m = call[t].m => Installed(t)[m].time = call[t].time /\ Installed(t)[m].weights = call[t].rows
    BY <1>1, InstalledFields
  <1>3. ASSUME NEW m \in DOMAIN m_matrices PROVE Installed(t)[m].time <= Installed(t)[m].weights
    BY <1>1, <1>2
  <1> QED
    BY <1>2, <1>3 DEF Timed

\* The update manager's steps
LEMMA UpdateTime ==
    ASSUME TimeInv, NEW i \in ISPs, update(i)
    PROVE  TimeInv'
  <1>0. /\ CallsOK(call) /\ "update" \in Threads /\ MaxUpdates \in Nat
        /\ pids \in [ISPs -> 0..MaxUpdates] /\ m_lastUpdate \in [ISPs -> 0..MaxUpdates]
        /\ \A j \in ISPs : m_lastUpdate[j] <= pids[j]
    BY TimeInvIs, GuidanceAssumption DEF Threads
  <1>1. UNCHANGED <<m_matrices, m_guidance>>
    BY DEF update, updatePIDMap, updatePDistanceMap, updateGuidance
  <1>2. CASE updatePIDMap(i)
    <2>1. /\ pids' \in [ISPs -> 0..MaxUpdates]
          /\ \A j \in ISPs : m_lastUpdate[j] <= pids'[j]
      BY SMTT(20), <1>0, <1>2 DEF updatePIDMap
    <2>2. CallsOK(call)'
      BY <1>0, <1>2, CallsStay DEF updatePIDMap
    <2> QED
      BY <1>1, <1>2, <2>1, <2>2 DEF TimeInv, updatePIDMap, CallsOK
  <1>3. CASE updatePDistanceMap(i)
    <2>1. /\ m_lastUpdate' \in [ISPs -> 0..MaxUpdates]
          /\ \A j \in ISPs : m_lastUpdate'[j] <= pids[j] /\ m_lastUpdate[j] <= m_lastUpdate'[j]
      BY SMTT(20), <1>0, <1>3 DEF updatePDistanceMap
    <2>2. ASSUME NEW t \in Threads PROVE CallOK(call[t])'
      <3>1. call'[t] = call[t] /\ CallOK(call[t])
        BY <1>0, <1>3 DEF updatePDistanceMap, CallsOK
      <3> QED
        BY SMTT(20), <1>0, <2>1, <3>1 DEF CallOK, Visits
    <2> QED
      BY <1>0, <1>1, <1>3, <2>1, <2>2 DEF TimeInv, updatePDistanceMap
  <1>4. ASSUME NEW s \in SelMgrs, updateGuidance(s, i) PROVE TimeInv'
    <2>1. CallOK([pc |-> "lookup", s |-> s, todo |-> {i}])
      BY DEF CallOK, Visits
    <2>2. CallsOK(call)'
      BY <1>0, <1>4, <2>1, CallStep DEF updateGuidance, isps
    <2> QED
      BY <1>1, <1>4, <2>2 DEF TimeInv, updateGuidance, CallsOK, isps
  <1> QED
    BY <1>2, <1>3, <1>4 DEF update

\* The steps of a computation
LEMMA ComputeTime ==
    ASSUME TimeInv, OptsInv, NEW t \in Threads, computeGuidance(t)
    PROVE  TimeInv'
  <1>0. /\ CallsOK(call) /\ Timed(m_matrices) /\ CallOK(call[t])
        /\ pids \in [ISPs -> 0..MaxUpdates] /\ m_lastUpdate \in [ISPs -> 0..MaxUpdates]
        /\ \A j \in ISPs : m_lastUpdate[j] <= pids[j]
        /\ m_guidance \in [SelMgrs -> [ISPs -> Matrices \cup {NULL}]]
    BY TimeInvIs DEF CallsOK
  <1>1. UNCHANGED <<pids, m_lastUpdate>>
    BY
       DEF computeGuidance, lookup, lookupSame, lookupThrows, lookupFreed, assign, list, ask,
           Unchanged, isps
  <1> SUFFICES CallsOK(call)' /\ Timed(m_matrices)' /\ (m_guidance \in [SelMgrs -> [ISPs -> Matrices \cup {NULL}]])'
    BY <1>1 DEF TimeInv, CallsOK, Timed
  <1>2. ASSUME NEW p \in {"thrown", "undefined"}, Goto(t, p) PROVE CallsOK(call)'
    <2> DEFINE c == [call[t] EXCEPT !.pc = p]
    <2>1. c.pc = p /\ "pc" \in DOMAIN c
      BY <1>0 DEF CallOK
    <2>2. CallOK(c)
      BY <2>1 DEF CallOK, Visits
    <2>3. call' = [call EXCEPT ![t] = c]
      BY <1>2 DEF Goto
    <2> HIDE DEF c
    <2> QED
      BY <1>0, <1>1, <2>2, <2>3, CallStep
  <1>3. ASSUME Return(t), Visits(call[t]) PROVE CallsOK(call)'
    <2>1. CallOK(Returned(t))
      BY <1>3, ReturnedOK
    <2> QED
      BY <1>0, <1>1, <1>3, <2>1, CallStep DEF Return
  <1>4. CASE lookup(t)
    <2> DEFINE s == call[t].s
    <2>1. PICK i \in call[t].todo, m \in Matrices :
            /\ getGuidanceMatrixNoLock(releaseGuidanceMatrixNoLock(m_matrices, {m_guidance[s][i]} \ {NULL}),
                                       i, getConfiguredOptions(s, i), m, m_matrices')
            /\ call' = [call EXCEPT ![t] =
                           [pc |-> "assign", s |-> s, todo |-> call[t].todo, isp |-> i, m |-> m]]
      BY <1>4 DEF lookup
    <2>2. s \in SelMgrs /\ call[t].todo \subseteq ISPs
      BY <1>0, <1>4 DEF lookup, CallOK
    <2>3. Timed(m_matrices)'
      <3> DEFINE r == releaseGuidanceMatrixNoLock(m_matrices, {m_guidance[s][i]} \ {NULL})
                 o == getConfiguredOptions(s, i)
      <3>1. Timed(r)
        BY <1>0, ReleaseTimed
      <3>2. o \in Options /\ i \in ISPs
        BY <2>2, ConfiguredType
      <3>3. getGuidanceMatrixNoLock(r, i, o, m, m_matrices')
        BY <2>1
      <3> HIDE DEF r, o
      <3> QED
        BY <3>1, <3>2, <3>3, GetTimed
    <2>4. CallsOK(call)'
      <3> DEFINE c == [pc |-> "assign", s |-> s, todo |-> call[t].todo, isp |-> i, m |-> m]
      <3>1. CallOK(c)
        BY <2>2 DEF CallOK, Visits
      <3> HIDE DEF c
      <3> QED
        BY <1>0, <1>1, <2>1, <3>1, CallStep DEF c
    <2> QED
      BY <1>0, <1>4, <2>3, <2>4 DEF lookup
  <1>5. CASE lookupSame(t)
    <2> DEFINE s == call[t].s
    <2>1. PICK i \in call[t].todo :
            /\ m_guidance[s][i] \in DOMAIN m_matrices
            /\ call' = [call EXCEPT ![t] =
                           [pc |-> "assign", s |-> s, todo |-> call[t].todo, isp |-> i, m |-> m_guidance[s][i]]]
      BY <1>5 DEF lookupSame
    <2>2. s \in SelMgrs /\ call[t].todo \subseteq ISPs
      BY <1>0, <1>5 DEF lookupSame, CallOK
    <2> DEFINE c == [pc |-> "assign", s |-> s, todo |-> call[t].todo, isp |-> i, m |-> m_guidance[s][i]]
    <2>3. m_guidance[s][i] \in Matrices
      BY <1>0, <2>1 DEF Timed, Mats
    <2>4. CallOK(c)
      BY <2>2, <2>3 DEF CallOK, Visits
    <2> HIDE DEF c
    <2>5. CallsOK(call)'
      BY <1>0, <1>1, <2>1, <2>4, CallStep DEF c
    <2> QED
      BY <1>0, <1>5, <2>5 DEF lookupSame
  <1>6. CASE lookupThrows(t) \/ lookupFreed(t)
    BY <1>0, <1>2, <1>6 DEF lookupThrows, lookupFreed
  <1>7. CASE assign(t)
    <2>1. Visits(call[t]) /\ call[t].s \in SelMgrs /\ call[t].isp \in ISPs /\ call[t].m \in Matrices
          /\ call[t].todo \subseteq ISPs
      BY <1>0, <1>7 DEF assign, CallOK, Visits
    <2>2. m_guidance' \in [SelMgrs -> [ISPs -> Matrices \cup {NULL}]]
      BY <1>0, <1>7, <2>1 DEF assign
    <2>3. Goto(t, "undefined") \/ Return(t) \/
            call' = [call EXCEPT ![t] = [pc |-> "list", s |-> call[t].s, todo |-> call[t].todo,
                       isp |-> call[t].isp, m |-> call[t].m, time |-> m_lastUpdate[call[t].isp]]]
      BY <1>7 DEF assign
    <2>4. CallOK([pc |-> "list", s |-> call[t].s, todo |-> call[t].todo,
                  isp |-> call[t].isp, m |-> call[t].m, time |-> m_lastUpdate[call[t].isp]])
      BY SMTT(20), <1>0, <2>1, GuidanceAssumption DEF CallOK, Visits
    <2>5. CallsOK(call)'
      BY <1>0, <1>1, <1>2, <1>3, <2>1, <2>3, <2>4, CallStep
    <2> QED
      BY <1>0, <1>7, <2>2, <2>5 DEF assign
  <1>8. CASE list(t)
    <2>1. /\ Visits(call[t]) /\ call[t].s \in SelMgrs /\ call[t].isp \in ISPs /\ call[t].m \in Matrices
          /\ call[t].todo \subseteq ISPs /\ call[t].time \in Nat /\ call[t].time <= m_lastUpdate[call[t].isp]
      BY <1>0, <1>8 DEF list, CallOK, Visits
    <2> DEFINE c == [pc |-> "ask", s |-> call[t].s, todo |-> call[t].todo, isp |-> call[t].isp, m |-> call[t].m,
                     time |-> call[t].time, rows |-> pids[call[t].isp]]
    <2>2. Return(t) \/ call' = [call EXCEPT ![t] = c]
      BY <1>8 DEF list
    <2>3. pids[call[t].isp] \in Nat /\ m_lastUpdate[call[t].isp] \in Nat /\ call[t].time <= pids[call[t].isp]
      BY SMTT(20), <1>0, <2>1, GuidanceAssumption
    <2>4. CallOK(c)
      BY <2>1, <2>3 DEF CallOK, Visits
    <2> HIDE DEF c
    <2>5. CallsOK(call)'
      BY <1>0, <1>1, <1>3, <2>1, <2>2, <2>4, CallStep
    <2> QED
      BY <1>0, <1>8, <2>5 DEF list, Unchanged
  <1>9. CASE ask(t)
    <2>1. /\ Visits(call[t]) /\ call[t].time \in Nat /\ call[t].rows \in Nat /\ call[t].time <= call[t].rows
      BY <1>0, <1>9 DEF ask, CallOK, Visits
    <2>2. CallsOK(call)'
      BY <1>3, <1>9, <2>1 DEF ask
    <2>3. Timed(Installed(t))
      BY <1>0, <2>1, InstalledTimed
    <2> QED
      BY <1>0, <1>9, <2>2, <2>3 DEF ask, Unchanged
  <1> QED
    BY <1>4, <1>5, <1>6, <1>7, <1>8, <1>9 DEF computeGuidance

LEMMA ReleaseTime ==
    ASSUME TimeInv, releaseGuidanceMatrix
    PROVE  TimeInv'
  <1>1. Timed(m_matrices) /\ CallsOK(call)
    BY TimeInvIs
  <1>2. Timed(m_matrices)' /\ CallsOK(call)'
    BY <1>1, ReleaseTimed, CallsStay DEF releaseGuidanceMatrix, isps
  <1> QED
    BY <1>2 DEF releaseGuidanceMatrix, isps, TimeInv, Timed, CallsOK

LEMMA OptsStep ==
    ASSUME OptsInv, [Next]_vars
    PROVE  OptsInv'
  <1>0. DefaultOptions \in Options
    BY GuidanceAssumption
  <1>1. CASE UNCHANGED opts
    BY <1>1 DEF OptsInv, opts
  <1>2. ASSUME NEW s \in SelMgrs, NEW o \in Options, setDefaultOptions(s, o) PROVE OptsInv'
    BY <1>2 DEF setDefaultOptions, OptsInv
  <1>3. ASSUME NEW s \in SelMgrs, NEW i \in ISPs, NEW o \in Options, setISPOptions(s, i, o) PROVE OptsInv'
    <2>1. m_guidance_opts' = [m_guidance_opts EXCEPT ![s] = With(m_guidance_opts[s], i, o)]
      BY <1>3 DEF setISPOptions
    <2>2. \A j \in DOMAIN With(m_guidance_opts[s], i, o) : With(m_guidance_opts[s], i, o)[j] \in Options
      BY DEF OptsInv, With
    <2> QED
      BY <1>3, <2>1, <2>2 DEF OptsInv, setISPOptions
  <1>4. ASSUME NEW s \in SelMgrs, NEW i \in ISPs, clearISPOptions(s, i) PROVE OptsInv'
    BY <1>4 DEF clearISPOptions, OptsInv
  <1>5. ASSUME NEW s \in SelMgrs, deleteSelectionManager(s) PROVE OptsInv'
    <2>1. /\ m_guidance_opts_default' = [m_guidance_opts_default EXCEPT ![s] = DefaultOptions]
          /\ m_guidance_opts' = [m_guidance_opts EXCEPT ![s] = <<>>]
      BY <1>5 DEF deleteSelectionManager
    <2>2. DOMAIN <<>> = {}
      BY SMTT(20)
    <2> QED
      BY <1>0, <2>1, <2>2 DEF OptsInv
  <1>6. ASSUME NEW s \in SelMgrs, application(s) PROVE OptsInv'
    BY <1>1, <1>2, <1>3, <1>4, <1>5, <1>6
    DEF application, configure, newSelectionManager, initGuidance, addSelectionManager,
        selectPeers, getGuidanceMatrix
  <1>7. ASSUME NEW t \in Threads, computeGuidance(t) PROVE UNCHANGED opts
    BY <1>7
       DEF computeGuidance, lookup, lookupSame, lookupThrows, lookupFreed, assign, list, ask,
           Unchanged
  <1>8. ASSUME NEW i \in ISPs, update(i) PROVE UNCHANGED opts
    BY <1>8 DEF update, updatePIDMap, updatePDistanceMap, updateGuidance
  <1>9. releaseGuidanceMatrix => UNCHANGED opts
    BY DEF releaseGuidanceMatrix
  <1>10. UNCHANGED vars => UNCHANGED opts
    BY DEF vars
  <1> QED
    BY <1>1, <1>6, <1>7, <1>8, <1>9, <1>10 DEF Next

LEMMA TimeStep ==
    ASSUME TimeInv, OptsInv, [Next]_vars
    PROVE  TimeInv'
  <1>1. CASE UNCHANGED vars
    <2>1. UNCHANGED <<pids, m_lastUpdate, call, m_matrices, m_guidance>>
      BY <1>1 DEF vars, isps
    <2>2. CallsOK(call)'
      BY <2>1, TimeInvIs, CallsStay
    <2> QED
      BY <2>1, <2>2 DEF TimeInv, CallsOK
  <1> QED
    BY <1>1, ApplicationTime, UpdateTime, ComputeTime, ReleaseTime DEF Next

-----------------------------------------------------------------------------
(* The selection managers that the threads compute the guidance of. *)

LEMMA Owners ==
    ASSUME OwnerInv, NEW t \in Threads, NEW u \in Threads, ~idle(t), ~idle(u), call[t].s = call[u].s
    PROVE  t = u
  BY SMTT(20) DEF OwnerInv, Threads

LEMMA OwnersAlone ==
    ASSUME OwnerInv
    PROVE  Alone(call)
  <1> SUFFICES ASSUME NEW t \in Threads, NEW u \in Threads, NEW s, NEW i, Assigns(call, t, s, i), Assigns(call, u, s, i)
               PROVE  t = u
    BY DEF Alone
  <1>1. ~idle(t) /\ ~idle(u) /\ call[t].s = call[u].s
    BY SMTT(20) DEF Assigns, idle, Idle
  <1> QED
    BY <1>1, Owners

\* Where no other thread has s, its references are those of its map.
LEMMA OwnPointer ==
    ASSUME NEW s \in SelMgrs, NEW i \in ISPs, NoneAssigns(call, s, i)
    PROVE  Pointers[<<s, i>>] = m_guidance[s][i]
  <1>1. <<s, i>> \in Keys
    BY DEF Keys
  <1>2. PointerAt(call, m_guidance, s, i) = m_guidance[s][i]
    BY SMTT(20), Stored
  <1> QED
    BY <1>1, <1>2, PointerNow

LEMMA NotSharing ==
    ASSUME NEW s, NEW i, Sharing(s) = {}
    PROVE  NoneAssigns(call, s, i)
  BY SMTT(20) DEF Sharing, NoneAssigns, Assigns, idle, Idle

LEMMA LookingUp ==
    ASSUME OwnerInv, NEW t \in Threads, call[t].pc = "lookup", NEW i
    PROVE  NoneAssigns(call, call[t].s, i)
  <1> SUFFICES ASSUME NEW u \in Threads, Assigns(call, u, call[t].s, i) PROVE FALSE
    BY DEF NoneAssigns
  <1>1. ~idle(t) /\ ~idle(u) /\ call[t].s = call[u].s /\ t # u
    BY SMTT(20) DEF Assigns, idle, Idle
  <1> QED
    BY <1>1, Owners

Refs == RefInv(m_matrices, Pointers, held)

LEMMA Referred ==
    ASSUME Refs, NEW k \in Keys, Pointers[k] # NULL
    PROVE  /\ Pointers[k] \in DOMAIN m_matrices /\ Pointers[k] \in Matrices
           /\ m_matrices[Pointers[k]].isp = k[2]
  BY DEF Refs, RefInv, Linked, Mats

LEMMA ApplicationOwner ==
    ASSUME OwnerInv, TimeInv, Refs, ~register_first, NEW s \in SelMgrs, application(s)
    PROVE  OwnerInv'
  <1>0. "app" \in Threads /\ "update" \in Threads /\ DOMAIN call = Threads
    BY DEF Threads, TimeInv
  <1>1. CASE newSelectionManager(s)
    BY <1>1 DEF newSelectionManager, OwnerInv, idle
  <1>2. CASE initGuidance(s)
    <2> DEFINE c == [pc |-> "lookup", s |-> s, todo |-> ISPs]
    <2>1. call'["app"] = c /\ call'["update"] = call["update"] /\ c.pc = "lookup" /\ c.s = s
      BY <1>0, <1>2 DEF initGuidance
    <2>2. s \notin gone /\ s \notin m_guidance_initialized /\ s \notin m_selection_mgrs
      BY <1>2 DEF initGuidance, Existing, OwnerInv
    <2> HIDE DEF c
    <2> QED
      BY SMTT(20), <1>2, <2>1, <2>2 DEF initGuidance, OwnerInv, idle, Threads
  <1>3. CASE addSelectionManager(s)
    BY <1>3 DEF addSelectionManager, OwnerInv, idle
  <1>4. CASE deleteSelectionManager(s)
    BY <1>4 DEF deleteSelectionManager, OwnerInv, idle
  <1>5. ASSUME NEW i \in ISPs, selectPeers(s, i) PROVE OwnerInv'
    <2>1. Pointers[<<s, i>>] = m_guidance[s][i]
      BY <1>5, NotSharing, OwnPointer DEF selectPeers
    <2>2. <<s, i>> \in Keys
      BY DEF Keys
    <2>3. m_guidance[s][i] \in DOMAIN m_matrices \cup {NULL}
      BY <2>1, <2>2, Referred
    <2> QED
      BY <1>5, <2>3 DEF selectPeers, OwnerInv, idle, program
  <1>6. ASSUME NEW i \in ISPs, configure(s, i) \/ getGuidanceMatrix(s, i) PROVE OwnerInv'
    BY <1>6
       DEF configure, setDefaultOptions, setISPOptions, clearISPOptions, getGuidanceMatrix,
           OwnerInv, idle, program
  <1> QED
    BY <1>1, <1>2, <1>3, <1>4, <1>5, <1>6 DEF application

LEMMA UpdateOwner ==
    ASSUME OwnerInv, TimeInv, NEW i \in ISPs, update(i)
    PROVE  OwnerInv'
  <1>1. CASE updatePIDMap(i) \/ updatePDistanceMap(i)
    BY <1>1 DEF updatePIDMap, updatePDistanceMap, OwnerInv, idle, program
  <1>2. ASSUME NEW s \in SelMgrs, updateGuidance(s, i) PROVE OwnerInv'
    <2> DEFINE c == [pc |-> "lookup", s |-> s, todo |-> {i}]
    <2>1. call'["update"] = c /\ call'["app"] = call["app"] /\ c.pc = "lookup" /\ c.s = s
      BY <1>2 DEF updateGuidance, TimeInv, Threads
    <2>2. s \in m_selection_mgrs
      BY <1>2 DEF updateGuidance, OwnerInv
    <2> HIDE DEF c
    <2> QED
      BY SMTT(20), <1>2, <2>1, <2>2 DEF updateGuidance, OwnerInv, idle, Threads, program
  <1> QED
    BY <1>1, <1>2 DEF update

\* A thread keeps its selection manager, or is done.
LEMMA ThreadOwner ==
    ASSUME OwnerInv, UNCHANGED <<gone, m_guidance_initialized, m_selection_mgrs, tasks>>,
           NEW t \in Threads, ~idle(t), \A u \in Threads \ {t} : call'[u] = call[u],
           call'[t] = Idle \/ (call'[t].s = call[t].s /\ call'[t].pc \notin {"thrown", "undefined"})
    PROVE  OwnerInv'
  BY SMTT(20) DEF OwnerInv, idle, Idle, Threads

LEMMA ComputeOwner ==
    ASSUME OwnerInv, TimeInv, Refs, ComputeInv, NEW t \in Threads, computeGuidance(t)
    PROVE  OwnerInv'
  <1>0. CallOK(call[t]) /\ DOMAIN call = Threads
    BY DEF TimeInv
  <1>1. UNCHANGED <<gone, m_guidance_initialized, m_selection_mgrs, tasks>>
    BY
       DEF computeGuidance, lookup, lookupSame, lookupThrows, lookupFreed, assign, list, ask,
           Unchanged, program
  <1>2. ~idle(t)
    <2>1. call[t].pc = "lookup" \/ call[t].pc = "assign" \/ call[t].pc = "list" \/ call[t].pc = "ask"
      BY Zenon DEF computeGuidance, lookup, lookupSame, lookupThrows, lookupFreed, assign, list, ask
    <2> QED
      BY SMTT(20), <2>1 DEF idle, Idle
  <1>3. \A u \in Threads \ {t} : call'[u] = call[u]
    <2>1. Return(t) \/ Goto(t, "thrown") \/ Goto(t, "undefined") => \A u \in Threads \ {t} : call'[u] = call[u]
      BY <1>0 DEF Return, Goto
    <2>2. lookup(t) \/ lookupSame(t) => \A u \in Threads \ {t} : call'[u] = call[u]
      BY <1>0 DEF lookup, lookupSame
    <2>3. assign(t) \/ list(t) \/ ask(t) =>
            \/ Return(t) \/ Goto(t, "undefined")
            \/ \A u \in Threads \ {t} : call'[u] = call[u]
      BY <1>0 DEF assign, list, ask
    <2> QED
      BY <2>1, <2>2, <2>3 DEF computeGuidance, lookupThrows, lookupFreed
  <1>4. ~lookupThrows(t)
    BY <1>2 DEF lookupThrows, OwnerInv, Threads
  <1>5. ~lookupFreed(t)
    <2> SUFFICES ASSUME lookupFreed(t) PROVE FALSE
      OBVIOUS
    <2>1. PICK i \in call[t].todo : m_guidance[call[t].s][i] \notin DOMAIN m_matrices \cup {NULL}
      BY DEF lookupFreed
    <2>2. call[t].s \in SelMgrs /\ i \in ISPs /\ call[t].pc = "lookup"
      BY <1>0, <2>1 DEF lookupFreed, CallOK
    <2>3. NoneAssigns(call, call[t].s, i)
      BY <2>2, LookingUp
    <2>4. Pointers[<<call[t].s, i>>] = m_guidance[call[t].s][i] /\ <<call[t].s, i>> \in Keys
      BY <2>2, <2>3, OwnPointer DEF Keys
    <2> QED
      BY <2>1, <2>4, Referred
  <1>6. assign(t) => call[t].m \in DOMAIN m_matrices
    <2> SUFFICES ASSUME assign(t) PROVE call[t].m \in DOMAIN m_matrices
      OBVIOUS
    <2>1. Visits(call[t]) /\ call[t].s \in SelMgrs /\ call[t].isp \in ISPs /\ call[t].m \in Matrices
      BY <1>0 DEF assign, CallOK, Visits
    <2>2. Pointers[<<call[t].s, call[t].isp>>] = call[t].m /\ <<call[t].s, call[t].isp>> \in Keys
      BY <2>1 DEF ComputeInv, Keys
    <2>3. call[t].m # NULL
      BY <2>1, GuidanceAssumption
    <2> QED
      BY <2>2, <2>3, Referred
  <1>7. call'[t] = Idle \/ (call'[t].s = call[t].s /\ call'[t].pc \notin {"thrown", "undefined"})
    <2>1. Return(t) => call'[t] = Idle \/ (call'[t].s = call[t].s /\ call'[t].pc = "lookup")
      BY SMTT(20), <1>0 DEF Return, Returned
    <2>2. lookup(t) \/ lookupSame(t) => call'[t].s = call[t].s /\ call'[t].pc = "assign"
      <3>1. lookup(t) \/ lookupSame(t) => \E i, m : call' = [call EXCEPT ![t] =
               [pc |-> "assign", s |-> call[t].s, todo |-> call[t].todo, isp |-> i, m |-> m]]
        <4>1. CASE lookup(t)
          BY <4>1 DEF lookup
        <4>2. CASE lookupSame(t)
          BY <4>2 DEF lookupSame
        <4> QED
          BY <4>1, <4>2
      <3> QED
        BY SMTT(20), <1>0, <3>1
    <2>3. assign(t) => Return(t) \/ (call'[t].s = call[t].s /\ call'[t].pc = "list")
      BY SMTT(20), <1>0, <1>6 DEF assign
    <2>4. list(t) => Return(t) \/ (call'[t].s = call[t].s /\ call'[t].pc = "ask")
      <3> DEFINE c == [pc |-> "ask", s |-> call[t].s, todo |-> call[t].todo, isp |-> call[t].isp, m |-> call[t].m,
                       time |-> call[t].time, rows |-> pids[call[t].isp]]
      <3>1. list(t) => Return(t) \/ call' = [call EXCEPT ![t] = c]
        BY DEF list
      <3>2. c.s = call[t].s /\ c.pc = "ask"
        OBVIOUS
      <3> HIDE DEF c
      <3> QED
        BY <1>0, <3>1, <3>2
    <2>5. ask(t) => Return(t)
      BY DEF ask
    <2> QED
      BY <1>4, <1>5, <2>1, <2>2, <2>3, <2>4, <2>5 DEF computeGuidance
  <1> QED
    BY <1>1, <1>2, <1>3, <1>7, ThreadOwner

-----------------------------------------------------------------------------
(* The references and what is computed with them. *)

Configured(d, o, s, i) == IF i \in DOMAIN o[s] THEN o[s][i] ELSE d[s]

CompAt(c, mats, P, d, o) ==
    Visits(c) => /\ P[<<c.s, c.isp>>] = c.m
                 /\ SameOptions(mats[c.m].options, Configured(d, o, c.s, c.isp))

LEMMA ComputeInvIs ==
    /\ ComputeInv <=>
         \A t \in Threads : CompAt(call[t], m_matrices, Pointers, m_guidance_opts_default, m_guidance_opts)
    /\ ComputeInv' <=>
         \A t \in Threads : CompAt(call'[t], m_matrices', Pointers', m_guidance_opts_default', m_guidance_opts')
  BY DEF ComputeInv, CompAt, Configured, getConfiguredOptions

\* What a computation uses stays as it is.
Continues(b, c) == Visits(c) => Visits(b) /\ c.s = b.s /\ c.isp = b.isp /\ c.m = b.m

SameConfigured(c, d, o, e, p) == Visits(c) => Configured(e, p, c.s, c.isp) = Configured(d, o, c.s, c.isp)

LEMMA CompStays ==
    ASSUME NEW b, NEW c, NEW mats, NEW after, NEW P, NEW d, NEW o, NEW e, NEW p,
           CompAt(b, mats, P, d, o), Continues(b, c), KeepsOptions(mats, after, P), SameConfigured(b, d, o, e, p),
           Visits(b) => <<b.s, b.isp>> \in Keys /\ b.m \in Matrices
    PROVE  CompAt(c, after, P, e, p)
  BY GuidanceAssumption DEF CompAt, Continues, KeepsOptions, SameConfigured

Goes ==
    \A t \in Threads :
        /\ Continues(call[t], call'[t])
        /\ SameConfigured(call[t], m_guidance_opts_default, m_guidance_opts, m_guidance_opts_default', m_guidance_opts')

LEMMA StepKeeps ==
    ASSUME TimeInv, ComputeInv, RefInv(m_matrices', Pointers, held'), Pointers' = Pointers,
           KeepsOptions(m_matrices, m_matrices', Pointers), Goes
    PROVE  Refs' /\ ComputeInv'
  <1>1. Refs'
    BY DEF Refs
  <1>2. ASSUME NEW t \in Threads
        PROVE  CompAt(call'[t], m_matrices', Pointers, m_guidance_opts_default', m_guidance_opts')
    <2>1. CompAt(call[t], m_matrices, Pointers, m_guidance_opts_default, m_guidance_opts)
      BY ComputeInvIs
    <2>2. Visits(call[t]) => <<call[t].s, call[t].isp>> \in Keys /\ call[t].m \in Matrices
      BY DEF TimeInv, CallOK, Keys
    <2>3. Continues(call[t], call'[t])
          /\ SameConfigured(call[t], m_guidance_opts_default, m_guidance_opts, m_guidance_opts_default', m_guidance_opts')
      BY DEF Goes
    <2> QED
      BY <2>1, <2>2, <2>3, CompStays
  <1> QED
    BY <1>1, <1>2, ComputeInvIs

\* Steps that change neither matrices nor options.
LEMMA QuietStep ==
    ASSUME TimeInv, Refs, ComputeInv, UNCHANGED <<m_guidance, m_matrices, held, opts>>,
           \A t \in Threads : \/ call'[t] = call[t]
                              \/ /\ call[t].pc # "assign" /\ call'[t].pc # "assign"
                                 /\ Continues(call[t], call'[t])
    PROVE  Refs' /\ ComputeInv'
  <1>1. Pointers' = Pointers
    BY SamePointers
  <1>2. RefInv(m_matrices', Pointers, held')
    BY DEF Refs
  <1>3. KeepsOptions(m_matrices, m_matrices', Pointers)
    BY DEF KeepsOptions
  <1>4. Goes
    BY DEF Goes, Continues, SameConfigured, opts
  <1> QED
    BY <1>1, <1>2, <1>3, <1>4, StepKeeps

LEMMA ConfigureRefs ==
    ASSUME TimeInv, OptsInv, Refs, ComputeInv, NEW s \in SelMgrs, NEW i \in ISPs, configure(s, i)
    PROVE  Refs' /\ ComputeInv'
  <1>1. UNCHANGED <<m_guidance, m_matrices, held, call>> /\ Sharing(s) = {}
    BY DEF configure, setDefaultOptions, setISPOptions, clearISPOptions
  <1>2. \A r \in SelMgrs \ {s} :
          m_guidance_opts_default'[r] = m_guidance_opts_default[r] /\ m_guidance_opts'[r] = m_guidance_opts[r]
    BY DEF configure, setDefaultOptions, setISPOptions, clearISPOptions, OptsInv
  <1>3. ASSUME NEW t \in Threads, Visits(call[t]) PROVE call[t].s \in SelMgrs \ {s}
    <2>1. CallOK(call[t]) /\ ~idle(t)
      BY SMTT(20), <1>3 DEF TimeInv, Visits, idle, Idle
    <2> QED
      BY <1>1, <1>3, <2>1 DEF Sharing, CallOK
  <1>4. Goes
    BY <1>1, <1>2, <1>3 DEF Goes, Continues, SameConfigured, Configured
  <1>5. Pointers' = Pointers
    BY <1>1, SamePointers
  <1>6. RefInv(m_matrices', Pointers, held') /\ KeepsOptions(m_matrices, m_matrices', Pointers)
    BY <1>1 DEF Refs, KeepsOptions
  <1> QED
    BY <1>4, <1>5, <1>6, StepKeeps

LEMMA UpdateRefs ==
    ASSUME TimeInv, Refs, ComputeInv, NEW i \in ISPs, update(i)
    PROVE  Refs' /\ ComputeInv'
  <1>1. UNCHANGED <<m_guidance, m_matrices, held, opts>>
    BY DEF update, updatePIDMap, updatePDistanceMap, updateGuidance
  <1>2. \A t \in Threads : \/ call'[t] = call[t]
                           \/ call[t].pc # "assign" /\ call'[t].pc = "lookup"
    <2>1. CASE updatePIDMap(i) \/ updatePDistanceMap(i)
      BY <2>1 DEF updatePIDMap, updatePDistanceMap
    <2>2. ASSUME NEW s \in SelMgrs, updateGuidance(s, i)
          PROVE  \A t \in Threads : \/ call'[t] = call[t]
                                    \/ call[t].pc # "assign" /\ call'[t].pc = "lookup"
      <3>1. call["update"] = Idle /\ call' = [call EXCEPT !["update"] = [pc |-> "lookup", s |-> s, todo |-> {i}]]
        BY <2>2 DEF updateGuidance, idle
      <3>2. call["update"].pc = "idle" /\ DOMAIN call = Threads
        BY SMTT(20), <3>1 DEF Idle, TimeInv
      <3>3. \A t \in Threads : t # "update" => call'[t] = call[t]
        BY <3>1, <3>2
      <3>4. call["update"].pc # "assign" /\ call'["update"].pc = "lookup"
        BY <3>1, <3>2 DEF Threads
      <3> QED
        BY <3>3, <3>4, Zenon
    <2> QED
      BY <2>1, <2>2 DEF update
  <1>3. \A t \in Threads : \/ call'[t] = call[t]
                           \/ /\ call[t].pc # "assign" /\ call'[t].pc # "assign"
                              /\ Continues(call[t], call'[t])
    BY <1>2 DEF Continues, Visits
  <1> QED
    BY <1>1, <1>3, QuietStep

LEMMA OwnersAloneNext ==
    ASSUME OwnerInv'
    PROVE  Alone(call')
  <1> SUFFICES ASSUME NEW t \in Threads, NEW u \in Threads, NEW s, NEW i, Assigns(call', t, s, i), Assigns(call', u, s, i)
               PROVE  t = u
    BY DEF Alone
  <1>1. call'[t] # Idle /\ call'[u] # Idle /\ call'[t].s = call'[u].s
    BY SMTT(20) DEF Assigns, Idle
  <1> QED
    BY <1>1 DEF OwnerInv, idle, Threads

LEMMA LookupSameRefs ==
    ASSUME TimeInv, OwnerInv, OwnerInv', Refs, ComputeInv, NEW t \in Threads, lookupSame(t)
    PROVE  Refs' /\ ComputeInv'
  <1> DEFINE s == call[t].s
  <1>0. /\ call[t].pc = "lookup" /\ CallOK(call[t]) /\ DOMAIN call = Threads
        /\ UNCHANGED <<opts, m_guidance, m_matrices, held>>
    BY DEF lookupSame, TimeInv
  <1>1. s \in SelMgrs /\ call[t].todo \subseteq ISPs
    BY <1>0 DEF CallOK
  <1>2. PICK i \in call[t].todo :
          /\ SameOptions(getConfiguredOptions(s, i), m_matrices[m_guidance[s][i]].options)
          /\ call' = [call EXCEPT ![t] =
                         [pc |-> "assign", s |-> s, todo |-> call[t].todo, isp |-> i, m |-> m_guidance[s][i]]]
    BY DEF lookupSame
  <1> DEFINE k == <<s, i>>
             m == m_guidance[s][i]
             c == [pc |-> "assign", s |-> s, todo |-> call[t].todo, isp |-> i, m |-> m]
  <1>3. k \in Keys /\ i \in ISPs
    BY <1>1, <1>2 DEF Keys
  <1>4. Pointers[k] = m
    BY <1>0, <1>1, <1>3, LookingUp, OwnPointer
  <1>5. /\ call'[t] = c /\ \A u \in Threads \ {t} : call'[u] = call[u]
        /\ c.s = s /\ c.isp = i /\ c.m = m /\ c.pc = "assign"
    BY <1>0, <1>2
  <1> HIDE DEF c
  <1>6. Pointers' = Pointers
    <2>1. Assigns(call', t, s, i) /\ call'[t].m = m /\ call[t].pc # "assign"
      BY <1>0, <1>5 DEF Assigns
    <2>2. Alone(call') /\ UNCHANGED m_guidance
      BY <1>0, OwnersAloneNext
    <2> HIDE DEF s, m
    <2>3. Gains(Pointers, Pointers', k, m)
      BY <1>3, <1>5, <2>1, <2>2, LookupPointers
    <2>4. Pointers = [j \in Keys |-> Pointers[j]]
      BY DEF Pointers
    <2> QED
      BY <1>4, <2>3, <2>4 DEF Gains
  <1>7. ASSUME NEW u \in Threads
        PROVE  CompAt(call'[u], m_matrices', Pointers', m_guidance_opts_default', m_guidance_opts')
    <2>1. CASE u = t
      <3>1. getConfiguredOptions(s, i) = Configured(m_guidance_opts_default', m_guidance_opts', s, i)
        BY <1>0 DEF getConfiguredOptions, Configured, opts
      <3> QED
        BY <1>0, <1>2, <1>4, <1>5, <1>6, <2>1, <3>1 DEF CompAt, SameOptions
    <2>2. CASE u # t
      <3>1. call'[u] = call[u] /\ CompAt(call[u], m_matrices, Pointers, m_guidance_opts_default, m_guidance_opts)
        BY <1>5, <2>2, ComputeInvIs
      <3>2. /\ m_matrices' = m_matrices /\ m_guidance_opts_default' = m_guidance_opts_default
            /\ m_guidance_opts' = m_guidance_opts
        BY <1>0 DEF opts
      <3> QED
        BY <1>6, <3>1, <3>2
    <2> QED
      BY <2>1, <2>2
  <1> QED
    BY <1>0, <1>6, <1>7, ComputeInvIs DEF Refs

LEMMA AssignRefs ==
    ASSUME TimeInv, OwnerInv, OwnerInv', Refs, ComputeInv, NEW t \in Threads, assign(t)
    PROVE  Refs' /\ ComputeInv'
  <1> DEFINE s == call[t].s
             i == call[t].isp
  <1>0. /\ call[t].pc = "assign" /\ CallOK(call[t]) /\ DOMAIN call = Threads
        /\ UNCHANGED <<opts, m_matrices, held>>
        /\ m_guidance' = [m_guidance EXCEPT ![s][i] = call[t].m]
    BY DEF assign, TimeInv
  <1>1. Visits(call[t]) /\ s \in SelMgrs /\ i \in ISPs
    BY <1>0 DEF CallOK, Visits
  <1> DEFINE c == [pc |-> "list", s |-> s, todo |-> call[t].todo, isp |-> i, m |-> call[t].m, time |-> m_lastUpdate[i]]
  <1>2. Goto(t, "undefined") \/ Return(t) \/ call' = [call EXCEPT ![t] = c]
    BY DEF assign
  <1>3. c.pc = "list" /\ c.s = s /\ c.isp = i /\ c.m = call[t].m
    OBVIOUS
  <1> HIDE DEF c
  <1>4. \A u \in Threads \ {t} : call'[u] = call[u]
    BY <1>0, <1>2 DEF Goto, Return
  <1>5. call'[t].pc # "assign" /\ Continues(call[t], call'[t])
    <2>1. CASE Goto(t, "undefined")
      <3>1. call'[t].pc = "undefined"
        BY <1>0, <2>1 DEF Goto, CallOK
      <3> QED
        BY <3>1 DEF Continues, Visits
    <2>2. CASE Return(t)
      <3>1. call'[t].pc = "idle" \/ call'[t].pc = "lookup"
        BY <1>0, <2>2 DEF Return, Returned, Idle
      <3> QED
        BY <3>1 DEF Continues, Visits
    <2>3. CASE call' = [call EXCEPT ![t] = c]
      <3>1. call'[t] = c
        BY <1>0, <2>3
      <3> QED
        BY <1>1, <1>3, <3>1 DEF Continues
    <2> QED
      BY <1>2, <2>1, <2>2, <2>3
  <1>6. Pointers' = Pointers
    <2>1. Stores(m_guidance', m_guidance, s, i, call[t].m)
      BY <1>0, <1>1 DEF Stores, TimeInv
    <2>2. Alone(call) /\ Alone(call') /\ Assigns(call, t, s, i)
      BY <1>0, OwnersAlone, OwnersAloneNext DEF Assigns
    <2> HIDE DEF s, i
    <2> QED
      BY <1>1, <1>4, <1>5, <2>1, <2>2, AssignPointers
  <1>7. RefInv(m_matrices', Pointers, held') /\ KeepsOptions(m_matrices, m_matrices', Pointers)
    BY <1>0 DEF Refs, KeepsOptions
  <1>8. Goes
    BY <1>0, <1>4, <1>5 DEF Goes, Continues, SameConfigured, opts
  <1> QED
    BY <1>6, <1>7, <1>8, StepKeeps

LEMMA ListRefs ==
    ASSUME TimeInv, Refs, ComputeInv, NEW t \in Threads, list(t)
    PROVE  Refs' /\ ComputeInv'
  <1>0. /\ call[t].pc = "list" /\ DOMAIN call = Threads
        /\ UNCHANGED <<opts, m_guidance, m_matrices, held>>
    BY DEF list, Unchanged, TimeInv
  <1> DEFINE c == [pc |-> "ask", s |-> call[t].s, todo |-> call[t].todo, isp |-> call[t].isp, m |-> call[t].m,
                   time |-> call[t].time, rows |-> pids[call[t].isp]]
  <1>1. Return(t) \/ call' = [call EXCEPT ![t] = c]
    BY DEF list
  <1>2. c.pc = "ask" /\ c.s = call[t].s /\ c.isp = call[t].isp /\ c.m = call[t].m
    OBVIOUS
  <1> HIDE DEF c
  <1>3. \A u \in Threads \ {t} : call'[u] = call[u]
    BY <1>0, <1>1 DEF Return
  <1>4. call'[t].pc # "assign" /\ Continues(call[t], call'[t])
    <2>1. CASE Return(t)
      <3>1. call'[t].pc = "idle" \/ call'[t].pc = "lookup"
        BY <1>0, <2>1 DEF Return, Returned, Idle
      <3> QED
        BY <3>1 DEF Continues, Visits
    <2>2. CASE call' = [call EXCEPT ![t] = c]
      <3>1. call'[t] = c
        BY <1>0, <2>2
      <3> QED
        BY <1>0, <1>2, <3>1 DEF Continues, Visits
    <2> QED
      BY <1>1, <2>1, <2>2
  <1> QED
    BY <1>0, <1>3, <1>4, QuietStep

LEMMA AskRefs ==
    ASSUME TimeInv, Refs, ComputeInv, NEW t \in Threads, ask(t)
    PROVE  Refs' /\ ComputeInv'
  <1>0. /\ call[t].pc = "ask" /\ DOMAIN call = Threads /\ Return(t)
        /\ UNCHANGED <<opts, m_guidance, held>> /\ CallOK(call[t])
    BY DEF ask, Unchanged, TimeInv
  <1>1. call'[t].pc = "idle" \/ call'[t].pc = "lookup"
    BY <1>0 DEF Return, Returned, Idle
  <1>2. \A u \in Threads : call'[u] = call[u] \/ (call[u].pc # "assign" /\ ~Visits(call'[u]))
    BY <1>0, <1>1 DEF Return, Visits
  <1>3. Pointers' = Pointers
    BY <1>0, <1>2, SamePointers DEF Visits
  <1>4. Goes
    BY <1>0, <1>2 DEF Goes, Continues, SameConfigured, opts
  <1>5. RefInv(m_matrices', Pointers, held') /\ KeepsOptions(m_matrices, m_matrices', Pointers)
    <2>1. CASE UNCHANGED m_matrices
      BY <1>0, <2>1 DEF Refs, KeepsOptions
    <2>2. CASE m_matrices' = Installed(t)
      <3>1. Mats(m_matrices) /\ call[t].time \in Nat /\ call[t].rows \in Nat
        BY <1>0 DEF TimeInv, CallOK
      <3>2. /\ DOMAIN m_matrices' = DOMAIN m_matrices /\ Mats(m_matrices')
            /\ \A m \in DOMAIN m_matrices :
                 /\ m_matrices'[m].isp = m_matrices[m].isp /\ m_matrices'[m].options = m_matrices[m].options
                 /\ m_matrices'[m].refs = m_matrices[m].refs
        BY <2>2, <3>1, InstalledFields
      <3>3. Linked(m_matrices', Pointers, held')
        BY <1>0, <3>2 DEF Refs, RefInv, Linked
      <3>4. Counted(m_matrices', Pointers, held')
        BY <1>0, <3>2 DEF Refs, RefInv, Counted
      <3>5. Shared(m_matrices')
        BY SMTT(20), <3>2 DEF Refs, RefInv, Shared
      <3>6. KeepsOptions(m_matrices, m_matrices', Pointers)
        BY <3>2 DEF Refs, RefInv, Linked, KeepsOptions
      <3> QED
        BY <3>2, <3>3, <3>4, <3>5, <3>6 DEF RefInv
    <2> QED
      BY <2>1, <2>2 DEF ask
  <1> QED
    BY <1>3, <1>4, <1>5, StepKeeps

-----------------------------------------------------------------------------
(* The matrix manager: references, counts and addresses. *)

LEMMA KeysFinite ==
    /\ IsFiniteSet(Keys) /\ Cardinality(Keys) \in Nat
    /\ Cardinality(Matrices) > 2 * Cardinality(Keys)
  <1> DEFINE a == Cardinality(SelMgrs)
             b == Cardinality(ISPs)
  <1>1. IsFiniteSet(Keys) /\ Cardinality(Keys) = a * b
    BY GuidanceAssumption, FS_Product DEF Keys
  <1>2. a \in Nat /\ b \in Nat /\ Cardinality(Keys) \in Nat
    BY <1>1, GuidanceAssumption, FS_CardinalityType
  <1>3. Cardinality(Matrices) > 2 * a * b
    BY GuidanceAssumption
  <1> HIDE DEF a, b
  <1> QED
    BY SMTT(20), <1>1, <1>2, <1>3

LEMMA UsersFinite ==
    ASSUME NEW P, NEW m
    PROVE  IsFiniteSet(UsersOf(P, m)) /\ Cardinality(UsersOf(P, m)) \in Nat
  <1>1. UsersOf(P, m) \in SUBSET Keys
    BY DEF UsersOf
  <1> QED
    BY <1>1, KeysFinite, FS_Subset, FS_CardinalityType

\* A matrix has one user more, or less, when one reference changes.
Adds(P, Q, m, k) ==
    k \in Keys /\ P[k] # m /\ Q[k] = m /\ \A j \in Keys \ {k} : Q[j] = m <=> P[j] = m

LEMMA OneMore ==
    ASSUME NEW P, NEW Q, NEW m, NEW k, Adds(P, Q, m, k)
    PROVE  Cardinality(UsersOf(Q, m)) = Cardinality(UsersOf(P, m)) + 1
  <1>1. UsersOf(Q, m) = UsersOf(P, m) \cup {k} /\ k \notin UsersOf(P, m)
    BY DEF UsersOf, Adds
  <1> QED
    BY <1>1, UsersFinite, FS_AddElement

LEMMA SameUsers ==
    ASSUME NEW P, NEW Q, NEW m, \A j \in Keys : Q[j] = m <=> P[j] = m
    PROVE  UsersOf(Q, m) = UsersOf(P, m)
  BY DEF UsersOf

LEMMA NoUsers ==
    ASSUME NEW P, NEW m, Cardinality(UsersOf(P, m)) = 0
    PROVE  \A j \in Keys : P[j] # m
  <1>1. UsersOf(P, m) = {}
    BY UsersFinite, FS_EmptySet
  <1> QED
    BY <1>1 DEF UsersOf

LEMMA ReleaseKeeps ==
    ASSUME NEW mats, NEW P, NEW h, RefInv(mats, P, h), NEW Q, NEW D, NEW M, Drops(P, Q, D, M)
    PROVE  LET r == releaseGuidanceMatrixNoLock(mats, M)
           IN  /\ RefInv(r, Q, h)
               /\ \A j \in Keys \ D : P[j] # NULL => r[P[j]].options = mats[P[j]].options
  <1> DEFINE r == releaseGuidanceMatrixNoLock(mats, M)
             U(m) == Cardinality(UsersOf(P, m))
             V(m) == Cardinality(UsersOf(Q, m))
  <1>0. Mats(mats)
    BY DEF RefInv
  <1>1. Released(mats, M, r)
    BY <1>0, ReleaseFields, Zenon
  <1> HIDE DEF r
  <1>2. \A m : U(m) \in Nat /\ V(m) \in Nat
    BY UsersFinite, Zenon
  <1>3. \A m \in DOMAIN mats : m \in Matrices /\ m # NULL
    BY GuidanceAssumption DEF RefInv, Mats
  <1>4. ASSUME NEW m \in DOMAIN mats, m \notin M PROVE V(m) = U(m)
    <2>1. \A j \in Keys : Q[j] = m <=> P[j] = m
      BY <1>3, <1>4 DEF Drops
    <2> QED
      BY SMTT(20), <2>1, SameUsers
  <1>5. ASSUME NEW m \in DOMAIN mats, m \in M PROVE U(m) = V(m) + 1
    <2>1. PICK k \in D : P[k] = m
      BY <1>3, <1>5 DEF Drops
    <2>2. Adds(Q, P, m, k)
      BY <1>3, <1>5, <2>1 DEF Drops, Adds
    <2> QED
      BY <2>2, OneMore
  <1> HIDE DEF U, V
  <1>6. \A m \in DOMAIN mats :
          /\ mats[m].refs = U(m) + (IF h = m THEN 1 ELSE 0) /\ mats[m].refs > 0
          /\ SwarmDependent(mats[m].options) => U(m) <= 1
    BY DEF RefInv, Counted, U
  <1>7. Counted(r, Q, h)
    <2> SUFFICES ASSUME NEW m \in DOMAIN r
                 PROVE  /\ r[m].refs = V(m) + (IF h = m THEN 1 ELSE 0) /\ r[m].refs > 0
                        /\ SwarmDependent(r[m].options) => V(m) <= 1
      BY DEF Counted, V
    <2>1. m \in DOMAIN mats /\ (m \in M => mats[m].refs # 1)
      BY <1>1 DEF Released
    <2>2. CASE m \in M
      BY SMTT(20), <1>1, <1>2, <1>5, <1>6, <2>1, <2>2 DEF Released
    <2>3. CASE m \notin M
      BY SMTT(20), <1>1, <1>2, <1>4, <1>6, <2>1, <2>3 DEF Released
    <2> QED
      BY <2>2, <2>3
  <1>8. ASSUME NEW m \in DOMAIN mats, m \notin DOMAIN r PROVE h # m /\ \A j \in Keys : Q[j] # m
    <2>1. m \in M /\ mats[m].refs = 1
      BY <1>1, <1>8 DEF Released
    <2>2. V(m) = 0 /\ h # m
      BY SMTT(20), <1>2, <1>5, <1>6, <1>8, <2>1
    <2> QED
      BY <2>2, NoUsers DEF V
  <1>9. Linked(r, Q, h)
    <2>1. Q \in [Keys -> Matrices \cup {NULL}]
      BY DEF RefInv, Linked, Drops
    <2>2. h \in DOMAIN r \cup {NULL}
      BY <1>8 DEF RefInv, Linked
    <2>3. ASSUME NEW j \in Keys, Q[j] # NULL PROVE Q[j] \in DOMAIN r /\ r[Q[j]].isp = j[2]
      <3>1. Q[j] = P[j] /\ P[j] # NULL
        BY <2>3 DEF Drops
      <3>2. P[j] \in DOMAIN mats /\ mats[P[j]].isp = j[2]
        BY <3>1 DEF RefInv, Linked
      <3> QED
        BY SMTT(20), <1>1, <1>8, <3>1, <3>2 DEF Released
    <2> QED
      BY <2>1, <2>2, <2>3 DEF Linked
  <1>10. Shared(r)
    BY SMTT(20), <1>1 DEF Released, RefInv, Shared
  <1>11. ASSUME NEW j \in Keys \ D, P[j] # NULL PROVE r[P[j]].options = mats[P[j]].options
    <2>1. Q[j] = P[j]
      BY <1>11 DEF Drops
    <2> QED
      BY <1>1, <1>9, <1>11, <2>1 DEF Released, Linked
  <1> QED
    BY <1>1, <1>7, <1>9, <1>10, <1>11 DEF Released, RefInv, r

\* The application gives its matrix back.
LEMMA ReleaseHeldKeeps ==
    ASSUME NEW mats, NEW P, NEW h, RefInv(mats, P, h), h # NULL
    PROVE  LET r == releaseGuidanceMatrixNoLock(mats, {h})
           IN  /\ RefInv(r, P, NULL)
               /\ \A j \in Keys : P[j] # NULL => r[P[j]].options = mats[P[j]].options
  <1> DEFINE r == releaseGuidanceMatrixNoLock(mats, {h})
             U(m) == Cardinality(UsersOf(P, m))
  <1>0. Mats(mats)
    BY DEF RefInv
  <1>1. Released(mats, {h}, r)
    BY <1>0, ReleaseFields, Zenon
  <1> HIDE DEF r
  <1>2. \A m : U(m) \in Nat
    BY UsersFinite, Zenon
  <1>3. h \in DOMAIN mats /\ \A m \in DOMAIN mats : m # NULL
    BY GuidanceAssumption DEF RefInv, Mats, Linked
  <1> HIDE DEF U
  <1>6. \A m \in DOMAIN mats :
          /\ mats[m].refs = U(m) + (IF h = m THEN 1 ELSE 0) /\ mats[m].refs > 0
          /\ SwarmDependent(mats[m].options) => U(m) <= 1
    BY DEF RefInv, Counted, U
  <1>7. Counted(r, P, NULL)
    <2> SUFFICES ASSUME NEW m \in DOMAIN r
                 PROVE  /\ r[m].refs = U(m) + (IF NULL = m THEN 1 ELSE 0) /\ r[m].refs > 0
                        /\ SwarmDependent(r[m].options) => U(m) <= 1
      BY DEF Counted, U
    <2> QED
      BY SMTT(20), <1>1, <1>2, <1>3, <1>6 DEF Released
  <1>8. ASSUME NEW m \in DOMAIN mats, m \notin DOMAIN r PROVE \A j \in Keys : P[j] # m
    <2>1. m = h /\ mats[m].refs = 1
      BY <1>1, <1>8 DEF Released
    <2>2. U(m) = 0
      BY SMTT(20), <1>2, <1>6, <1>8, <2>1
    <2> QED
      BY <2>2, NoUsers DEF U
  <1>9. ASSUME NEW j \in Keys, P[j] # NULL
        PROVE  P[j] \in DOMAIN r /\ r[P[j]].isp = j[2] /\ r[P[j]].options = mats[P[j]].options
    <2>1. P[j] \in DOMAIN mats /\ mats[P[j]].isp = j[2]
      BY <1>9 DEF RefInv, Linked
    <2> QED
      BY <1>1, <1>8, <2>1 DEF Released
  <1>10. Linked(r, P, NULL)
    BY <1>9 DEF RefInv, Linked
  <1>11. Shared(r)
    BY SMTT(20), <1>1 DEF Released, RefInv, Shared
  <1> QED
    BY <1>1, <1>7, <1>9, <1>10, <1>11 DEF Released, RefInv, r

\* The counts leave an address for a new matrix.
LEMMA FreeAddress ==
    ASSUME NEW mats, NEW P, NEW h, RefInv(mats, P, h), NEW k \in Keys
    PROVE  \E m \in Matrices : m \notin DOMAIN mats
  <1> SUFFICES ASSUME Matrices \subseteq DOMAIN mats PROVE FALSE
    OBVIOUS
  <1> DEFINE T == {P[j] : j \in Keys}
             n == Cardinality(Keys)
  <1>1. P \in Surjection(Keys, T)
    BY DEF RefInv, Linked, Surjection
  <1>2. IsFiniteSet(T) /\ Cardinality(T) <= n /\ Cardinality(T) \in Nat /\ n \in Nat
    BY <1>1, KeysFinite, FS_Surjection, FS_CardinalityType
  <1>3. ASSUME NEW m \in Matrices PROVE m \in T \cup {h}
    <2>1. mats[m].refs = Cardinality(UsersOf(P, m)) + (IF h = m THEN 1 ELSE 0) /\ mats[m].refs > 0
      BY <1>3 DEF RefInv, Counted
    <2>2. CASE h # m
      <3>1. Cardinality(UsersOf(P, m)) # 0
        BY SMTT(20), <2>1, <2>2
      <3>2. UsersOf(P, m) # {}
        BY <3>1, FS_EmptySet
      <3> QED
        BY <3>2 DEF UsersOf
    <2> QED
      BY <2>2
  <1>4. n # 0
    BY KeysFinite, FS_EmptySet
  <1> HIDE DEF T, n
  <1>5. IsFiniteSet(T \cup {h}) /\ Cardinality(T \cup {h}) <= n + 1
    <2>1. /\ IsFiniteSet(T \cup {h})
          /\ Cardinality(T \cup {h}) = IF h \in T THEN Cardinality(T) ELSE Cardinality(T) + 1
      BY <1>2, FS_AddElement
    <2> QED
      BY SMTT(20), <1>2, <2>1
  <1>6. Cardinality(Matrices) <= Cardinality(T \cup {h})
    <2>1. Matrices \in SUBSET (T \cup {h})
      BY <1>3
    <2> QED
      BY <1>5, <2>1, FS_Subset
  <1>7. Cardinality(Matrices) > 2 * n /\ Cardinality(Matrices) \in Nat /\ Cardinality(T \cup {h}) \in Nat
    BY <1>5, KeysFinite, GuidanceAssumption, FS_CardinalityType DEF n
  <1> QED
    BY SMTT(20), <1>2, <1>4, <1>5, <1>6, <1>7

Gets(mats, P, h, k, o, m, after, Q) ==
    /\ RefInv(mats, P, h) /\ k \in Keys /\ P[k] = NULL /\ o \in Options /\ m \in Matrices
    /\ getGuidanceMatrixNoLock(mats, k[2], o, m, after) /\ Gains(P, Q, k, m)

LEMMA GetKeeps ==
    ASSUME NEW mats, NEW P, NEW h, NEW k, NEW o, NEW m, NEW after, NEW Q, Gets(mats, P, h, k, o, m, after, Q)
    PROVE  /\ RefInv(after, Q, h) /\ m \in DOMAIN after /\ after[m].options = o
           /\ \A j \in Keys \ {k} : P[j] # NULL => after[P[j]].options = mats[P[j]].options
  <1> DEFINE i == k[2]
             new == [isp |-> i, options |-> o, refs |-> 1, time |-> 0, weights |-> 0]
             same == {x \in DOMAIN mats : mats[x].isp = i /\ mats[x].options = o}
             U(x) == Cardinality(UsersOf(P, x))
             V(x) == Cardinality(UsersOf(Q, x))
  <1>0. /\ RefInv(mats, P, h) /\ k \in Keys /\ P[k] = NULL /\ o \in Options /\ m \in Matrices
        /\ getGuidanceMatrixNoLock(mats, k[2], o, m, after) /\ Gains(P, Q, k, m)
    BY DEF Gets
  <1> USE <1>0
  <1>1. /\ Mats(mats) /\ m # NULL /\ i \in ISPs
        /\ \A j \in Keys : P[j] # NULL => P[j] \in DOMAIN mats /\ mats[P[j]].isp = j[2]
        /\ P \in [Keys -> Matrices \cup {NULL}] /\ h \in DOMAIN mats \cup {NULL}
    BY GuidanceAssumption DEF RefInv, Linked, Keys
  <1>2. Q \in [Keys -> Matrices \cup {NULL}] /\ Q[k] = m /\ \A j \in Keys \ {k} : Q[j] = P[j]
    BY <1>1 DEF Gains
  <1>3. \A x : U(x) \in Nat /\ V(x) \in Nat
    BY UsersFinite, Zenon
  <1>4. ASSUME NEW x \in DOMAIN mats, x # m PROVE V(x) = U(x) /\ x # NULL
    <2>1. x # NULL
      BY <1>1, <1>4, GuidanceAssumption DEF Mats
    <2>2. \A j \in Keys : Q[j] = x <=> P[j] = x
      BY <1>2, <1>4, <2>1
    <2> QED
      BY <2>1, <2>2, SameUsers
  <1>5. V(m) = U(m) + 1
    <2>1. Adds(P, Q, m, k)
      BY <1>1, <1>2 DEF Adds
    <2> QED
      BY <2>1, OneMore
  <1> HIDE DEF U, V
  <1>6. \A x \in DOMAIN mats :
          /\ mats[x].refs = U(x) + (IF h = x THEN 1 ELSE 0) /\ mats[x].refs > 0
          /\ SwarmDependent(mats[x].options) => U(x) <= 1
    BY DEF RefInv, Counted, U
  <1>7. \A x, y \in DOMAIN mats : x # y =>
          SwarmDependent(mats[x].options) \/ mats[y].isp # mats[x].isp \/ mats[y].options # mats[x].options
    BY DEF RefInv, Shared
  <1>8. CASE SwarmDependent(o) \/ same = {}
    <2>1. m \notin DOMAIN mats /\ after = With(mats, m, new)
      <3>1. m = (CHOOSE x \in Matrices : x \notin DOMAIN mats) /\ after = With(mats, m, new)
        BY <1>8 DEF getGuidanceMatrixNoLock
      <3>2. \E x \in Matrices : x \notin DOMAIN mats
        BY FreeAddress
      <3> QED
        BY <3>1, <3>2
    <2>2. DOMAIN after = DOMAIN mats \cup {m} /\ after[m] = new /\ \A x \in DOMAIN mats : after[x] = mats[x]
      BY <2>1 DEF With
    <2>3. Mats(after)
      <3>1. new \in Matrix
        BY SMTT(20), <1>1 DEF Matrix
      <3>2. after = [x \in DOMAIN after |-> after[x]]
        BY <2>1 DEF With
      <3> HIDE DEF new
      <3> QED
        BY <1>1, <2>2, <3>1, <3>2 DEF Mats
    <2>4. U(m) = 0 /\ h # m
      <3>1. UsersOf(P, m) = {}
        BY <1>1, <2>1 DEF UsersOf
      <3> QED
        BY <1>1, <2>1, <3>1, FS_EmptySet DEF U
    <2>5. Counted(after, Q, h)
      <3> SUFFICES ASSUME NEW x \in DOMAIN after
                   PROVE  /\ after[x].refs = V(x) + (IF h = x THEN 1 ELSE 0) /\ after[x].refs > 0
                          /\ SwarmDependent(after[x].options) => V(x) <= 1
        BY DEF Counted, V
      <3>1. CASE x = m
        BY SMTT(20), <1>5, <2>2, <2>4, <3>1
      <3>2. CASE x # m
        BY <1>4, <1>6, <2>2, <3>2
      <3> QED
        BY <3>1, <3>2
    <2>6. Linked(after, Q, h)
      BY SMTT(20), <1>1, <1>2, <2>2 DEF Linked
    <2>7. Shared(after)
      BY SMTT(20), <1>7, <1>8, <2>1, <2>2 DEF Shared
    <2> QED
      BY SMTT(20), <1>1, <2>2, <2>3, <2>5, <2>6, <2>7 DEF RefInv
  <1>9. CASE ~SwarmDependent(o) /\ same # {}
    <2>1. m \in DOMAIN mats /\ mats[m].isp = i /\ mats[m].options = o
          /\ after = [mats EXCEPT ![m] = [mats[m] EXCEPT !.refs = mats[m].refs + 1]]
      BY <1>9 DEF getGuidanceMatrixNoLock
    <2>2. mats[m] \in Matrix
      BY <1>1, <2>1 DEF Mats
    <2>3. /\ DOMAIN after = DOMAIN mats /\ after[m] \in Matrix
          /\ after[m].isp = i /\ after[m].options = o /\ after[m].refs = mats[m].refs + 1
          /\ \A x \in DOMAIN mats : x # m => after[x] = mats[x]
      BY SMTT(20), <2>1, <2>2 DEF Matrix
    <2>4. Mats(after)
      <3>1. after = [x \in DOMAIN after |-> after[x]]
        BY <2>1
      <3> QED
        BY SMTT(20), <1>1, <2>3, <3>1 DEF Mats
    <2>5. Counted(after, Q, h)
      <3> SUFFICES ASSUME NEW x \in DOMAIN after
                   PROVE  /\ after[x].refs = V(x) + (IF h = x THEN 1 ELSE 0) /\ after[x].refs > 0
                          /\ SwarmDependent(after[x].options) => V(x) <= 1
        BY DEF Counted, V
      <3>1. CASE x = m
        BY SMTT(20), <1>3, <1>5, <1>6, <1>9, <2>1, <2>3, <3>1
      <3>2. CASE x # m
        BY SMTT(20), <1>4, <1>6, <2>3, <3>2
      <3> QED
        BY <3>1, <3>2
    <2>6. \A x \in DOMAIN mats : after[x].isp = mats[x].isp /\ after[x].options = mats[x].options
      BY <2>1, <2>3
    <2>7. Linked(after, Q, h)
      BY SMTT(20), <1>1, <1>2, <2>1, <2>3, <2>6 DEF Linked
    <2>8. Shared(after)
      BY SMTT(20), <1>7, <2>3, <2>6 DEF Shared
    <2> QED
      BY <1>1, <2>1, <2>3, <2>4, <2>5, <2>6, <2>7, <2>8 DEF RefInv
  <1> QED
    BY <1>8, <1>9

\* getGuidanceMatrix() counts the application's reference.
OneReference(mats, m) == [mats EXCEPT ![m].refs = @ + 1]

LEMMA HoldKeeps ==
    ASSUME NEW mats, NEW P, RefInv(mats, P, NULL), NEW k \in Keys, P[k] # NULL
    PROVE  /\ RefInv(OneReference(mats, P[k]), P, P[k])
           /\ KeepsOptions(mats, OneReference(mats, P[k]), P)
  <1> DEFINE m == P[k]
             after == [mats EXCEPT ![m] = [mats[m] EXCEPT !.refs = mats[m].refs + 1]]
             U(x) == Cardinality(UsersOf(P, x))
  <1>1. /\ Mats(mats) /\ m \in DOMAIN mats
        /\ \A j \in Keys : P[j] # NULL => P[j] \in DOMAIN mats /\ mats[P[j]].isp = j[2]
    BY DEF RefInv, Linked
  <1>2. \A x \in DOMAIN mats : mats[x].refs = U(x) /\ mats[x].refs > 0 /\ x # NULL
                                 /\ (SwarmDependent(mats[x].options) => U(x) <= 1)
    <2>1. \A x \in DOMAIN mats : x # NULL
      BY <1>1, GuidanceAssumption DEF Mats
    <2>2. \A x : U(x) \in Nat
      BY UsersFinite, Zenon
    <2> QED
      BY SMTT(20), <2>1, <2>2 DEF RefInv, Counted
  <1>3. mats[m] \in Matrix
    BY <1>1 DEF Mats
  <1> HIDE DEF m
  <1>4. /\ DOMAIN after = DOMAIN mats /\ after[m] \in Matrix
        /\ after[m].isp = mats[m].isp /\ after[m].options = mats[m].options /\ after[m].refs = mats[m].refs + 1
        /\ \A x \in DOMAIN mats : x # m => after[x] = mats[x]
    BY SMTT(20), <1>1, <1>3 DEF Matrix
  <1>5. after = [x \in DOMAIN after |-> after[x]]
    OBVIOUS
  <1> HIDE DEF after, U
  <1>6. Mats(after)
    BY <1>1, <1>4, <1>5 DEF Mats
  <1>7. Counted(after, P, m)
    <2> SUFFICES ASSUME NEW x \in DOMAIN after
                 PROVE  /\ after[x].refs = U(x) + (IF m = x THEN 1 ELSE 0) /\ after[x].refs > 0
                        /\ SwarmDependent(after[x].options) => U(x) <= 1
      BY DEF Counted, U
    <2>1. U(x) \in Nat
      BY UsersFinite DEF U
    <2> QED
      BY SMTT(20), <1>1, <1>2, <1>4, <2>1
  <1>8. \A x \in DOMAIN mats : after[x].isp = mats[x].isp /\ after[x].options = mats[x].options
    BY <1>4
  <1>9. Linked(after, P, m)
    BY <1>1, <1>4, <1>8 DEF RefInv, Linked
  <1>10. Shared(after)
    BY SMTT(20), <1>4, <1>8 DEF RefInv, Shared
  <1> QED
    BY <1>1, <1>6, <1>7, <1>8, <1>9, <1>10 DEF RefInv, after, m, OneReference, KeepsOptions

-----------------------------------------------------------------------------
(* The steps that count references. *)

LEMMA DeleteRefs ==
    ASSUME TimeInv, OwnerInv, Refs, ComputeInv, NEW s \in SelMgrs, deleteSelectionManager(s)
    PROVE  Refs' /\ ComputeInv'
  <1>1. Quiet(call) /\ Quiet(call') /\ \A t \in Threads : ~Visits(call'[t])
    BY SMTT(20) DEF deleteSelectionManager, idle, Idle, Quiet, Threads, Visits
  <1>2. Clears(m_guidance', m_guidance, s)
    BY DEF deleteSelectionManager, TimeInv, Clears
  <1> DEFINE M == {m_guidance[s][i] : i \in ISPs}
             D == {s} \X ISPs
  <1>3. RefInv(m_matrices, Pointers, held)
    BY DEF Refs
  <1>4. Drops(Pointers, Pointers', D, M)
    BY <1>1, <1>2, <1>3, DeletePointers
  <1>5. m_matrices' = releaseGuidanceMatrixNoLock(m_matrices, M) /\ held' = held
    BY DEF deleteSelectionManager
  <1> HIDE DEF M, D
  <1>6. RefInv(m_matrices', Pointers', held')
    BY <1>3, <1>4, <1>5, ReleaseKeeps
  <1>7. ComputeInv'
    BY <1>1, ComputeInvIs DEF CompAt
  <1> QED
    BY <1>6, <1>7 DEF Refs

LEMMA HoldRefs ==
    ASSUME TimeInv, OwnerInv, Refs, ComputeInv, NEW s \in SelMgrs, NEW i \in ISPs, getGuidanceMatrix(s, i)
    PROVE  Refs' /\ ComputeInv'
  <1>1. /\ held = NULL /\ m_guidance[s][i] # NULL /\ held' = m_guidance[s][i]
        /\ m_matrices' = [m_matrices EXCEPT ![held'].refs = @ + 1]
        /\ UNCHANGED <<opts, m_guidance, call>>
    BY DEF getGuidanceMatrix
  <1> DEFINE k == <<s, i>>
  <1>2. k \in Keys
    BY DEF Keys
  <1>3. NoneAssigns(call, s, i)
    <2>1. ASSUME NEW t \in Threads, Assigns(call, t, s, i) PROVE FALSE
      <3>1. ~idle(t) /\ call[t].s = s /\ idle("app") /\ s \notin m_selection_mgrs
        BY SMTT(20), <2>1 DEF Assigns, idle, Idle, getGuidanceMatrix
      <3> QED
        BY <3>1 DEF OwnerInv, Threads
    <2> QED
      BY <2>1 DEF NoneAssigns
  <1>4. Pointers[k] = m_guidance[s][i]
    BY <1>3, OwnPointer
  <1> HIDE DEF k
  <1>5. RefInv(m_matrices, Pointers, NULL) /\ Pointers[k] # NULL
    BY <1>1, <1>4 DEF Refs
  <1>6. m_matrices' = [m_matrices EXCEPT ![Pointers[k]].refs = @ + 1] /\ held' = Pointers[k]
    BY <1>1, <1>4
  <1>7. RefInv(m_matrices', Pointers, held') /\ KeepsOptions(m_matrices, m_matrices', Pointers)
    <2>1. m_matrices' = OneReference(m_matrices, Pointers[k]) /\ held' = Pointers[k]
      BY <1>6 DEF OneReference
    <2>2. /\ RefInv(OneReference(m_matrices, Pointers[k]), Pointers, Pointers[k])
          /\ KeepsOptions(m_matrices, OneReference(m_matrices, Pointers[k]), Pointers)
      BY <1>2, <1>5, HoldKeeps
    <2> QED
      BY <2>1, <2>2
  <1>8. Pointers' = Pointers
    BY <1>1, SamePointers
  <1>9. Goes
    BY <1>1 DEF Goes, Continues, SameConfigured, opts
  <1> QED
    BY <1>7, <1>8, <1>9, StepKeeps

LEMMA ReleaseRefs ==
    ASSUME TimeInv, Refs, ComputeInv, releaseGuidanceMatrix
    PROVE  Refs' /\ ComputeInv'
  <1>1. /\ held # NULL /\ m_matrices' = releaseGuidanceMatrixNoLock(m_matrices, {held}) /\ held' = NULL
        /\ UNCHANGED <<opts, m_guidance, call>>
    BY DEF releaseGuidanceMatrix
  <1>2. RefInv(m_matrices, Pointers, held)
    BY DEF Refs
  <1>3. RefInv(m_matrices', Pointers, held') /\ KeepsOptions(m_matrices, m_matrices', Pointers)
    BY SMTT(20), <1>1, <1>2, ReleaseHeldKeeps DEF KeepsOptions
  <1>4. Pointers' = Pointers
    BY <1>1, SamePointers
  <1>5. Goes
    BY <1>1 DEF Goes, Continues, SameConfigured, opts
  <1> QED
    BY <1>3, <1>4, <1>5, StepKeeps

LEMMA ApplicationRefs ==
    ASSUME TimeInv, OptsInv, OwnerInv, Refs, ComputeInv, NEW s \in SelMgrs, application(s)
    PROVE  Refs' /\ ComputeInv'
  <1>0. DOMAIN call = Threads /\ "app" \in Threads
    BY DEF TimeInv, Threads
  <1>1. CASE newSelectionManager(s) \/ addSelectionManager(s)
    BY <1>1, QuietStep DEF newSelectionManager, addSelectionManager
  <1>2. ASSUME NEW c, idle("app"), ~Visits(c), call' = [call EXCEPT !["app"] = c],
               UNCHANGED <<m_guidance, m_matrices, held, opts>>
        PROVE  Refs' /\ ComputeInv'
    <2>1. \A t \in Threads : \/ call'[t] = call[t]
                             \/ call[t].pc # "assign" /\ ~Visits(call'[t])
      BY SMTT(20), <1>0, <1>2 DEF idle, Idle
    <2>2. \A t \in Threads : \/ call'[t] = call[t]
                             \/ /\ call[t].pc # "assign" /\ call'[t].pc # "assign"
                                /\ Continues(call[t], call'[t])
      BY <2>1 DEF Visits, Continues
    <2> QED
      BY <1>2, <2>2, QuietStep
  <1>3. CASE initGuidance(s)
    <2> DEFINE c == [pc |-> "lookup", s |-> s, todo |-> ISPs]
    <2>1. ~Visits(c)
      BY DEF Visits
    <2> HIDE DEF c
    <2> QED
      BY <1>2, <1>3, <2>1 DEF initGuidance, c
  <1>4. ASSUME NEW i \in ISPs, selectPeers(s, i) PROVE Refs' /\ ComputeInv'
    <2> DEFINE c == [pc |-> "undefined", s |-> s]
    <2>1. ~Visits(c)
      BY DEF Visits
    <2>2. CASE UNCHANGED call
      BY <1>4, <2>2, QuietStep DEF selectPeers
    <2>3. CASE call' = [call EXCEPT !["app"] = c]
      <3> HIDE DEF c
      <3> QED
        BY <1>2, <1>4, <2>1, <2>3 DEF selectPeers
    <2> QED
      BY <1>4, <2>2, <2>3 DEF selectPeers
  <1> QED
    BY <1>1, <1>3, <1>4, DeleteRefs, ConfigureRefs, HoldRefs DEF application

LEMMA LookupRefs ==
    ASSUME TimeInv, OptsInv, OwnerInv, OwnerInv', Refs, ComputeInv, NEW t \in Threads, lookup(t)
    PROVE  Refs' /\ ComputeInv'
  <1> DEFINE s == call[t].s
  <1>0. /\ call[t].pc = "lookup" /\ CallOK(call[t]) /\ DOMAIN call = Threads
        /\ UNCHANGED <<opts, m_guidance, held>>
    BY DEF lookup, TimeInv
  <1>1. s \in SelMgrs /\ call[t].todo \subseteq ISPs
    BY <1>0 DEF CallOK
  <1>2. PICK i \in call[t].todo, m \in Matrices :
          /\ m_guidance[s][i] \in DOMAIN m_matrices \cup {NULL}
          /\ getGuidanceMatrixNoLock(releaseGuidanceMatrixNoLock(m_matrices, {m_guidance[s][i]} \ {NULL}),
                                     i, getConfiguredOptions(s, i), m, m_matrices')
          /\ call' = [call EXCEPT ![t] =
                         [pc |-> "assign", s |-> s, todo |-> call[t].todo, isp |-> i, m |-> m]]
    BY DEF lookup
  <1> DEFINE k == <<s, i>>
             o == getConfiguredOptions(s, i)
             old == m_guidance[s][i]
             M == {old} \ {NULL}
             r == releaseGuidanceMatrixNoLock(m_matrices, M)
             P == Pointers
             Q == [j \in Keys |-> IF j = k THEN NULL ELSE P[j]]
  <1>3. k \in Keys /\ i \in ISPs /\ k[2] = i /\ o \in Options
    BY <1>1, <1>2, ConfiguredType DEF Keys
  <1>4. P[k] = old
    BY <1>0, <1>1, <1>3, LookingUp, OwnPointer
  <1>5. RefInv(m_matrices, P, held) /\ P \in [Keys -> Matrices \cup {NULL}]
    BY DEF Refs, RefInv, Linked
  <1>6. PICK D : Drops(P, Q, D, M) /\ D \subseteq {k}
    <2> HIDE DEF P
    <2>1. CASE old = NULL
      <3>1. Drops(P, Q, {}, M)
        BY <1>4, <1>5, <2>1 DEF Drops
      <3> QED
        BY SMTT(20), <3>1
    <2>2. CASE old # NULL
      <3>1. Drops(P, Q, {k}, M)
        BY <1>3, <1>4, <1>5, <2>2 DEF Drops
      <3> QED
        BY <3>1
    <2> QED
      BY <2>1, <2>2
  <1> HIDE DEF P, Q, M, old
  <1>7. RefInv(r, Q, held) /\ \A j \in Keys \ {k} : P[j] # NULL => r[P[j]].options = m_matrices[P[j]].options
    BY SMTT(20), <1>5, <1>6, ReleaseKeeps
  <1>8. getGuidanceMatrixNoLock(r, k[2], o, m, m_matrices')
    BY <1>2, <1>3 DEF M, old
  <1> DEFINE c == [pc |-> "assign", s |-> s, todo |-> call[t].todo, isp |-> i, m |-> m]
  <1>9. /\ call'[t] = c /\ \A u \in Threads \ {t} : call'[u] = call[u]
        /\ c.s = s /\ c.isp = i /\ c.m = m /\ c.pc = "assign"
    BY <1>0, <1>2
  <1> HIDE DEF c
  <1>10. Gains(P, Pointers', k, m)
    <2>1. Assigns(call', t, s, i) /\ call'[t].m = m /\ call[t].pc # "assign"
      BY <1>0, <1>9 DEF Assigns
    <2>2. Alone(call') /\ UNCHANGED m_guidance
      BY <1>0, OwnersAloneNext
    <2> HIDE DEF s
    <2> QED
      BY <1>3, <1>9, <2>1, <2>2, LookupPointers DEF P
  <1>11. Gains(Q, Pointers', k, m) /\ Q[k] = NULL /\ \A j \in Keys \ {k} : Q[j] = P[j]
    BY <1>3, <1>10 DEF Gains, Q
  <1> HIDE DEF r, o, k
  <1>12. /\ RefInv(m_matrices', Pointers', held) /\ m_matrices'[m].options = o
         /\ \A j \in Keys \ {k} : Q[j] # NULL => m_matrices'[Q[j]].options = r[Q[j]].options
    <2>1. Gets(r, Q, held, k, o, m, m_matrices', Pointers')
      BY <1>2, <1>3, <1>7, <1>8, <1>11 DEF Gets
    <2> QED
      BY SMTT(20), <2>1, GetKeeps
  <1>13. Pointers'[k] = m /\ \A j \in Keys \ {k} : Pointers'[j] = P[j]
    BY <1>3, <1>10 DEF Gains
  <1>14. ASSUME NEW u \in Threads
         PROVE  CompAt(call'[u], m_matrices', Pointers', m_guidance_opts_default', m_guidance_opts')
    <2>1. CASE u = t
      <3>1. o = Configured(m_guidance_opts_default', m_guidance_opts', s, i)
        BY <1>0 DEF o, getConfiguredOptions, Configured, opts
      <3> QED
        BY <1>9, <1>12, <1>13, <2>1, <3>1 DEF CompAt, SameOptions, k
    <2>2. CASE u # t /\ Visits(call[u])
      <3> DEFINE j == <<call[u].s, call[u].isp>>
      <3>1. call'[u] = call[u] /\ CompAt(call[u], m_matrices, P, m_guidance_opts_default, m_guidance_opts)
        BY <1>9, <2>2, ComputeInvIs DEF P
      <3>2. j \in Keys /\ call[u].m \in Matrices
        BY <2>2 DEF TimeInv, CallOK, Keys
      <3>3. call[u].s # s
        <4>1. ~idle(t) /\ ~idle(u)
          BY SMTT(20), <1>0, <2>2 DEF Visits, idle, Idle
        <4> QED
          BY <2>2, <4>1, Owners
      <3>4. j # k
        BY <3>3 DEF k
      <3>5. P[j] = call[u].m /\ P[j] # NULL
        BY <2>2, <3>1, <3>2, GuidanceAssumption DEF CompAt
      <3> HIDE DEF j
      <3>6. Pointers'[j] = call[u].m /\ m_matrices'[call[u].m].options = m_matrices[call[u].m].options
        BY SMTT(20), <1>7, <1>11, <1>12, <1>13, <3>2, <3>4, <3>5
      <3> QED
        BY <1>0, <3>1, <3>6 DEF CompAt, j, opts
    <2>3. CASE u # t /\ ~Visits(call[u])
      BY <1>9, <2>3 DEF CompAt
    <2> QED
      BY <2>1, <2>2, <2>3
  <1> QED
    BY <1>0, <1>12, <1>14, ComputeInvIs DEF Refs

LEMMA ComputeRefs ==
    ASSUME TimeInv, OptsInv, OwnerInv, OwnerInv', Refs, ComputeInv, NEW t \in Threads, computeGuidance(t)
    PROVE  Refs' /\ ComputeInv'
  <1>1. ASSUME NEW p \in {"thrown", "undefined"}, Goto(t, p) PROVE FALSE
    <2>1. call'[t].pc = p
      BY <1>1 DEF Goto, TimeInv, CallOK
    <2> QED
      BY <1>1, <2>1 DEF OwnerInv
  <1> QED
    BY <1>1, LookupRefs, LookupSameRefs, AssignRefs, ListRefs, AskRefs
       DEF computeGuidance, lookupThrows, lookupFreed

-----------------------------------------------------------------------------
(* The inductive invariant. *)

LEMMA InitIInv ==
    ASSUME Init
    PROVE  IInv
  <1>1. MaxUpdates \in Nat /\ DefaultOptions \in Options /\ NULL \notin Matrices
    BY GuidanceAssumption
  <1>2. \A t \in Threads : call[t] = Idle /\ call[t].pc = "idle" /\ idle(t)
    BY DEF Init, idle, Idle
  <1>3. CallsOK(call)
    BY <1>2 DEF Init, CallsOK, CallOK, Idle, Visits
  <1>4. m_matrices = <<>> /\ DOMAIN m_matrices = {}
    BY SMTT(20) DEF Init
  <1>5. Mats(m_matrices)
    BY SMTT(20), <1>4 DEF Mats
  <1>6. TimeInv
    <2>1. /\ pids \in [ISPs -> 0..MaxUpdates] /\ m_lastUpdate \in [ISPs -> 0..MaxUpdates]
          /\ \A i \in ISPs : m_lastUpdate[i] <= pids[i]
          /\ m_guidance \in [SelMgrs -> [ISPs -> Matrices \cup {NULL}]]
      BY SMTT(20), <1>1 DEF Init
    <2> QED
      BY <1>3, <1>4, <1>5, <2>1 DEF TimeInv, CallsOK
  <1>7. OptsInv
    <2>1. DOMAIN <<>> = {}
      BY SMTT(20)
    <2> QED
      BY <1>1, <2>1 DEF Init, OptsInv
  <1>8. OwnerInv
    BY <1>2 DEF Init, OwnerInv, Threads
  <1>9. ComputeInv
    BY <1>2 DEF ComputeInv, Visits
  <1>10. \A k \in Keys : Pointers[k] = NULL
    <2>1. ASSUME NEW s \in SelMgrs, NEW i \in ISPs PROVE Pointers[<<s, i>>] = NULL
      <3>1. NoneAssigns(call, s, i)
        BY <1>2 DEF NoneAssigns, Assigns
      <3>2. Pointers[<<s, i>>] = m_guidance[s][i]
        BY <3>1, OwnPointer
      <3> QED
        BY <3>2 DEF Init
    <2> QED
      BY SMTT(20), <2>1 DEF Keys
  <1>11. RefInv(m_matrices, Pointers, held)
    <2>1. Pointers = [k \in Keys |-> Pointers[k]] /\ held = NULL
      BY DEF Pointers, Init
    <2>2. Linked(m_matrices, Pointers, held)
      BY <1>10, <2>1 DEF Linked
    <2> QED
      BY <1>4, <1>5, <2>2 DEF RefInv, Counted, Shared
  <1> QED
    BY <1>6, <1>7, <1>8, <1>9, <1>11 DEF IInv

LEMMA RefsStep ==
    ASSUME TimeInv, OptsInv, OwnerInv, Refs, ComputeInv, ~register_first, Next
    PROVE  OwnerInv' /\ Refs' /\ ComputeInv'
  <1>1. ASSUME NEW s \in SelMgrs, application(s) PROVE OwnerInv' /\ Refs' /\ ComputeInv'
    BY <1>1, ApplicationOwner, ApplicationRefs
  <1>2. ASSUME releaseGuidanceMatrix PROVE OwnerInv' /\ Refs' /\ ComputeInv'
    <2>1. OwnerInv'
      BY <1>2 DEF releaseGuidanceMatrix, OwnerInv, idle, program
    <2> QED
      BY <1>2, <2>1, ReleaseRefs
  <1>3. ASSUME NEW i \in ISPs, update(i) PROVE OwnerInv' /\ Refs' /\ ComputeInv'
    BY <1>3, UpdateOwner, UpdateRefs
  <1>4. ASSUME NEW t \in Threads, computeGuidance(t) PROVE OwnerInv' /\ Refs' /\ ComputeInv'
    <2>1. OwnerInv'
      BY <1>4, ComputeOwner
    <2> QED
      BY <1>4, <2>1, ComputeRefs
  <1> QED
    BY <1>1, <1>2, <1>3, <1>4 DEF Next

LEMMA NextIInv ==
    ASSUME IInv, [Next]_vars
    PROVE  IInv'
  <1>1. TimeInv' /\ OptsInv'
    BY TimeStep, OptsStep DEF IInv
  <1>2. CASE Next
    <2>1. register_first' = register_first
      <3>1. ASSUME NEW s \in SelMgrs, application(s) PROVE register_first' = register_first
        BY <3>1 DEF application, newSelectionManager, initGuidance, addSelectionManager,
            deleteSelectionManager, configure, setDefaultOptions, setISPOptions, clearISPOptions,
            selectPeers, getGuidanceMatrix, program
      <3>2. ASSUME releaseGuidanceMatrix PROVE register_first' = register_first
        BY <3>2 DEF releaseGuidanceMatrix, program
      <3>3. ASSUME NEW i \in ISPs, update(i) PROVE register_first' = register_first
        BY <3>3 DEF update, updatePIDMap, updatePDistanceMap, updateGuidance, program
      <3>4. ASSUME NEW t \in Threads, computeGuidance(t) PROVE register_first' = register_first
        BY <3>4 DEF computeGuidance, lookup, lookupSame, lookupThrows, lookupFreed, assign, list,
            ask, Unchanged, program
      <3> QED
        BY <1>2, <3>1, <3>2, <3>3, <3>4 DEF Next
    <2>2. ~register_first => OwnerInv' /\ Refs' /\ ComputeInv'
      BY <1>2, RefsStep DEF IInv, Refs
    <2> QED
      BY <1>1, <2>1, <2>2 DEF IInv, Refs
  <1>3. CASE UNCHANGED vars
    <2>1. UNCHANGED <<register_first, gone, m_guidance_initialized, m_selection_mgrs, tasks, opts, m_guidance, m_matrices, held, call>>
      BY <1>3 DEF vars, program
    <2>2. ~register_first => Refs' /\ ComputeInv'
      BY <2>1, QuietStep DEF IInv, Refs
    <2>3. OwnerInv => OwnerInv'
      BY <2>1 DEF OwnerInv, idle
    <2> QED
      BY <1>1, <2>1, <2>2, <2>3 DEF IInv, Refs
  <1> QED
    BY <1>2, <1>3

LEMMA AlwaysIInv == Spec => []IInv
  BY InitIInv, NextIInv, PTL DEF Spec

\* The reference counts of the guidance matrices are exact, no thread uses a freed matrix
\* and generic matrices are shared, for any number of ISPs, swarms and options: where
\* applications call initGuidance() before addSelectionManager(), the two threads never
\* compute the guidance of the same swarm.
THEOREM RefsAlwaysExact == Spec => []RefsExact
  <1>1. IInv => RefsExact
    <2> SUFFICES ASSUME IInv, ~register_first PROVE RefsExact
      BY DEF RefsExact
    <2>1. TimeInv /\ OwnerInv /\ RefInv(m_matrices, Pointers, held)
      BY DEF IInv
    <2>2. TypeOK
      BY <2>1 DEF TypeOK, TimeInv, Mats, OwnerInv
    <2>3. ASSUME NEW s \in SelMgrs, NEW i \in ISPs PROVE Pointer(s, i) \in DOMAIN m_matrices \cup {NULL}
      <3>1. <<s, i>> \in Keys /\ Pointers[<<s, i>>] = Pointer(s, i)
        BY DEF Keys, Pointers
      <3> QED
        BY <2>1, <3>1, Referred DEF Refs
    <2>4. held \in DOMAIN m_matrices \cup {NULL}
      BY <2>1 DEF RefInv, Linked
    <2>5. \A t \in Threads : call[t].pc # "undefined"
      BY <2>1 DEF OwnerInv
    <2>6. \A m : Users(m) = UsersOf(Pointers, m)
      BY DEF Users, UsersOf, Pointers, Keys
    <2>7. \A m \in DOMAIN m_matrices :
            /\ m_matrices[m].refs = Cardinality(Users(m)) + (IF held = m THEN 1 ELSE 0)
            /\ m_matrices[m].refs > 0
            /\ SwarmDependent(m_matrices[m].options) => Cardinality(Users(m)) <= 1
      BY <2>1, <2>6 DEF RefInv, Counted
    <2>8. \A m \in DOMAIN m_matrices : \A k \in DOMAIN m_matrices \ {m} :
            SwarmDependent(m_matrices[m].options)
              \/ m_matrices[k].isp # m_matrices[m].isp \/ m_matrices[k].options # m_matrices[m].options
      BY <2>1 DEF RefInv, Shared
    <2> QED
      BY <2>2, <2>3, <2>4, <2>5, <2>7, <2>8 DEF RefsExact
  <1> QED
    BY <1>1, AlwaysIInv, PTL

\* Weights are computed with the options that are configured for the swarm and the ISP,
\* also while the other thread has matrices replaced and options are set: getters and
\* setters of a selection manager wait for computeGuidance().
THEOREM OptionsAlwaysInEffect == Spec => []OptionsInEffect
  <1>1. IInv => OptionsInEffect
    <2> SUFFICES ASSUME IInv, ~register_first, NEW t \in Threads, call[t].pc \in {"list", "ask"}
                 PROVE  SameOptions(m_matrices[m_guidance[call[t].s][call[t].isp]].options,
                                    getConfiguredOptions(call[t].s, call[t].isp))
      BY DEF OptionsInEffect
    <2> DEFINE s == call[t].s
               i == call[t].isp
    <2>1. OwnerInv /\ ComputeInv /\ Visits(call[t]) /\ s \in SelMgrs /\ i \in ISPs
      BY DEF IInv, TimeInv, CallOK, Visits
    <2>2. NoneAssigns(call, s, i)
      <3> SUFFICES ASSUME NEW u \in Threads, Assigns(call, u, s, i) PROVE FALSE
        BY DEF NoneAssigns
      <3>1. ~idle(t) /\ ~idle(u) /\ call[t].s = call[u].s /\ t # u
        BY SMTT(20) DEF Assigns, idle, Idle
      <3> QED
        BY <2>1, <3>1, Owners
    <2>3. Pointers[<<s, i>>] = m_guidance[s][i]
      BY <2>1, <2>2, OwnPointer
    <2> QED
      BY <2>1, <2>3 DEF ComputeInv
  <1> QED
    BY <1>1, AlwaysIInv, PTL

\* compute() skips a matrix whose m_last_pdist_time is the time of the pDistances: its
\* weights are then for PIDs that are no older, although the PIDs are listed after the
\* time is read, by two threads at once, and whether or not selection managers are
\* registered before initGuidance().
THEOREM SkippedAlwaysCurrent == Spec => []SkippedIsCurrent
  <1>1. IInv => SkippedIsCurrent
    <2> SUFFICES ASSUME IInv, NEW m \in DOMAIN m_matrices PROVE m_matrices[m].weights >= m_matrices[m].time
      BY DEF SkippedIsCurrent
    <2>1. m_matrices[m].time <= m_matrices[m].weights /\ m_matrices[m] \in Matrix
      BY DEF IInv, TimeInv, Mats
    <2> QED
      BY <2>1 DEF Matrix
  <1> QED
    BY <1>1, AlwaysIInv, PTL
=============================================================================
