------------------------- MODULE PortalLocksProofs --------------------------
(***************************************************************************)
(* Proofs about PortalLocks, the locks that transactions, jobs and client  *)
(* requests take, for any number of jobs, requests, generations and        *)
(* contents.                                                               *)
(***************************************************************************)
EXTENDS PortalLocks, TLAPS

\* The provers' time limits, where a step names no prover.
USE ZenonT(20), SMTT(20)

\* Everything rests on the root: whoever is inside the tree, a job or an open
\* transaction, is the only owner of the root's upgradable lock ...
RootOwned ==
    /\ \A j \in Jobs : jpc[j] \notin {"idle", "due"} => upgrade[global] = {j}
    /\ apc \in {"global", "views", "open"} => upgrade[global] = {Admin}

\* ... only jobs that replace matrices have upgraded a lock, that of the view last ...
UniqueOwned ==
    /\ \A o \in Objects : \A a \in unique[o] :
         a \in Jobs /\ jpc[a] \in {"xglobal", "xviews", "xview"}
    /\ \A j \in Jobs : jpc[j] = "xview" => j \in unique[view(cur)]

\* ... a response keeps the lock of the view that it is sent from ...
StreamLocked ==
    \A r \in Readers : rpc[r] = "streaming" => r \in shared[view(seen[r].gen)]

\* ... and no client has a reference to the copies of a transaction.
CopiesPrivate ==
    /\ apc # "open" => new = cur
    /\ new # cur => \A r \in Readers : rpc[r] \in {"found", "streaming"} => seen[r].gen # new

LocksInv ==
    /\ StreamConsistent /\ CommitOnCurrent
    /\ RootOwned /\ UniqueOwned /\ StreamLocked /\ CopiesPrivate

\* The objects of the tree are told apart by their kind and generation.
LEMMA ObjectsDistinct ==
    /\ global \in Objects
    /\ \A g \in Gens : view(g) \in Objects /\ view(g) # global
    /\ \A g \in Gens : views(g) \in Objects /\ views(g) # global
    /\ \A g, h \in Gens : view(g) # views(h) /\ (view(g) = view(h) => g = h)
  BY DEF Objects, global, view, views

\* The destructors of a's locks take a, and nobody else, from every table.
LEMMA ReleaseEffect ==
    ASSUME TypeOK, NEW a, Release(a)
    PROVE  /\ {shared', upgrade', unique', write'} \subseteq [Objects -> SUBSET Actors]
           /\ \A o \in Objects : /\ shared'[o] = shared[o] \ {a} /\ upgrade'[o] = upgrade[o] \ {a}
                                       /\ unique'[o] = unique[o] \ {a} /\ write'[o] = write[o] \ {a}
           /\ \A o \in Objects : unique'[o] # {} => shared'[o] \cup write'[o] = {}
  <1>1. \A o \in Objects : /\ shared'[o] = shared[o] \ {a} /\ upgrade'[o] = upgrade[o] \ {a}
                                 /\ unique'[o] = unique[o] \ {a} /\ write'[o] = write[o] \ {a}
    BY DEF Release, Drop
  <1>2. {shared', upgrade', unique', write'} \subseteq [Objects -> SUBSET Actors]
    BY SMTT(20) DEF Release, Drop, TypeOK
  <1> QED
    BY SMTT(20), <1>1, <1>2 DEF TypeOK

\* A lock that is taken adds its owner to one entry of a table.
LEMMA AddEffect ==
    ASSUME NEW table \in [Objects -> SUBSET Actors], NEW o \in Objects, NEW a \in Actors
    PROVE  /\ Add(table, o, a) \in [Objects -> SUBSET Actors]
           /\ Add(table, o, a)[o] = table[o] \cup {a}
           /\ \A q \in Objects : q # o => Add(table, o, a)[q] = table[q]
  BY DEF Add

\* The initial state: nobody has a lock.
LEMMA InitLocksInv == Init => LocksInv
  <1> SUFFICES ASSUME Init PROVE LocksInv
    OBVIOUS
  <1>1. TypeOK
    BY GensAssumption, ActorsAssumption DEF Init, TypeOK, JobPC, AdminPC, ReaderPC
  <1> QED
    BY <1>1
       DEF Init, LocksInv, StreamConsistent, CommitOnCurrent, RootOwned,
           UniqueOwned,
                StreamLocked, CopiesPrivate

\* Taking a job from the queue, and taking or upgrading locks from the root down.
LEMMA JobStep ==
    ASSUME LocksInv, NEW j \in Jobs, jobDue(j) \/ run(j) \/ jobFails(j) \/ do_update(j)
    PROVE  LocksInv'
  <1> USE DEF LocksInv, StreamConsistent
  <1>a. /\ j \in Actors /\ cur \in Gens
        /\ upgrade \in [Objects -> SUBSET Actors] /\ unique \in [Objects -> SUBSET Actors]
        /\ global \in Objects /\ views(cur) \in Objects /\ view(cur) \in Objects
        /\ views(cur) # global /\ view(cur) # global /\ views(cur) # view(cur)
    BY ObjectsDistinct DEF Actors, TypeOK
  <1>1. CASE jobDue(j)
    <2>1. TypeOK'
      BY <1>1 DEF jobDue, TypeOK, locks, state, JobPC
    <2> QED
      BY SMTT(20), <1>1, <2>1
         DEF jobDue, locks, state, CommitOnCurrent, RootOwned, UniqueOwned,
                        StreamLocked, CopiesPrivate, TypeOK
  <1>2. ASSUME NEW from, NEW o \in Objects, NEW to \in JobPC, jobLock(j, from, o, to),
               \/ from = "due" /\ o = global /\ to = "global"
               \/ from \in {"global", "views"} /\ o # global /\ to \in {"views", "view"}
        PROVE  LocksInv'
    <2>1. /\ upgrade' = Add(upgrade, o, j) /\ jpc' = [jpc EXCEPT ![j] = to] /\ upgrade[o] = {}
          /\ jpc[j] = from
          /\ UNCHANGED <<shared, unique, write, cur, new, matrix, copied, apc, rpc, seen>>
      BY <1>2 DEF jobLock, state, CanUpgrade
    <2>2. upgrade' \in [Objects -> SUBSET Actors]
      BY <2>1, <1>a, AddEffect
    <2>3. TypeOK'
      BY <2>1, <2>2, SMTT(30) DEF TypeOK
    <2>4. from \in {"global", "views"} => upgrade[global] = {j}
      BY <2>1 DEF RootOwned
    <2>5. upgrade'[global] = {j}
      BY SMTT(20), <1>2, <2>1, <2>4, <1>a, AddEffect
    <2>6. \A k \in Jobs : jpc[k] \notin {"idle", "due"} => k = j
      BY <1>2, <2>1, <2>4 DEF RootOwned
    <2>7. apc \notin {"global", "views", "open"}
      BY <1>2, <2>1, <2>4, GensAssumption, ActorsAssumption DEF RootOwned
    <2>8. RootOwned'
      BY <2>1, <2>5, <2>6, <2>7 DEF RootOwned, TypeOK
    <2>9. UniqueOwned'
      BY <1>2, <2>1 DEF UniqueOwned, TypeOK
    <2> QED
      BY <2>1, <2>3, <2>8, <2>9 DEF CommitOnCurrent, StreamLocked, CopiesPrivate
  <1>3. ASSUME NEW from, NEW o \in Objects, NEW to \in JobPC, jobUpgrade(j, from, o, to),
               from \notin {"idle", "due"}, to \in {"xglobal", "xviews", "xview"},
               to = "xview" => o = view(cur)
        PROVE  LocksInv'
    <2>1. /\ unique' = Add(unique, o, j) /\ jpc' = [jpc EXCEPT ![j] = to] /\ jpc[j] = from
          /\ shared[o] = {} /\ write[o] = {} /\ unique[o] = {}
          /\ UNCHANGED <<shared, upgrade, write, cur, new, matrix, copied, apc, rpc, seen>>
      BY <1>3 DEF jobUpgrade, state, CanUnique
    <2>2. /\ unique' \in [Objects -> SUBSET Actors] /\ unique'[o] = {j}
          /\ \A q \in Objects : q # o => unique'[q] = unique[q]
      BY SMTT(20), <2>1, <1>a, AddEffect
    <2>3. TypeOK'
      <3>1. \A q \in Objects : unique'[q] # {} => shared'[q] \cup write'[q] = {}
        BY <2>1, <2>2 DEF TypeOK
      <3>2. {shared', upgrade', unique', write'} \subseteq [Objects -> SUBSET Actors]
        BY SMTT(20), <2>1, <2>2 DEF TypeOK
      <3>3. jpc' \in [Jobs -> JobPC]
        BY <2>1 DEF TypeOK
      <3> QED
        BY <2>1, <3>1, <3>2, <3>3 DEF TypeOK
    <2>4. RootOwned'
      BY <1>3, <2>1 DEF RootOwned, TypeOK
    <2>5. UniqueOwned'
      <3>1. \A q \in Objects : \A a \in unique'[q] : a \in Jobs /\ jpc'[a] \in {"xglobal", "xviews", "xview"}
        BY SMTT(20), <1>3, <2>1, <2>2 DEF UniqueOwned, TypeOK
      <3>2. \A k \in Jobs : jpc'[k] = "xview" => k \in unique'[view(cur)]
        BY <1>3, <1>a, <2>1, <2>2 DEF UniqueOwned, TypeOK
      <3> QED
        BY <3>1, <3>2, <2>1 DEF UniqueOwned, view
    <2> QED
      BY <2>1, <2>3, <2>4, <2>5 DEF CommitOnCurrent, StreamLocked, CopiesPrivate
  <1>4. ASSUME Release(j), jpc' = [jpc EXCEPT ![j] = "idle"],
               matrix' \in [Gens -> Contents],
               UNCHANGED <<cur, new, copied, apc, rpc, seen>>,
               \A g \in Gens : matrix'[g] # matrix[g] =>
                   g = cur /\ upgrade[global] = {j} /\ j \in unique[view(cur)]
        PROVE  LocksInv'
    <2>1. /\ {shared', upgrade', unique', write'} \subseteq [Objects -> SUBSET Actors]
          /\ \A o \in Objects : /\ shared'[o] = shared[o] \ {j} /\ upgrade'[o] = upgrade[o] \ {j}
                                      /\ unique'[o] = unique[o] \ {j} /\ write'[o] = write[o] \ {j}
          /\ \A o \in Objects : unique'[o] # {} => shared'[o] \cup write'[o] = {}
      BY <1>4, ReleaseEffect
    <2>2. TypeOK'
      BY <1>4, <2>1 DEF TypeOK, JobPC
    <2>3. RootOwned'
      BY SMTT(20), <1>4, <2>1, <1>a, GensAssumption, ActorsAssumption DEF RootOwned, TypeOK
    <2>4. UniqueOwned'
      BY <1>4, <2>1, <1>a, SMTT(30) DEF UniqueOwned, TypeOK, view
    <2>5. ASSUME NEW r \in Readers, rpc[r] = "streaming"
          PROVE  /\ r \in shared'[view(seen[r].gen)] /\ matrix'[seen[r].gen] = seen[r].matrix
      <3>1. seen[r].gen \in Gens /\ view(seen[r].gen) \in Objects /\ r # j
        BY SMTT(20), ObjectsDistinct, GensAssumption, ActorsAssumption DEF TypeOK
      <3>2. r \in shared[view(seen[r].gen)]
        BY <2>5 DEF StreamLocked
      <3>3. unique[view(seen[r].gen)] = {}
        BY <3>1, <3>2 DEF TypeOK
      <3> QED
        BY SMTT(20), <1>4, <2>1, <2>5, <3>1, <3>2, <3>3
    <2>6. CommitOnCurrent'
      BY <1>4, <1>a, GensAssumption, ActorsAssumption DEF CommitOnCurrent, RootOwned
    <2> QED
      BY <1>4, <2>2, <2>3, <2>4, <2>5, <2>6, Zenon DEF StreamLocked, CopiesPrivate, view
  <1>5. CASE run(j)
    <2>1. {"global", "views", "view"} \subseteq JobPC
      BY DEF JobPC
    <2>2. CASE jobLock(j, "due", global, "global")
      BY <1>2, <1>a, <2>1, <2>2
    <2>3. CASE jobLock(j, "global", views(cur), "views")
      BY <1>2, <1>a, <2>1, <2>3
    <2>4. CASE jobLock(j, "views", view(cur), "view")
      BY <1>2, <1>a, <2>1, <2>4
    <2> QED
      BY <1>5, <2>2, <2>3, <2>4 DEF run
  <1>6. CASE jobFails(j)
    BY <1>6, <1>4 DEF jobFails, state, TypeOK
  <1>7. CASE do_update(j)
    <2>1. {"xglobal", "xviews", "xview"} \subseteq JobPC
      BY DEF JobPC
    <2>2. CASE jobUpgrade(j, "view", global, "xglobal")
      BY SMTT(20), <1>3, <1>a, <2>1, <2>2
    <2>3. CASE jobUpgrade(j, "xglobal", views(cur), "xviews")
      BY SMTT(20), <1>3, <1>a, <2>1, <2>3
    <2>4. CASE jobUpgrade(j, "xviews", view(cur), "xview")
      BY SMTT(20), <1>3, <1>a, <2>1, <2>4
    <2>5. CASE jobUpdates(j)
      <3>1. upgrade[global] = {j} /\ j \in unique[view(cur)]
        BY <2>5 DEF jobUpdates, RootOwned, UniqueOwned
      <3>2. PICK m \in Contents : matrix' = [matrix EXCEPT ![cur] = m]
        BY <2>5, Zenon DEF jobUpdates
      <3>3. matrix' \in [Gens -> Contents] /\ \A g \in Gens : g # cur => matrix'[g] = matrix[g]
        BY <3>2, <1>a DEF TypeOK
      <3> QED
        BY <2>5, <3>1, <3>3, <1>4 DEF jobUpdates
    <2> QED
      BY <1>7, <2>2, <2>3, <2>4, <2>5 DEF do_update
  <1> QED
    BY <1>1, <1>5, <1>6, <1>7

\* A client request: only its own locks and its own references change, and the
\* references are to the current generation.
LEMMA RequestStep ==
    ASSUME LocksInv, NEW r \in Readers, Request(r)
    PROVE  LocksInv'
  <1> USE DEF LocksInv, StreamConsistent
  <1>a. /\ r \in Actors /\ r \notin Jobs /\ r # Admin /\ cur \in Gens /\ new \in Gens
        /\ shared \in [Objects -> SUBSET Actors]
        /\ global \in Objects /\ views(cur) \in Objects
    BY ObjectsDistinct, GensAssumption, ActorsAssumption DEF Actors, TypeOK
  <1>1. ASSUME NEW o \in Objects, unique[o] = {}, shared' = Add(shared, o, r),
               UNCHANGED <<upgrade, unique, write, cur, new, matrix, copied, jpc, apc>>,
               rpc' \in [Readers -> ReaderPC], seen' \in [Readers -> [gen : Gens, matrix : Contents]],
               \A q \in Readers : q # r => rpc'[q] = rpc[q] /\ seen'[q] = seen[q],
               rpc'[r] \in {"found", "streaming"} => rpc[r] = "found" /\ seen'[r].gen = seen[r].gen,
               rpc'[r] = "streaming" => o = view(seen[r].gen) /\ seen'[r].matrix = matrix[seen[r].gen]
        PROVE  LocksInv'
    <2>1. /\ shared' \in [Objects -> SUBSET Actors] /\ shared'[o] = shared[o] \cup {r}
          /\ \A q \in Objects : q # o => shared'[q] = shared[q]
      <3> HIDE DEF LocksInv, StreamConsistent
      <3>1. o \in Objects /\ shared' = Add(shared, o, r)
        BY <1>1
      <3> QED
        BY SMTT(20), <3>1, <1>a, AddEffect
    <2>2. TypeOK'
      <3>1. \A q \in Objects : unique'[q] # {} => shared'[q] \cup write'[q] = {}
        BY <1>1, <2>1 DEF TypeOK
      <3> QED
        BY SMTT(20), <1>1, <2>1, <3>1 DEF TypeOK
    <2>3. ASSUME NEW q \in Readers, rpc'[q] = "streaming"
          PROVE  /\ q \in shared'[view(seen'[q].gen)] /\ matrix'[seen'[q].gen] = seen'[q].matrix
      <3>1. CASE q = r
        BY <1>1, <2>1, <2>3, <3>1
      <3>2. CASE q # r
        <4>1. view(seen[q].gen) \in Objects
          BY ObjectsDistinct DEF TypeOK
        <4> QED
          BY SMTT(20), <1>1, <2>1, <2>3, <3>2, <4>1 DEF StreamLocked
      <3> QED
        BY <3>1, <3>2
    <2>4. CopiesPrivate'
      BY SMTT(20), <1>1 DEF CopiesPrivate
    <2> QED
      BY <1>1, <2>2, <2>3, <2>4
         DEF CommitOnCurrent, RootOwned, UniqueOwned, StreamLocked, view
  <1>2. ASSUME Release(r) \/ UNCHANGED locks,
               UNCHANGED <<cur, new, matrix, copied, jpc, apc>>,
               rpc' \in [Readers -> ReaderPC], seen' \in [Readers -> [gen : Gens, matrix : Contents]],
               \A q \in Readers : q # r => rpc'[q] = rpc[q] /\ seen'[q] = seen[q],
               rpc'[r] # "streaming", rpc'[r] = "found" => seen'[r].gen = cur
        PROVE  LocksInv'
    <2>1. /\ {shared', upgrade', unique', write'} \subseteq [Objects -> SUBSET Actors]
          /\ \A o \in Objects : /\ shared'[o] \in {shared[o], shared[o] \ {r}}
                                      /\ upgrade'[o] \in {upgrade[o], upgrade[o] \ {r}}
                                      /\ unique'[o] \in {unique[o], unique[o] \ {r}}
          /\ \A o \in Objects : unique'[o] # {} => shared'[o] \cup write'[o] = {}
      <3>1. CASE Release(r)
        BY <3>1, ReleaseEffect
      <3>2. CASE UNCHANGED locks
        BY <3>2 DEF locks, TypeOK
      <3> QED
        BY <1>2, <3>1, <3>2
    <2>2. TypeOK'
      BY <1>2, <2>1, Zenon DEF TypeOK
    <2>3. RootOwned'
      BY SMTT(20), <1>2, <2>1, <1>a DEF RootOwned
    <2>4. UniqueOwned'
      <3>1. view(cur) \in Objects
        BY <1>a, ObjectsDistinct
      <3> QED
        BY SMTT(20), <1>2, <2>1, <1>a, <3>1 DEF UniqueOwned, view
    <2>5. ASSUME NEW q \in Readers, rpc'[q] = "streaming"
          PROVE  /\ q \in shared'[view(seen'[q].gen)] /\ matrix'[seen'[q].gen] = seen'[q].matrix
      <3>1. q # r /\ view(seen[q].gen) \in Objects
        BY <1>2, <2>5, ObjectsDistinct DEF TypeOK
      <3> QED
        <4>1. q \in shared[view(seen[q].gen)] /\ matrix[seen[q].gen] = seen[q].matrix
          BY <1>2, <2>5, <3>1 DEF StreamLocked
        <4> HIDE DEF LocksInv, StreamConsistent
        <4>2. seen'[q] = seen[q] /\ matrix' = matrix
          BY <1>2, <3>1
        <4>3. shared'[view(seen[q].gen)] \in {shared[view(seen[q].gen)], shared[view(seen[q].gen)] \ {r}}
          BY <2>1, <3>1
        <4>4. q \in shared'[view(seen[q].gen)]
          BY <3>1, <4>1, <4>3
        <4> QED
          BY <4>1, <4>2, <4>4
    <2>6. CopiesPrivate'
      BY <1>2 DEF CopiesPrivate
    <2> QED
      BY <1>2, <2>2, <2>3, <2>4, <2>5, <2>6 DEF CommitOnCurrent, StreamLocked
  <1>3. CASE tryGlobal(r)
    BY <1>3, <1>1, <1>a, Zenon
       DEF tryGlobal, CanShare, state, TypeOK, ReaderPC
  <1>4. CASE tryViews(r)
    <2>1. CASE CanShare(views(cur))
      BY <1>4, <2>1, <1>1, <1>a, Zenon
         DEF tryViews, CanShare, state, TypeOK, ReaderPC
    <2>2. CASE ~ CanShare(views(cur))
      BY <1>4, <2>2, <1>2, <1>a, Zenon DEF tryViews, state, TypeOK, ReaderPC
    <2> QED
      BY <2>1, <2>2
  <1>5. CASE viewFound(r)
    <2>1. /\ rpc' \in [Readers -> ReaderPC] /\ rpc'[r] = "found"
          /\ seen' \in [Readers -> [gen : Gens, matrix : Contents]] /\ seen'[r].gen = cur
          /\ \A q \in Readers : q # r => rpc'[q] = rpc[q] /\ seen'[q] = seen[q]
      BY SMTT(20), <1>5, <1>a DEF viewFound, TypeOK, ReaderPC
    <2> QED
      BY <1>5, <1>2, <2>1 DEF viewFound, state
  <1>6. CASE tryView(r)
    <2>1. view(seen[r].gen) \in Objects
      BY ObjectsDistinct DEF TypeOK
    <2>2. CASE CanShare(view(seen[r].gen))
      <3>1. /\ shared' = Add(shared, view(seen[r].gen), r)
            /\ seen' = [seen EXCEPT ![r].matrix = matrix[seen[r].gen]]
            /\ rpc' = [rpc EXCEPT ![r] = "streaming"] /\ rpc[r] = "found"
            /\ UNCHANGED <<upgrade, unique, write, cur, new, matrix, copied, jpc, apc>>
        BY <1>6, <2>2 DEF tryView, state
      <3>2. seen' \in [Readers -> [gen : Gens, matrix : Contents]] /\ rpc' \in [Readers -> ReaderPC]
        BY SMTT(20), <3>1 DEF TypeOK, ReaderPC
      <3>3. /\ \A q \in Readers : q # r => rpc'[q] = rpc[q] /\ seen'[q] = seen[q]
            /\ seen'[r].gen = seen[r].gen /\ seen'[r].matrix = matrix[seen[r].gen]
        BY <3>1 DEF TypeOK
      <3> QED
        BY <3>1, <3>2, <3>3, <2>1, <2>2, <1>1 DEF CanShare
    <2>3. CASE ~ CanShare(view(seen[r].gen))
      BY <1>6, <2>3, <1>2, <1>a
         DEF tryView, state, locks, TypeOK, ReaderPC
    <2> QED
      BY <2>2, <2>3
  <1>7. CASE responseFreed(r)
    BY <1>7, <1>2, <1>a, GensAssumption, ActorsAssumption DEF responseFreed, state, TypeOK, ReaderPC
  <1> QED
    BY <1>3, <1>4, <1>5, <1>6, <1>7 DEF Request

\* While a transaction is open no job is inside the tree, and no lock is upgraded.
LEMMA OpenExcludesJobs ==
    ASSUME LocksInv, apc \in {"global", "views", "open"}
    PROVE  /\ \A j \in Jobs : jpc[j] \in {"idle", "due"}
           /\ \A o \in Objects : unique[o] = {}
  <1>1. \A j \in Jobs : jpc[j] \in {"idle", "due"}
    BY Zenon, GensAssumption, ActorsAssumption DEF LocksInv, RootOwned
  <1> QED
    BY <1>1 DEF LocksInv, UniqueOwned

\* The admin thread and the response to an admin client give up their locks.
LEMMA AdminReleases ==
    ASSUME LocksInv, NEW a \in {Admin, AdminStream}, Release(a),
           UNCHANGED <<matrix, jpc, rpc, seen>>,
           \/ a = AdminStream /\ UNCHANGED <<cur, new, copied, apc>>
           \/ /\ cur' \in Gens /\ new' = cur' /\ copied' \in Contents
              /\ apc' \in AdminPC \ {"global", "views", "open"}
              /\ cur' = cur \/ apc = "open"
    PROVE  LocksInv'
  <1> USE DEF LocksInv, StreamConsistent
  <1>1. /\ {shared', upgrade', unique', write'} \subseteq [Objects -> SUBSET Actors]
        /\ \A o \in Objects : /\ shared'[o] = shared[o] \ {a} /\ upgrade'[o] = upgrade[o] \ {a}
                                    /\ unique'[o] = unique[o] \ {a} /\ write'[o] = write[o] \ {a}
        /\ \A o \in Objects : unique'[o] # {} => shared'[o] \cup write'[o] = {}
    BY ReleaseEffect
  <1>2. a \notin Jobs /\ a \notin Readers /\ global \in Objects
    BY ObjectsDistinct, GensAssumption, ActorsAssumption
  <1>3. TypeOK'
    BY <1>1 DEF TypeOK
  <1>4. RootOwned'
    <2>1. CASE a = AdminStream
      BY SMTT(20), <1>1, <1>2, <2>1 DEF RootOwned, Admin, AdminStream
    <2>2. CASE a = Admin
      BY SMTT(20), <1>1, <1>2, <2>2 DEF RootOwned, Admin, AdminStream
    <2> QED
      BY <2>1, <2>2
  <1>5. UniqueOwned'
    <2>1. view(cur) \in Objects /\ \A j \in Jobs : jpc[j] = "xview" => cur' = cur
      BY ObjectsDistinct, OpenExcludesJobs DEF TypeOK
    <2>2. \A o \in Objects : \A b \in unique'[o] :
             b \in Jobs /\ jpc'[b] \in {"xglobal", "xviews", "xview"}
      BY SMTT(20), <1>1 DEF UniqueOwned
    <2>3. ASSUME NEW j \in Jobs, jpc'[j] = "xview" PROVE j \in unique'[view(cur')]
      BY SMTT(20), <1>1, <1>2, <2>1, <2>3 DEF UniqueOwned
    <2> QED
      BY <2>2, <2>3 DEF UniqueOwned, view
  <1>6. \A r \in Readers : rpc[r] = "streaming" => r \in shared'[view(seen[r].gen)]
    <2>1. ASSUME NEW r \in Readers, rpc[r] = "streaming"
          PROVE  r \in shared[view(seen[r].gen)] /\ view(seen[r].gen) \in Objects
      BY <2>1, ObjectsDistinct DEF StreamLocked, TypeOK
    <2> HIDE DEF LocksInv, StreamConsistent
    <2> QED
      BY SMTT(20), <1>1, <1>2, <2>1
  <1>7. CopiesPrivate' /\ CommitOnCurrent'
    BY DEF CopiesPrivate, CommitOnCurrent
  <1> QED
    BY <1>3, <1>4, <1>5, <1>6, <1>7 DEF StreamLocked, view

\* txn_begin() locks from the root down.  The root's lock comes before the contents of
\* the tree are read.
LEMMA BeginStep ==
    ASSUME LocksInv, txn_begin
    PROVE  LocksInv'
  <1> USE DEF LocksInv, StreamConsistent
  <1>a. /\ Admin \in Actors /\ cur \in Gens /\ upgrade \in [Objects -> SUBSET Actors]
        /\ global \in Objects /\ views(cur) \in Objects /\ view(cur) \in Objects
        /\ views(cur) # global /\ view(cur) # global
    BY ObjectsDistinct DEF Actors, TypeOK
  <1>1. ASSUME NEW from, NEW o \in Objects, NEW to,
               \/ from = "begin" /\ o = global /\ to = "global"
               \/ from \in {"global", "views"} /\ o # global /\ to \in {"views", "open"},
               apc = from, CanUpgrade(o), upgrade' = Add(upgrade, o, Admin), apc' = to,
               new' = cur, copied' = matrix[cur],
               UNCHANGED <<shared, unique, write, cur, matrix, jpc, rpc, seen>>
        PROVE  LocksInv'
    <2>1. /\ upgrade[o] = {} /\ upgrade' \in [Objects -> SUBSET Actors] /\ upgrade'[o] = {Admin}
          /\ o # global => upgrade'[global] = upgrade[global]
      BY SMTT(20), <1>1, <1>a, AddEffect DEF CanUpgrade
    <2>2. TypeOK'
      BY SMTT(20), <1>1, <1>a, <2>1 DEF TypeOK, AdminPC
    <2>3. upgrade'[global] = {Admin}
      BY <1>1, <2>1 DEF RootOwned
    <2>4. \A j \in Jobs : jpc[j] \in {"idle", "due"}
      BY <1>1, <2>1, GensAssumption, ActorsAssumption DEF RootOwned
    <2>5. RootOwned' /\ UniqueOwned'
      BY <1>1, <2>3, <2>4, Zenon DEF RootOwned, UniqueOwned
    <2> QED
      BY <1>1, <2>2, <2>5 DEF CommitOnCurrent, StreamLocked, CopiesPrivate
  <1>2. PICK step \in {<<"begin", global, "global">>, <<"global", views(cur), "views">>,
                       <<"views", view(cur), "open">>} :
           /\ apc = step[1] /\ CanUpgrade(step[2]) /\ upgrade' = Add(upgrade, step[2], Admin)
           /\ apc' = step[3] /\ new' = cur /\ copied' = matrix[cur]
           /\ UNCHANGED <<shared, unique, write, cur, matrix, jpc, rpc, seen>>
    BY DEF txn_begin
  <1>3. CASE step = <<"begin", global, "global">>
    BY <1>1, <1>2, <1>3, <1>a
  <1>4. CASE step = <<"global", views(cur), "views">>
    BY <1>1, <1>2, <1>4, <1>a
  <1>5. CASE step = <<"views", view(cur), "open">>
    BY <1>1, <1>2, <1>5, <1>a
  <1> QED
    BY <1>3, <1>4, <1>5

\* An action writes to the copies, which it makes first if need be: no request reads them.
LEMMA ApplyStep ==
    ASSUME LocksInv, txn_apply
    PROVE  LocksInv'
  <1> USE DEF LocksInv, StreamConsistent
  <1>a. Admin \in Actors /\ cur \in Gens /\ new \in Gens /\ apc = "open"
    BY DEF Actors, TypeOK, txn_apply
  <1>1. UNCHANGED <<shared, upgrade, unique, cur, copied, jpc, apc, rpc, seen>>
    BY DEF txn_apply
  <1>2. ASSUME NEW g \in Gens, g # cur, new' = g, NEW m \in Contents, matrix' = [matrix EXCEPT ![g] = m],
               write' \in [Objects -> SUBSET Actors],
               \A r \in Readers : rpc[r] \in {"found", "streaming"} => seen[r].gen # g
        PROVE  LocksInv'
    <2>1. /\ matrix' \in [Gens -> Contents] /\ \A h \in Gens : h # g => matrix'[h] = matrix[h]
      BY <1>2 DEF TypeOK
    <2>2. \A o \in Objects : unique'[o] = {}
      BY <1>1, <1>a, OpenExcludesJobs
    <2>3. TypeOK'
      BY SMTT(20), <1>1, <1>2, <2>1, <2>2 DEF TypeOK
    <2>4. \A r \in Readers : rpc[r] = "streaming" => matrix'[seen[r].gen] = seen[r].matrix
      BY <1>2, <2>1 DEF TypeOK
    <2>5. matrix'[cur] = matrix[cur]
      BY <1>2, <1>a, <2>1
    <2>6. CopiesPrivate'
      BY <1>1, <1>2, <1>a DEF CopiesPrivate
    <2> QED
      BY <1>1, <2>3, <2>4, <2>5, <2>6
         DEF CommitOnCurrent, RootOwned, UniqueOwned, StreamLocked
  <1>3. CASE new # cur /\ (\E m \in Contents : matrix' = [matrix EXCEPT ![new] = m])
             /\ UNCHANGED <<write, new>>
    <2>1. PICK m \in Contents : matrix' = [matrix EXCEPT ![new] = m]
      BY <1>3, Zenon
    <2>2. write' \in [Objects -> SUBSET Actors]
      BY <1>3 DEF TypeOK
    <2>3. \A r \in Readers : rpc[r] \in {"found", "streaming"} => seen[r].gen # new
      BY <1>3 DEF CopiesPrivate
    <2> QED
      BY <1>2, <1>3, <1>a, <2>1, <2>2, <2>3, Zenon
  <1>4. CASE /\ new = cur
             /\ \E g \in Gens :
                  /\ Unreferenced(g) /\ new' = g /\ matrix' = [matrix EXCEPT ![g] = matrix[cur]]
                  /\ write' = [write EXCEPT ![views(g)] = {Admin}, ![view(g)] = {Admin}]
    <2>1. PICK g \in Gens :
             /\ Unreferenced(g) /\ new' = g /\ matrix' = [matrix EXCEPT ![g] = matrix[cur]]
             /\ write' = [write EXCEPT ![views(g)] = {Admin}, ![view(g)] = {Admin}]
      BY <1>4, Zenon
    <2>2. write' \in [Objects -> SUBSET Actors] /\ matrix[cur] \in Contents
      <3>1. Admin \in Actors /\ write \in [Objects -> SUBSET Actors] /\ matrix \in [Gens -> Contents]
        BY <1>a DEF TypeOK, Actors
      <3> HIDE DEF LocksInv, StreamConsistent
      <3> QED
        BY <2>1, <1>a, <3>1, ObjectsDistinct
    <2>3. g # cur /\ shared[view(g)] = {}
      BY <2>1 DEF Unreferenced
    <2>4. \A r \in Readers : rpc[r] \in {"found", "streaming"} => seen[r].gen # g
      BY <2>1, <2>3 DEF Unreferenced, StreamLocked
    <2> QED
      BY <1>2, <2>1, <2>2, <2>3, <2>4, Zenon
  <1> QED
    BY <1>3, <1>4 DEF txn_apply

\* The other steps of the admin thread take shared locks or give theirs up.
LEMMA AdminStep ==
    ASSUME LocksInv, Transaction
    PROVE  LocksInv'
  <1> USE DEF LocksInv, StreamConsistent
  <1>a. /\ Admin \in Actors /\ AdminStream \in Actors /\ cur \in Gens /\ new \in Gens
        /\ upgrade \in [Objects -> SUBSET Actors] /\ write \in [Objects -> SUBSET Actors]
        /\ \A g \in Gens : view(g) \in Objects /\ views(g) \in Objects /\ view(g) # global
        /\ global \in Objects
    BY ObjectsDistinct DEF Actors, TypeOK
  <1>1. CASE getToken
    BY <1>1
       DEF getToken, locks, state, TypeOK, AdminPC,
           CommitOnCurrent, RootOwned,
           UniqueOwned,
                StreamLocked, CopiesPrivate
  <1>2. ASSUME NEW o \in Objects, unique[o] = {}, NEW a \in Actors,
               write' = Add(write, o, a) \/ UNCHANGED write,
               UNCHANGED <<shared, upgrade, unique, cur, new, matrix, copied, jpc, rpc, seen>>,
               apc' = apc \/ (apc # "open" /\ apc' \in AdminPC \ {"global", "views", "open"})
        PROVE  LocksInv'
    <2>1. /\ write' \in [Objects -> SUBSET Actors]
          /\ \A q \in Objects : q # o => write'[q] = write[q]
      <3> HIDE DEF LocksInv, StreamConsistent
      <3>1. o \in Objects /\ a \in Actors
        BY <1>2
      <3>2. CASE write' = Add(write, o, a)
        BY SMTT(20), <3>1, <3>2, <1>a, AddEffect
      <3>3. CASE UNCHANGED write
        BY <3>3, <1>a
      <3> QED
        BY <1>2, <3>2, <3>3
    <2>2. TypeOK'
      <3>1. \A q \in Objects : unique'[q] # {} => shared'[q] \cup write'[q] = {}
        BY <1>2, <2>1 DEF TypeOK
      <3> QED
        BY SMTT(20), <1>2, <2>1, <3>1 DEF TypeOK
    <2> QED
      BY <1>2, <2>2 DEF CommitOnCurrent, RootOwned, UniqueOwned, StreamLocked, CopiesPrivate
  <1>3. CASE adminStream
    <2>1. unique[view(new)] = {}
      BY <1>3, <1>a, OpenExcludesJobs DEF adminStream
    <2>2. CASE new # cur /\ write' = Add(write, view(new), AdminStream) /\ UNCHANGED upgrade
      BY <1>2, <1>3, <1>a, <2>1, <2>2, Zenon DEF adminStream, state
    <2>3. CASE new = cur /\ upgrade' = Add(upgrade, view(cur), AdminStream) /\ UNCHANGED write
      <3>1. upgrade' \in [Objects -> SUBSET Actors] /\ upgrade'[global] = upgrade[global]
        <4> HIDE DEF LocksInv, StreamConsistent
        <4> QED
          BY SMTT(20), <2>3, <1>a, AddEffect
      <3>2. TypeOK'
        <4>1. TypeOK
          OBVIOUS
        <4> HIDE DEF LocksInv, StreamConsistent
        <4> QED
          BY SMTT(20), <1>3, <2>3, <3>1, <4>1 DEF adminStream, state, TypeOK
      <3> QED
        BY <1>3, <2>3, <3>1, <3>2
           DEF adminStream, state, CommitOnCurrent, RootOwned, UniqueOwned,
               StreamLocked,
               CopiesPrivate
    <2> QED
      BY <1>3, <2>2, <2>3 DEF adminStream
  <1>4. CASE adminStreamEnd
    BY <1>4, AdminReleases DEF adminStreamEnd, state
  <1>5. CASE txn_rollback
    BY <1>5, <1>a, AdminReleases, GensAssumption, ActorsAssumption DEF txn_rollback, AdminPC
  <1>6. CASE txn_commit
    BY <1>6, <1>a, AdminReleases, GensAssumption, ActorsAssumption DEF txn_commit, AdminPC
  <1>7. ASSUME NEW from \in {"committed", "uglobal"}, NEW o \in Objects, NEW to \in {"uglobal", "uviews"},
               updatedLock(from, o, to)
        PROVE  LocksInv'
    BY <1>2, <1>7, <1>a DEF updatedLock, CanShare, state, AdminPC
  <1>8. CASE updatedView
    <2>1. CASE writing_(view(cur))
      BY <1>2, <1>8, <1>a, <2>1
         DEF updatedView, CanShare, locks, state, AdminPC
    <2>2. CASE ~ writing_(view(cur))
      <3>1. copied \in Contents /\ new = cur
        BY <1>8 DEF TypeOK, CopiesPrivate, updatedView
      <3> QED
        BY <1>8, <1>a, <2>2, <3>1, AdminReleases DEF updatedView, state, AdminPC
    <2> QED
      BY <2>1, <2>2, Zenon
  <1>9. CASE updated
    BY <1>7, <1>8, <1>9, <1>a DEF updated
  <1> QED
    BY <1>1, <1>3, <1>4, <1>5, <1>6, <1>9, BeginStep, ApplyStep DEF Transaction

\* Every step preserves the invariant.
LEMMA StepLocksInv ==
    LocksInv /\ [Next]_vars => LocksInv'
  <1> SUFFICES ASSUME LocksInv, [Next]_vars PROVE LocksInv'
    OBVIOUS
  <1>1. CASE UNCHANGED vars
    BY <1>1
       DEF vars, LocksInv, StreamConsistent, TypeOK, CommitOnCurrent,
           RootOwned, UniqueOwned,
                StreamLocked, CopiesPrivate
  <1> QED
    BY <1>1, JobStep, RequestStep, AdminStep DEF Next

\* StreamConsistent for every number of jobs, requests and generations: the matrices that a
\* response is sent from do not change under it, since a job replaces them only with the
\* view's lock upgraded, and a transaction writes to copies that no request has found.
THEOREM StreamsConsistent ==
    Spec => []StreamConsistent
  <1>1. LocksInv => StreamConsistent
    BY DEF LocksInv
  <1> QED
    BY <1>1, InitLocksInv, StepLocksInv, PTL DEF Spec

\* CommitOnCurrent likewise: the root's upgradable lock, which a transaction has from its
\* beginning to its end, keeps every job from replacing what the transaction has copied.
THEOREM NoLostUpdate ==
    Spec => []CommitOnCurrent
  <1>1. LocksInv => CommitOnCurrent
    BY DEF LocksInv
  <1> QED
    BY <1>1, InitLocksInv, StepLocksInv, PTL DEF Spec
=============================================================================
