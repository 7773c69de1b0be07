------------------------ MODULE UpdateManagerProofs -------------------------
(***************************************************************************)
(* The tasks of the client library's update manager, for any finite sets   *)
(* of ISPs and selection managers, any times to live and any retry delays. *)
(***************************************************************************)
EXTENDS UpdateManager, FiniteSetTheorems, TLAPS

\* The provers' time limits, where a step names no prover.
USE ZenonT(20), SMTT(20)

\* What the three properties need besides one another: a task is in the index of its
\* own selection manager only, so that removing one manager takes no task of another and
\* no task of an ISP; and tasks and maps are of ISPs that the ISPManager has, so that a
\* manager that is added gets a task for all of them.
IndexOwn ==
    /\ \A s \in SelMgrs : \A k \in m_selmgr_tasks[s] : k.sel_mgr = s
    /\ \A k \in DOMAIN m_tasks : k.isp \in m_isps
    /\ m_pidmap \subseteq m_isps /\ m_pdistmap \subseteq m_isps

\* Execution time 0 is a number, as there are finitely many tasks, and has passed.
EpochPassed == Epoch \in Int /\ Epoch < 0

UpdatesInv == TasksOfRegistered /\ ISPsScheduled /\ StaleGuidanceQueued /\ IndexOwn

LEMMA InitUpdatesInv ==
    ASSUME EpochPassed PROVE Init => UpdatesInv
  <1> SUFFICES ASSUME Init PROVE UpdatesInv
    OBVIOUS
  <1>1. DOMAIN m_tasks = {PIDMap(i) : i \in configured} /\ m_tasks \in [DOMAIN m_tasks -> Int]
    BY DEF EpochPassed, Init
  <1>2. DOMAIN m_tasks \subseteq Task /\ \A k \in DOMAIN m_tasks : k.sel_mgr = NULL /\ k.isp \in configured
    BY SMTT(20), <1>1 DEF Init, PIDMap, Task
  <1>3. TypeOK
    BY <1>1, <1>2, Zenon DEF Init, TypeOK
  <1> QED
    BY <1>1, <1>2, <1>3
       DEF Init, UpdatesInv, TasksOfRegistered, ISPsScheduled,
           StaleGuidanceQueued,
           IndexOwn

\* What a task of the queue is.
LEMMA TaskKinds ==
    ASSUME NEW k \in Task
    PROVE  /\ k.isp \in ISPs
           /\ k.type = "PIDMAP" => k = PIDMap(k.isp)
           /\ k.type = "PDISTANCE" => k = PDistance(k.isp)
           /\ k.type = "GUIDANCE" => k = Guidance(k.isp, k.sel_mgr) /\ k.sel_mgr \in SelMgrs
           /\ k.type \in {"PIDMAP", "PDISTANCE", "GUIDANCE"}
           /\ k.type \in {"PIDMAP", "PDISTANCE"} <=> k.sel_mgr = NULL
  BY ConfigAssumption DEF Task, PIDMap, PDistance, Guidance

LEMMA TaskForms ==
    ASSUME NEW i \in ISPs, NEW s \in SelMgrs
    PROVE  /\ PIDMap(i) \in Task /\ PIDMap(i).isp = i /\ PIDMap(i).sel_mgr = NULL
           /\ PDistance(i) \in Task /\ PDistance(i).isp = i /\ PDistance(i).sel_mgr = NULL
           /\ Guidance(i, s) \in Task /\ Guidance(i, s).isp = i /\ Guidance(i, s).sel_mgr = s
           /\ PIDMap(i).type = "PIDMAP" /\ PDistance(i).type = "PDISTANCE"
           /\ Guidance(i, s).type = "GUIDANCE"
           /\ s # NULL
  BY ConfigAssumption DEF Task, PIDMap, PDistance, Guidance

LEMMA MapTaskForms ==
    ASSUME NEW i \in ISPs
    PROVE  /\ PIDMap(i) \in Task /\ PIDMap(i).isp = i /\ PIDMap(i).sel_mgr = NULL
           /\ PDistance(i) \in Task /\ PDistance(i).isp = i /\ PDistance(i).sel_mgr = NULL
           /\ PIDMap(i).type = "PIDMAP" /\ PDistance(i).type = "PDISTANCE"
  BY DEF Task, PIDMap, PDistance

\* The application's calls.
LEMMA ApplicationStep ==
    ASSUME EpochPassed, UpdatesInv, NEW s \in SelMgrs, Application(s)
    PROVE  UpdatesInv'
  <1> USE DEF UpdatesInv
  <1>t. /\ m_tasks \in [DOMAIN m_tasks -> Int] /\ DOMAIN m_tasks \subseteq Task
        /\ m_selmgr_tasks \in [SelMgrs -> SUBSET Task] /\ m_isps \subseteq ISPs
        /\ m_pidmap \subseteq ISPs /\ m_pdistmap \subseteq ISPs /\ configured \subseteq ISPs
    BY DEF TasksOfRegistered, TypeOK
  <1>1. CASE newSelectionManager(s)
    <2>1. TypeOK'
      BY <1>1
         DEF newSelectionManager, TasksOfRegistered, TypeOK, maps
    <2> QED
      BY <1>1, <2>1
         DEF newSelectionManager, TasksOfRegistered, ISPsScheduled,
             StaleGuidanceQueued, IndexOwn, maps
  <1>2. CASE addSelectionManager(s)
    <2> DEFINE K == {Guidance(i, s) : i \in m_isps}
    <2>1. K \subseteq Task /\ \A k \in K : k.sel_mgr = s /\ k.isp \in m_isps /\ k.type = "GUIDANCE"
      BY SMTT(20), <1>t, TaskForms
    <2>2. /\ m_tasks' = enqueueTask(m_tasks, Epoch, K)
          /\ m_selmgr_tasks' = [r \in SelMgrs |-> m_selmgr_tasks[r] \cup {k \in K : k.sel_mgr = r}]
          /\ m_selection_mgrs' = m_selection_mgrs \cup {s} /\ s \in created
          /\ UNCHANGED <<configured, m_isps, created, m_guidance, m_stopped, pc, m_pidmap, m_pdistmap, computed>>
      BY <1>2 DEF addSelectionManager, addTask, maps
    <2> HIDE DEF K
    <2>3. /\ DOMAIN m_tasks' = DOMAIN m_tasks \cup K /\ m_tasks' \in [DOMAIN m_tasks' -> Int]
          /\ \A k \in DOMAIN m_tasks \ K : m_tasks'[k] = m_tasks[k]
      BY <2>2, <1>t DEF EpochPassed, enqueueTask
    <2>4. m_selmgr_tasks' \in [SelMgrs -> SUBSET Task]
      BY <2>1, <2>2, <1>t
    <2>5. TypeOK'
      BY <2>1, <2>2, <2>3, <2>4 DEF TasksOfRegistered, TypeOK
    <2>6. TasksOfRegistered'
      <3>1. ASSUME NEW k \in DOMAIN m_tasks', k.sel_mgr # NULL
            PROVE  k.sel_mgr \in m_selection_mgrs' /\ k \in m_selmgr_tasks'[k.sel_mgr]
        <4>1. CASE k \in K
          BY <4>1, <2>1, <2>2
        <4>2. CASE k \in DOMAIN m_tasks
          <5>1. k.sel_mgr \in SelMgrs
            BY <3>1, <4>2, <1>t, TaskKinds
          <5> QED
            BY <3>1, <4>2, <5>1, <2>2 DEF TasksOfRegistered
        <4> QED
          BY <4>1, <4>2, <2>3
      <3>2. ASSUME pc' # "thrown", NEW r \in SelMgrs PROVE m_selmgr_tasks'[r] \subseteq DOMAIN m_tasks'
        BY <3>2, <2>2, <2>3 DEF TasksOfRegistered
      <3> QED
        BY <2>5, <3>1, <3>2 DEF TasksOfRegistered
    <2>7. ISPsScheduled'
      <3>1. \A i \in ISPs : PDistance(i) \notin K
        BY <2>1, MapTaskForms
      <3> QED
        BY <3>1, <2>2, <2>3, <1>t DEF ISPsScheduled
    <2>8. StaleGuidanceQueued'
      <3>1. \A i \in m_isps : Guidance(i, s) \in K
        BY DEF K
      <3> QED
        BY <3>1, <2>2, <2>3, Zenon DEF StaleGuidanceQueued, IndexOwn
    <2>9. IndexOwn'
      BY <2>1, <2>2, <2>3, <1>t DEF IndexOwn
    <2> QED
      BY <2>6, <2>7, <2>8, <2>9
  <1>3. CASE removeSelectionManager(s)
    <2>2. /\ m_tasks' = Without(m_tasks, m_selmgr_tasks[s])
          /\ m_selmgr_tasks' = [m_selmgr_tasks EXCEPT ![s] = {}]
          /\ m_selection_mgrs' = m_selection_mgrs \ {s} /\ created' = created \ {s}
          /\ m_guidance' = [m_guidance EXCEPT ![s] = {}]
          /\ computed' = {p \in computed : p[1] # s}
          /\ UNCHANGED <<configured, m_isps, m_stopped, pc, m_pidmap, m_pdistmap>>
      BY <1>3 DEF removeSelectionManager
    <2>3. /\ DOMAIN m_tasks' = DOMAIN m_tasks \ m_selmgr_tasks[s] /\ m_tasks' \in [DOMAIN m_tasks' -> Int]
          /\ \A k \in DOMAIN m_tasks' : m_tasks'[k] = m_tasks[k]
      BY <2>2, <1>t DEF Without
    <2>4. m_selmgr_tasks' \in [SelMgrs -> SUBSET Task]
      BY <2>2, <1>t
    <2>5. TypeOK'
      BY <2>2, <2>3, <2>4 DEF TasksOfRegistered, TypeOK
    <2>6. TasksOfRegistered'
      BY SMTT(20), <2>2, <2>3, <2>4, <2>5, <1>t, TaskKinds DEF TasksOfRegistered, IndexOwn
    <2>7. ISPsScheduled'
      <3>1. \A i \in ISPs : PDistance(i) \notin m_selmgr_tasks[s] /\ PIDMap(i) \notin m_selmgr_tasks[s]
        BY SMTT(20), TaskForms DEF IndexOwn
      <3> QED
        BY <3>1, <2>2, <2>3, <1>t DEF ISPsScheduled
    <2>8. StaleGuidanceQueued'
      <3> SUFFICES ASSUME pc # "thrown", NEW r \in m_selection_mgrs, r # s, NEW i \in m_pdistmap,
                          <<r, i>> \notin computed
                   PROVE  Guidance(i, r) \in DOMAIN m_tasks'
        BY <2>2, Zenon DEF StaleGuidanceQueued
      <3>1. Guidance(i, r) \in DOMAIN m_tasks
        BY DEF StaleGuidanceQueued
      <3>2. Guidance(i, r) \notin m_selmgr_tasks[s]
        BY DEF IndexOwn, Guidance
      <3> QED
        BY <3>1, <3>2, <2>3
    <2>9. IndexOwn'
      BY <2>2, <2>3, <1>t DEF IndexOwn
    <2> QED
      BY <2>6, <2>7, <2>8, <2>9
  <1>4. CASE removeSelectionManagerThrows(s)
    <2>1. pc = "thrown"
      BY <1>4 DEF removeSelectionManagerThrows, TasksOfRegistered
    <2> PICK K \in SUBSET (m_selmgr_tasks[s] \cap DOMAIN m_tasks) :
               /\ m_tasks' = Without(m_tasks, K)
               /\ m_selmgr_tasks' = [m_selmgr_tasks EXCEPT ![s] = @ \ K]
      BY <1>4, Zenon DEF removeSelectionManagerThrows
    <2>2. UNCHANGED <<configured, m_isps, created, m_guidance, m_selection_mgrs, m_stopped,
                      pc, m_pidmap, m_pdistmap, computed>>
      BY <1>4 DEF removeSelectionManagerThrows, program, maps
    <2>3. /\ DOMAIN m_tasks' = DOMAIN m_tasks \ K /\ m_tasks' \in [DOMAIN m_tasks' -> Int]
          /\ \A k \in DOMAIN m_tasks' : m_tasks'[k] = m_tasks[k]
      BY <1>t DEF Without
    <2>4. m_selmgr_tasks' \in [SelMgrs -> SUBSET Task]
      BY <1>t
    <2>5. TypeOK'
      BY <2>2, <2>3, <2>4 DEF TasksOfRegistered, TypeOK
    <2>6. TasksOfRegistered'
      BY <2>1, <2>2, <2>3, <2>5, <1>t, TaskKinds DEF TasksOfRegistered
    <2>7. ISPsScheduled'
      <3>1. \A i \in ISPs : PDistance(i) \notin K /\ PIDMap(i) \notin K
        BY SMTT(20), TaskForms DEF IndexOwn
      <3> QED
        BY <3>1, <2>2, <2>3, <1>t DEF ISPsScheduled
    <2>8. IndexOwn'
      BY <2>2, <2>3, <1>t DEF IndexOwn
    <2> QED
      BY <2>1, <2>2, <2>6, <2>7, <2>8 DEF StaleGuidanceQueued
  <1> QED
    BY <1>1, <1>2, <1>3, <1>4 DEF Application

\* The end of the task k of a map: it is queued again, tasks of guidance K of its ISP may
\* be added, and tasks of maps M; the index follows the queue.
MapTaskEnds(k, K, M) ==
    /\ k.sel_mgr = NULL /\ pc # "thrown"
    /\ K \subseteq Task /\ \A l \in K : l.sel_mgr \in m_selection_mgrs /\ l.isp = k.isp
    /\ M \subseteq Task /\ \A l \in M : l.sel_mgr = NULL /\ l.isp = k.isp
    /\ m_tasks' \in [DOMAIN m_tasks' -> Int] /\ DOMAIN m_tasks' = DOMAIN m_tasks \cup M \cup K
    /\ m_selmgr_tasks' = addTask(removeTask(m_selmgr_tasks, k), K)
    /\ pc' = "check" /\ UNCHANGED program
    /\ m_pidmap' \subseteq m_pidmap \cup {k.isp} /\ m_pdistmap' \subseteq m_pdistmap \cup {k.isp}
    /\ computed' \subseteq computed

LEMMA MapTaskStep ==
    ASSUME EpochPassed, UpdatesInv, NEW k \in DOMAIN m_tasks, NEW K, NEW M, MapTaskEnds(k, K, M)
    PROVE  TasksOfRegistered' /\ IndexOwn'
  <1> USE DEF MapTaskEnds
  <1>t. /\ DOMAIN m_tasks \subseteq Task /\ k \in Task /\ k.isp \in ISPs /\ k.isp \in m_isps
        /\ m_selmgr_tasks \in [SelMgrs -> SUBSET Task] /\ m_isps \subseteq ISPs
        /\ m_selection_mgrs \subseteq SelMgrs
    BY TaskKinds DEF UpdatesInv, IndexOwn, TasksOfRegistered, TypeOK
  <1>u. UNCHANGED <<configured, m_isps, created, m_guidance, m_selection_mgrs, m_stopped>>
    BY DEF program
  <1>i. /\ m_selmgr_tasks' \in [SelMgrs -> SUBSET Task]
        /\ \A s \in SelMgrs : m_selmgr_tasks'[s] = (m_selmgr_tasks[s] \ {k}) \cup {l \in K : l.sel_mgr = s}
    BY <1>t DEF addTask, removeTask
  <1>1. TypeOK'
    BY <1>t, <1>u, <1>i DEF UpdatesInv, TasksOfRegistered, TypeOK
  <1>2. ASSUME NEW l \in DOMAIN m_tasks', l.sel_mgr # NULL
        PROVE  l.sel_mgr \in m_selection_mgrs' /\ l \in m_selmgr_tasks'[l.sel_mgr]
    <2>1. CASE l \in K
      BY SMTT(20), <2>1, <1>t, <1>u, <1>i
    <2>2. CASE l \in DOMAIN m_tasks
      <3>1. l.sel_mgr \in m_selection_mgrs /\ l \in m_selmgr_tasks[l.sel_mgr] /\ l # k
        BY <1>2, <2>2 DEF UpdatesInv, TasksOfRegistered
      <3> QED
        BY SMTT(20), <3>1, <1>t, <1>u, <1>i
    <2> QED
      BY <1>2, <2>1, <2>2
  <1>3. \A s \in SelMgrs : m_selmgr_tasks'[s] \subseteq DOMAIN m_tasks'
    BY SMTT(20), <1>i DEF UpdatesInv, TasksOfRegistered
  <1>4. IndexOwn'
    <2>1. \A s \in SelMgrs : \A l \in m_selmgr_tasks'[s] : l.sel_mgr = s
      BY SMTT(20), <1>i DEF UpdatesInv, IndexOwn
    <2>2. \A l \in DOMAIN m_tasks' : l.isp \in m_isps'
      BY <1>t, <1>u DEF UpdatesInv, IndexOwn
    <2> QED
      BY <2>1, <2>2, <1>t, <1>u DEF UpdatesInv, IndexOwn
  <1> QED
    BY <1>1, <1>2, <1>3, <1>4 DEF TasksOfRegistered

\* A task executed by run().
LEMMA ExecuteStep ==
    ASSUME EpochPassed, UpdatesInv, pc = "locked", NEW k \in DOMAIN m_tasks, executeTask(k)
    PROVE  UpdatesInv'
  <1> DEFINE rest == Without(m_tasks, {k})
             i == k.isp
  <1>t. /\ m_tasks \in [DOMAIN m_tasks -> Int] /\ DOMAIN m_tasks \subseteq Task /\ k \in Task
        /\ m_selection_mgrs \subseteq SelMgrs
        /\ m_pidmap \subseteq ISPs /\ m_pdistmap \subseteq ISPs /\ configured \subseteq ISPs
        /\ i \in ISPs
    BY TaskKinds DEF UpdatesInv, TasksOfRegistered, TypeOK
  <1>r. /\ DOMAIN rest = DOMAIN m_tasks \ {k} /\ rest \in [DOMAIN m_tasks \ {k} -> Int]
        /\ \A l \in DOMAIN m_tasks \ {k} : rest[l] = m_tasks[l]
    BY <1>t DEF Without
  <1>c. /\ Retry["PIDMAP"] \in Int /\ Retry["PDISTANCE"] \in Int /\ 0 <= Retry["PDISTANCE"]
        /\ TTLs \subseteq Int /\ Epoch \in Int /\ Epoch < 0
    BY SMTT(20), ConfigAssumption DEF EpochPassed
  <1> HIDE DEF rest
  <1>q. ASSUME NEW t \in Int
        PROVE  /\ DOMAIN enqueueTask(rest, t, {k}) = DOMAIN m_tasks
               /\ enqueueTask(rest, t, {k}) \in [DOMAIN m_tasks -> Int]
               /\ enqueueTask(rest, t, {k})[k] = t
               /\ \A l \in DOMAIN m_tasks \ {k} : enqueueTask(rest, t, {k})[l] = m_tasks[l]
    BY <1>r DEF enqueueTask
  <1>p. \A j \in ISPs : PIDMap(j) # PDistance(j) /\ (PDistance(j) = k => j = i)
    BY SMTT(20) DEF PIDMap, PDistance
  <1>1. CASE k.type = "PIDMAP"
    <2>1. updatePIDMap(k, rest) /\ k.sel_mgr = NULL
      BY <1>1, <1>t, TaskKinds DEF executeTask, rest
    <2>2. CASE /\ Finish(k, enqueueTask(rest, Retry["PIDMAP"], {k}), {})
               /\ UNCHANGED maps
      <3>1. /\ m_tasks' \in [DOMAIN m_tasks -> Int] /\ DOMAIN m_tasks' = DOMAIN m_tasks
            /\ \A l \in DOMAIN m_tasks \ {k} : m_tasks'[l] = m_tasks[l]
            /\ m_selmgr_tasks' = addTask(removeTask(m_selmgr_tasks, k), {})
            /\ pc' = "check" /\ UNCHANGED program /\ UNCHANGED <<m_pidmap, m_pdistmap, computed>>
        BY <2>2, <1>c, <1>q, Zenon DEF Finish, maps
      <3>2. TasksOfRegistered' /\ IndexOwn'
        <4>1. MapTaskEnds(k, {}, {})
          BY <2>1, <3>1 DEF MapTaskEnds
        <4> QED
          BY <4>1, MapTaskStep
      <3>3. \A j \in ISPs : PDistance(j) # k
        BY SMTT(20), <1>1 DEF PDistance
      <3>4. ISPsScheduled'
        BY <3>1, <3>3, <1>t DEF UpdatesInv, ISPsScheduled, program
      <3>5. StaleGuidanceQueued'
        BY <3>1, Zenon DEF UpdatesInv, StaleGuidanceQueued, program
      <3> QED
        BY <3>2, <3>4, <3>5 DEF UpdatesInv
    <2>3. ASSUME NEW ttl \in TTLs,
                 Finish(k, enqueueTask(enqueueTask(rest, ttl, {k}), Epoch, {PDistance(k.isp)}), {}),
                 m_pidmap' = m_pidmap \cup {k.isp}, m_pdistmap' = m_pdistmap \ {k.isp},
                 UNCHANGED computed
          PROVE  UpdatesInv'
      <3> DEFINE q == enqueueTask(rest, ttl, {k})
      <3>1. PDistance(i) \in Task /\ PDistance(i).sel_mgr = NULL /\ PDistance(i).isp = i
        BY <1>t, MapTaskForms
      <3>2. /\ DOMAIN q = DOMAIN m_tasks /\ q \in [DOMAIN m_tasks -> Int]
            /\ \A l \in DOMAIN m_tasks \ {k} : q[l] = m_tasks[l]
        BY <1>c, <1>q, Zenon
      <3> HIDE DEF q
      <3>3. m_tasks' = enqueueTask(q, Epoch, {PDistance(i)})
        BY <2>3 DEF Finish, q
      <3>4. /\ DOMAIN m_tasks' = DOMAIN m_tasks \cup {PDistance(i)} /\ m_tasks' \in [DOMAIN m_tasks' -> Int]
            /\ m_tasks'[PDistance(i)] <= Epoch
            /\ \A l \in DOMAIN m_tasks \ {k, PDistance(i)} : m_tasks'[l] = m_tasks[l]
        BY SMTT(20), <3>2, <3>3, <1>c DEF enqueueTask
      <3>5. /\ m_selmgr_tasks' = addTask(removeTask(m_selmgr_tasks, k), {})
            /\ pc' = "check" /\ UNCHANGED program
        BY <2>3 DEF Finish
      <3>6. TasksOfRegistered' /\ IndexOwn'
        <4>1. MapTaskEnds(k, {}, {PDistance(i)})
          BY <2>1, <2>3, <3>1, <3>4, <3>5 DEF MapTaskEnds
        <4> QED
          BY <4>1, MapTaskStep
      <3>7. ISPsScheduled'
        <4>1. ASSUME NEW j \in m_pidmap', j # i
              PROVE  /\ PDistance(j) \in DOMAIN m_tasks'
                     /\ j \notin m_pdistmap' => m_tasks'[PDistance(j)] <= Retry["PDISTANCE"]
          <5>1. PDistance(j) # k /\ PDistance(j) # PDistance(i)
            BY SMTT(20), <4>1, <1>1 DEF PDistance
          <5> QED
            BY <4>1, <5>1, <2>3, <3>4 DEF UpdatesInv, ISPsScheduled
        <4>2. m_tasks'[PDistance(i)] <= Retry["PDISTANCE"]
          BY SMTT(20), <3>4, <1>c
        <4> QED
          BY <4>1, <4>2, <3>4, <3>5 DEF UpdatesInv, ISPsScheduled, program
      <3>8. StaleGuidanceQueued'
        BY <2>3, <3>4, <3>5, Zenon DEF UpdatesInv, StaleGuidanceQueued, program
      <3> QED
        BY <3>6, <3>7, <3>8 DEF UpdatesInv
    <2> QED
      BY <2>1, <2>2, <2>3 DEF updatePIDMap
  <1>2. CASE k.type = "PDISTANCE"
    <2>1. updatePDistanceMap(k, rest) /\ k.sel_mgr = NULL /\ k = PDistance(i)
      BY <1>2, <1>t, TaskKinds DEF executeTask, rest
    <2>2. CASE /\ Finish(k, enqueueTask(rest, Retry["PDISTANCE"], {k}), {})
               /\ UNCHANGED maps
      <3>1. /\ m_tasks' \in [DOMAIN m_tasks -> Int] /\ DOMAIN m_tasks' = DOMAIN m_tasks
            /\ \A l \in DOMAIN m_tasks \ {k} : m_tasks'[l] = m_tasks[l]
            /\ m_tasks'[k] = Retry["PDISTANCE"]
            /\ m_selmgr_tasks' = addTask(removeTask(m_selmgr_tasks, k), {})
            /\ pc' = "check" /\ UNCHANGED program /\ UNCHANGED <<m_pidmap, m_pdistmap, computed>>
        BY <2>2, <1>c, <1>q, Zenon DEF Finish, maps
      <3>2. TasksOfRegistered' /\ IndexOwn'
        <4>1. MapTaskEnds(k, {}, {})
          BY <2>1, <3>1 DEF MapTaskEnds
        <4> QED
          BY <4>1, MapTaskStep
      <3>4. ISPsScheduled'
        BY SMTT(20), <3>1, <1>t, <1>c DEF UpdatesInv, ISPsScheduled, program
      <3>5. StaleGuidanceQueued'
        BY <3>1, Zenon DEF UpdatesInv, StaleGuidanceQueued, program
      <3> QED
        BY <3>2, <3>4, <3>5 DEF UpdatesInv
    <2> DEFINE K == {Guidance(k.isp, s) : s \in m_selection_mgrs}
    <2>3. ASSUME NEW ttl \in TTLs,
                 Finish(k, enqueueTask(enqueueTask(rest, ttl, {k}), Epoch, K), K),
                 m_pdistmap' = m_pdistmap \cup {k.isp},
                 computed' = {p \in computed : p[2] # k.isp},
                 UNCHANGED m_pidmap
          PROVE  UpdatesInv'
      <3> DEFINE q == enqueueTask(rest, ttl, {k})
      <3>1. /\ K \subseteq Task /\ \A l \in K : l.sel_mgr \in m_selection_mgrs /\ l.isp = i
            /\ \A s \in m_selection_mgrs : Guidance(i, s) \in K
            /\ \A j \in ISPs : PDistance(j) \notin K
        BY SMTT(20), <1>t, TaskForms
      <3>2. /\ DOMAIN q = DOMAIN m_tasks /\ q \in [DOMAIN m_tasks -> Int]
            /\ \A l \in DOMAIN m_tasks \ {k} : q[l] = m_tasks[l]
        BY <1>c, <1>q, Zenon
      <3>3. m_tasks' = enqueueTask(q, Epoch, K)
        BY <2>3 DEF Finish
      <3>5. /\ m_selmgr_tasks' = addTask(removeTask(m_selmgr_tasks, k), K)
            /\ pc' = "check" /\ UNCHANGED program
        BY <2>3 DEF Finish
      <3> HIDE DEF q, K
      <3>4. /\ DOMAIN m_tasks' = DOMAIN m_tasks \cup K /\ m_tasks' \in [DOMAIN m_tasks' -> Int]
            /\ \A l \in DOMAIN m_tasks \ ({k} \cup K) : m_tasks'[l] = m_tasks[l]
        BY <3>2, <3>3, <1>c DEF enqueueTask
      <3>6. TasksOfRegistered' /\ IndexOwn'
        <4>1. MapTaskEnds(k, K, {})
          BY <2>1, <2>3, <3>1, <3>4, <3>5 DEF MapTaskEnds
        <4> QED
          BY <4>1, MapTaskStep
      <3>7. ISPsScheduled'
        <4>1. ASSUME NEW j \in m_pidmap
              PROVE  /\ PDistance(j) \in DOMAIN m_tasks'
                     /\ j \notin m_pdistmap' => m_tasks'[PDistance(j)] <= Retry["PDISTANCE"]
          <5>1. PDistance(j) \in DOMAIN m_tasks'
            BY <3>4 DEF UpdatesInv, ISPsScheduled
          <5>2. ASSUME j \notin m_pdistmap' PROVE m_tasks'[PDistance(j)] <= Retry["PDISTANCE"]
            <6>1. j # i /\ j \notin m_pdistmap
              BY <5>2, <2>3
            <6>2. PDistance(j) # k /\ PDistance(j) \notin K
              BY <6>1, <1>p, <1>t, <3>1
            <6> QED
              BY <6>1, <6>2, <3>4 DEF UpdatesInv, ISPsScheduled
          <5> QED
            BY <5>1, <5>2
        <4> QED
          BY <4>1, <2>3, <3>4, <3>5 DEF UpdatesInv, ISPsScheduled, program
      <3>8. StaleGuidanceQueued'
        <4> SUFFICES ASSUME NEW s \in m_selection_mgrs, NEW j \in m_pdistmap',
                            <<s, j>> \notin computed'
                     PROVE  Guidance(j, s) \in DOMAIN m_tasks'
          BY <3>5, Zenon DEF StaleGuidanceQueued, program
        <4>1. CASE j = i
          BY <4>1, <3>1, <3>4
        <4>2. CASE j # i
          <5>1. <<s, j>> \notin computed /\ j \in m_pdistmap
            BY <4>2, <2>3
          <5> QED
            BY <5>1, <3>4 DEF UpdatesInv, StaleGuidanceQueued
        <4> QED
          BY <4>1, <4>2
      <3> QED
        BY <3>6, <3>7, <3>8 DEF UpdatesInv
    <2> QED
      BY <2>1, <2>2, <2>3, Zenon DEF updatePDistanceMap
  <1>3. CASE k.type = "GUIDANCE"
    <2>1. /\ updateGuidance(k, rest) /\ k.sel_mgr \in SelMgrs /\ k = Guidance(i, k.sel_mgr)
          /\ \A j \in ISPs : PDistance(j) # k /\ PIDMap(j) # k
      BY <1>3, <1>t, TaskKinds, MapTaskForms DEF executeTask, rest
    <2>2. CASE /\ Finish(k, rest, {})
               /\ computed' = computed \cup {<<k.sel_mgr, k.isp>>}
               /\ UNCHANGED <<m_pidmap, m_pdistmap>>
      <3>1. /\ m_tasks' = rest /\ pc' = "check"
            /\ UNCHANGED <<configured, m_isps, created, m_guidance, m_selection_mgrs, m_stopped>>
        BY <2>2 DEF Finish, program
      <3>2. /\ m_selmgr_tasks' \in [SelMgrs -> SUBSET Task]
            /\ \A s \in SelMgrs : m_selmgr_tasks'[s] = m_selmgr_tasks[s] \ {k}
        BY <2>2
           DEF Finish, addTask, removeTask, UpdatesInv,
               TasksOfRegistered,
               TypeOK
      <3>3. TypeOK'
        BY SMTT(20), <2>1, <2>2, <3>1, <3>2, <1>r, <1>t
           DEF UpdatesInv, TasksOfRegistered, TypeOK
      <3>4. TasksOfRegistered'
        BY SMTT(20), <3>1, <3>2, <3>3, <1>r, <1>t DEF UpdatesInv, TasksOfRegistered
      <3>5. ISPsScheduled'
        BY <2>1, <2>2, <3>1, <1>r, <1>t DEF UpdatesInv, ISPsScheduled
      <3>6. StaleGuidanceQueued'
        <4> SUFFICES ASSUME NEW s \in m_selection_mgrs, NEW j \in m_pdistmap,
                            <<s, j>> \notin computed'
                     PROVE  Guidance(j, s) \in DOMAIN m_tasks'
          BY <2>2, <3>1, Zenon DEF StaleGuidanceQueued
        <4>1. Guidance(j, s) \in DOMAIN m_tasks
          BY <2>2 DEF UpdatesInv, StaleGuidanceQueued
        <4>2. Guidance(j, s) # k
          BY SMTT(20), <2>2 DEF Guidance
        <4> QED
          BY <4>1, <4>2, <3>1, <1>r
      <3>7. IndexOwn'
        BY <2>2, <3>1, <3>2, <1>r DEF UpdatesInv, IndexOwn
      <3> QED
        BY <3>4, <3>5, <3>6, <3>7 DEF UpdatesInv
    <2>3. CASE /\ m_tasks' = rest
               /\ pc' = "thrown"
               /\ UNCHANGED <<program, m_selmgr_tasks, maps>>
      <3>1. UNCHANGED <<configured, m_isps, created, m_guidance, m_selection_mgrs, m_stopped,
                        m_selmgr_tasks, m_pidmap, m_pdistmap, computed>>
        BY <2>3 DEF program, maps
      <3>2. TypeOK'
        BY <2>3, <3>1, <1>r, <1>t DEF UpdatesInv, TasksOfRegistered, TypeOK
      <3>3. TasksOfRegistered'
        BY <2>3, <3>1, <3>2, <1>r DEF UpdatesInv, TasksOfRegistered
      <3>4. ISPsScheduled'
        BY <2>1, <2>3, <3>1, <1>r, <1>t DEF UpdatesInv, ISPsScheduled
      <3>5. IndexOwn'
        BY <2>3, <3>1, <1>r DEF UpdatesInv, IndexOwn
      <3> QED
        BY <2>3, <3>3, <3>4, <3>5 DEF UpdatesInv, StaleGuidanceQueued
    <2> QED
      BY <2>1, <2>2, <2>3 DEF updateGuidance
  <1> QED
    BY <1>1, <1>2, <1>3, <1>t, TaskKinds

\* time(NULL): overdue tasks stay overdue, and the others come nearer.
LEMMA RunStep ==
    ASSUME EpochPassed PROVE UpdatesInv /\ run => UpdatesInv'
  <1> SUFFICES ASSUME EpochPassed, UpdatesInv, run PROVE UpdatesInv'
    OBVIOUS
  <1>1. ASSUME pc # "thrown", pc' \in {"check", "locked", "outer", "finished", "undefined"},
               pc' = "undefined" => configured = {},
               UNCHANGED <<program, m_tasks, m_selmgr_tasks, maps>>
        PROVE  UpdatesInv'
    <2>1. TypeOK'
      BY <1>1
         DEF UpdatesInv, TasksOfRegistered, TypeOK, program, maps
    <2> QED
      BY <1>1, <2>1
      DEF UpdatesInv, TasksOfRegistered, ISPsScheduled,
          StaleGuidanceQueued, IndexOwn,
          program, maps
  <1>2. CASE runCheck
    BY <1>1, <1>2 DEF runCheck
  <1>3. CASE runTask
    <2> PICK k \in Tops : IF m_tasks[k] > 0
                         THEN pc' = "outer" /\ UNCHANGED <<program, m_tasks, m_selmgr_tasks, maps>>
                         ELSE executeTask(k)
      BY <1>3 DEF runTask
    <2>1. pc = "locked" /\ k \in DOMAIN m_tasks
      BY <1>3 DEF runTask, Tops
    <2> QED
      BY <1>1, <2>1, ExecuteStep
  <1>4. CASE runEmpty
    <2>1. configured = {}
      BY <1>4 DEF runEmpty, UpdatesInv, ISPsScheduled
    <2> QED
      BY <1>1, <1>4, <2>1 DEF runEmpty
  <1>5. CASE runOuter
    BY <1>1, <1>5 DEF runOuter
  <1> QED
    BY <1>2, <1>3, <1>4, <1>5 DEF run

-----------------------------------------------------------------------------
(* The tasks of the update manager, counted. *)

\* There are finitely many tasks, so Epoch is a number, and it has passed.
LEMMA TaskFinite ==
    IsFiniteSet(Task)
  <1> DEFINE Kinds == {"PIDMAP", "PDISTANCE"}
             T1 == [type : {"PIDMAP", "PDISTANCE"}, isp : ISPs, sel_mgr : {NULL}]
             T2 == [type : {"GUIDANCE"}, isp : ISPs, sel_mgr : SelMgrs]
             f1 == [x \in Kinds \X ISPs |-> [type |-> x[1], isp |-> x[2], sel_mgr |-> NULL]]
             f2 == [x \in ISPs \X SelMgrs |-> [type |-> "GUIDANCE", isp |-> x[1], sel_mgr |-> x[2]]]
  <1>1. IsFiniteSet(Kinds)
    <2>1. IsFiniteSet({"PIDMAP"}) /\ IsFiniteSet({"PDISTANCE"})
      BY FS_Singleton, Zenon
    <2>2. IsFiniteSet({"PIDMAP"} \cup {"PDISTANCE"})
      BY <2>1, FS_Union, Zenon
    <2>3. Kinds = {"PIDMAP"} \cup {"PDISTANCE"}
      OBVIOUS
    <2> QED
      BY <2>2, <2>3
  <1>2. IsFiniteSet(Kinds \X ISPs) /\ IsFiniteSet(ISPs \X SelMgrs)
    BY <1>1, FS_Product, ConfigAssumption
  <1>3. f1 \in Surjection(Kinds \X ISPs, T1)
    <2>1. f1 \in [Kinds \X ISPs -> T1]
      OBVIOUS
    <2>2. ASSUME NEW t \in T1 PROVE \E x \in Kinds \X ISPs : f1[x] = t
      <3>1. <<t.type, t.isp>> \in Kinds \X ISPs /\ f1[<<t.type, t.isp>>] = t
        OBVIOUS
      <3> QED
        BY <3>1
    <2> QED
      BY <2>1, <2>2, Zenon DEF Surjection
  <1>4. f2 \in Surjection(ISPs \X SelMgrs, T2)
    <2>1. f2 \in [ISPs \X SelMgrs -> T2]
      OBVIOUS
    <2>2. ASSUME NEW t \in T2 PROVE \E x \in ISPs \X SelMgrs : f2[x] = t
      <3>1. <<t.isp, t.sel_mgr>> \in ISPs \X SelMgrs /\ f2[<<t.isp, t.sel_mgr>>] = t
        OBVIOUS
      <3> QED
        BY <3>1
    <2> QED
      BY <2>1, <2>2 DEF Surjection
  <1>5. IsFiniteSet(T1) /\ IsFiniteSet(T2)
    <2> HIDE DEF f1, f2, T1, T2, Kinds
    <2> QED
      BY <1>2, <1>3, <1>4, FS_Surjection
  <1> QED
    BY <1>5, FS_Union, Zenon DEF Task

LEMMA SameCardinality == \A S : Cardinality(S) = Cardinality(S)
  BY Zenon DEF Cardinality, Cardinality

LEMMA EpochHasPassed ==
    EpochPassed
  BY SMTT(20), TaskFinite, FS_CardinalityType, SameCardinality DEF EpochPassed, Epoch

LEMMA TickStep ==
    UpdatesInv /\ tick => UpdatesInv'
  <1> SUFFICES ASSUME UpdatesInv, tick PROVE UpdatesInv'
    OBVIOUS
  <1> DEFINE due == {l \in DOMAIN m_tasks : Epoch < m_tasks[l] /\ m_tasks[l] <= 0}
             past == {m_tasks[k] - 1 : k \in due}
             overdue(t) == {u \in past : t - 1 <= u}
             later(t) == IF t > 0 THEN t - 1 ELSE IF t = Epoch THEN Epoch ELSE -Cardinality(overdue(t))
             f == [k \in due |-> m_tasks[k] - 1]
  <1>t. m_tasks \in [DOMAIN m_tasks -> Int] /\ DOMAIN m_tasks \subseteq Task
    BY DEF UpdatesInv, TasksOfRegistered, TypeOK
  <1>1. IsFiniteSet(due)
    BY <1>t, TaskFinite, FS_Subset
  <1>2. f \in Surjection(due, past)
    BY DEF Surjection
  <1>3. IsFiniteSet(past)
    <2> HIDE DEF f, past, due
    <2> QED
      BY <1>1, <1>2, FS_Surjection
  <1>4. ASSUME NEW t \in Int PROVE Cardinality(overdue(t)) \in Nat
    BY <1>3, FS_Subset, FS_CardinalityType
  <1>5. m_tasks' = [k \in DOMAIN m_tasks |-> later(m_tasks[k])]
    BY SameCardinality DEF tick
  <1>6. UNCHANGED <<configured, m_isps, created, m_guidance, m_selection_mgrs, m_stopped,
                    m_selmgr_tasks, pc, m_pidmap, m_pdistmap, computed>>
    BY DEF tick, program, maps
  <1> HIDE DEF due, past, overdue
  <1>7. /\ DOMAIN m_tasks' = DOMAIN m_tasks /\ m_tasks' \in [DOMAIN m_tasks' -> Int]
        /\ \A k \in DOMAIN m_tasks : m_tasks'[k] <= 0 \/ m_tasks'[k] <= m_tasks[k]
    BY SMTT(20), <1>t, <1>4, <1>5, EpochHasPassed DEF EpochPassed
  <1>8. ISPsScheduled'
    <2>1. Retry["PDISTANCE"] \in Nat
      BY ConfigAssumption
    <2> QED
      BY SMTT(20), <2>1, <1>t, <1>6, <1>7 DEF UpdatesInv, ISPsScheduled
  <1>9. TypeOK'
    BY <1>6, <1>7 DEF UpdatesInv, TasksOfRegistered, TypeOK
  <1> QED
    BY <1>6, <1>7, <1>8, <1>9
       DEF UpdatesInv, TasksOfRegistered, StaleGuidanceQueued, IndexOwn

LEMMA StepUpdatesInv ==
    UpdatesInv /\ [Next]_vars => UpdatesInv'
  <1> SUFFICES ASSUME UpdatesInv, [Next]_vars PROVE UpdatesInv'
    OBVIOUS
  <1>1. CASE \E i \in ISPs : addISP(i)
    <2> PICK i \in ISPs : addISP(i)
      BY <1>1
    <2>1. TypeOK'
      BY DEF addISP, maps, UpdatesInv, TasksOfRegistered, TypeOK
    <2> QED
      BY <2>1
         DEF addISP, maps, UpdatesInv, TasksOfRegistered,
             ISPsScheduled,
             StaleGuidanceQueued, IndexOwn
  <1>2. CASE \E s \in SelMgrs : Application(s)
    BY <1>2, EpochHasPassed, ApplicationStep
  <1>3. CASE stop \/ UNCHANGED vars
    <2>1. TypeOK'
      BY <1>3, Zenon
         DEF stop, vars, maps, UpdatesInv, TasksOfRegistered,
             TypeOK
    <2> QED
      BY <1>3, <2>1
      DEF stop, vars, maps, UpdatesInv, TasksOfRegistered,
          ISPsScheduled,
          StaleGuidanceQueued, IndexOwn
  <1>4. CASE run
    BY <1>4, EpochHasPassed, RunStep
  <1>5. CASE tick
    BY <1>5, TickStep
  <1> QED
    BY <1>1, <1>2, <1>3, <1>4, <1>5 DEF Next

\* addTask(), removeTask(), removeSelectionManager(): the queue holds tasks of registered
\* selection managers only, and the index finds all of them, however many there are.
THEOREM NoTaskOfDestroyed ==
    Spec => []TasksOfRegistered
  <1>1. UpdatesInv => TasksOfRegistered
    BY DEF UpdatesInv
  <1> QED
    BY EpochHasPassed, InitUpdatesInv, StepUpdatesInv, <1>1, PTL DEF Spec

\* updatePIDMap(), updatePDistanceMap(): no failure, removal or duplicate takes an ISP out of
\* the queue, and run() finds a task whenever it looks at the top.
THEOREM EveryISPScheduled ==
    Spec => []ISPsScheduled
  <1>1. UpdatesInv => ISPsScheduled
    BY DEF UpdatesInv
  <1> QED
    BY EpochHasPassed, InitUpdatesInv, StepUpdatesInv, <1>1, PTL DEF Spec

\* updatePDistanceMap(), addSelectionManager(): guidance that is older than the pDistances
\* has its task in the queue while run() has thrown no exception.
THEOREM StaleGuidanceIsQueued ==
    Spec => []StaleGuidanceQueued
  <1>1. UpdatesInv => StaleGuidanceQueued
    BY DEF UpdatesInv
  <1> QED
    BY EpochHasPassed, InitUpdatesInv, StepUpdatesInv, <1>1, PTL DEF Spec
=============================================================================
