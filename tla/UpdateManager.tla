--------------------------- MODULE UpdateManager ----------------------------
(***************************************************************************)
(* P4PUpdateManager of the client library: the thread that keeps the PID   *)
(* maps and pDistance maps of the ISPs and the guidance of the selection   *)
(* managers up to date, while the application adds and removes selection   *)
(* managers and ISPs.                                                      *)
(*                                                                         *)
(* The thread and the application share a queue of tasks, one for each     *)
(* type, ISP and selection manager.  Times are relative to now: 0 is now,  *)
(* negative is overdue; only the order of overdue tasks is kept.           *)
(***************************************************************************)
EXTENDS Integers, FiniteSets

CONSTANTS
    ISPs,      \* ISP objects
    SelMgrs,   \* selection managers
    TTLs,      \* times to live that the portals answer with
    Retry,     \* the delays after a failed update: 15 * 60 and 15 + 60
    NULL

Task == [type : {"PIDMAP", "PDISTANCE"}, isp : ISPs, sel_mgr : {NULL}]
            \cup [type : {"GUIDANCE"}, isp : ISPs, sel_mgr : SelMgrs]

PIDMap(i) == [type |-> "PIDMAP", isp |-> i, sel_mgr |-> NULL]
PDistance(i) == [type |-> "PDISTANCE", isp |-> i, sel_mgr |-> NULL]
Guidance(i, s) == [type |-> "GUIDANCE", isp |-> i, sel_mgr |-> s]

\* Execution time 0, which has passed longer ago than any other.
Epoch == -(Cardinality(Task) + 1)

ASSUME ConfigAssumption ==
    /\ TTLs \subseteq Nat /\ TTLs # {}
    /\ Retry \in [{"PIDMAP", "PDISTANCE"} -> Nat]
    /\ NULL \notin SelMgrs
    /\ IsFiniteSet(ISPs) /\ IsFiniteSet(SelMgrs)

VARIABLES
    configured,      \* the ISPs that setISPManager() has found
    m_isps,          \* the ISPManager's ISPs
    created,         \* selection managers that exist
    m_guidance,      \* the ISPs that each knows: those that it was created with
    m_selection_mgrs, m_tasks, m_selmgr_tasks, m_stopped,
    pc,              \* where run() is
    m_pidmap,        \* ISPs whose PID map has been loaded
    m_pdistmap,      \* ISPs whose pDistances have been loaded for that PID map
    computed         \* selection managers and ISPs with guidance for the latest pDistances

program == <<configured, m_isps, created, m_guidance, m_selection_mgrs, m_stopped>>
maps == <<m_pidmap, m_pdistmap, computed>>
vars == <<configured, m_isps, created, m_guidance, m_selection_mgrs, m_stopped,
          m_tasks, m_selmgr_tasks, pc, m_pidmap, m_pdistmap, computed>>

\* Mutant: the later time stays.
enqueueTaskLatest(tasks, t, K) ==
    [k \in DOMAIN tasks \cup K |->
        IF k \in K /\ ~(k \in DOMAIN tasks /\ tasks[k] > t) THEN t ELSE tasks[k]]

\* The queue after enqueueTask(t, ...) for each task of K: the earlier time stays.
enqueueTask(tasks, t, K) ==
    [k \in DOMAIN tasks \cup K |->
        IF k \in K /\ ~(k \in DOMAIN tasks /\ tasks[k] <= t) THEN t ELSE tasks[k]]

\* addTask() and removeTask() keep the tasks of each selection manager.
addTask(index, K) == [s \in SelMgrs |-> index[s] \cup {k \in K : k.sel_mgr = s}]
removeTask(index, k) == [s \in SelMgrs |-> index[s] \ {k}]

Without(tasks, K) == [k \in DOMAIN tasks \ K |-> tasks[k]]

\* P4PUpdateManager(isp_mgr), setISPManager()
Init ==
    /\ configured \in SUBSET ISPs
    /\ m_isps = configured
    /\ created = {}
    /\ m_guidance = [s \in SelMgrs |-> {}]
    /\ m_selection_mgrs = {}
    /\ m_tasks = [k \in {PIDMap(i) : i \in configured} |-> Epoch]
    /\ m_selmgr_tasks = [s \in SelMgrs |-> {}]
    /\ m_stopped = FALSE
    /\ pc = "check"
    /\ m_pidmap = {} /\ m_pdistmap = {} /\ computed = {}

-----------------------------------------------------------------------------
(* The application *)

\* ISPManager::addISP()
addISP(i) ==
    /\ i \notin m_isps
    /\ m_isps' = m_isps \cup {i}
    /\ UNCHANGED <<configured, created, m_guidance, m_selection_mgrs, m_stopped, m_tasks, m_selmgr_tasks, pc, maps>>

\* PGMSelectionManager(isp_mgr), setISPManager()
newSelectionManager(s) ==
    /\ s \notin created
    /\ created' = created \cup {s}
    /\ m_guidance' = [m_guidance EXCEPT ![s] = m_isps]
    /\ UNCHANGED <<configured, m_isps, m_selection_mgrs, m_stopped, m_tasks, m_selmgr_tasks, pc, maps>>

addSelectionManager(s) ==
    /\ s \in created \ m_selection_mgrs
    /\ m_selection_mgrs' = m_selection_mgrs \cup {s}
    /\ LET K == {Guidance(i, s) : i \in m_isps}
       IN  /\ m_tasks' = enqueueTask(m_tasks, Epoch, K)
           /\ m_selmgr_tasks' = addTask(m_selmgr_tasks, K)
    /\ UNCHANGED <<configured, m_isps, created, m_guidance, m_stopped, pc, maps>>

\* Mutant: only the tasks of one ISP go.
removeSelectionManagerOne(s) ==
    /\ s \in m_selection_mgrs /\ m_selmgr_tasks[s] \subseteq DOMAIN m_tasks
    /\ \E K \in SUBSET m_selmgr_tasks[s] :
         /\ Cardinality(K) <= 1
         /\ m_tasks' = Without(m_tasks, K)
    /\ m_selmgr_tasks' = [m_selmgr_tasks EXCEPT ![s] = {}]
    /\ m_selection_mgrs' = m_selection_mgrs \ {s}
    /\ created' = created \ {s}
    /\ m_guidance' = [m_guidance EXCEPT ![s] = {}]
    /\ computed' = {p \in computed : p[1] # s}
    /\ UNCHANGED <<configured, m_isps, m_stopped, pc, m_pidmap, m_pdistmap>>

\* removeSelectionManager(); the application then destroys the selection manager.
removeSelectionManager(s) ==
    /\ s \in m_selection_mgrs /\ m_selmgr_tasks[s] \subseteq DOMAIN m_tasks
    /\ m_tasks' = Without(m_tasks, m_selmgr_tasks[s])
    /\ m_selmgr_tasks' = [m_selmgr_tasks EXCEPT ![s] = {}]
    /\ m_selection_mgrs' = m_selection_mgrs \ {s}
    /\ created' = created \ {s}
    /\ m_guidance' = [m_guidance EXCEPT ![s] = {}]
    /\ computed' = {p \in computed : p[1] # s}
    /\ UNCHANGED <<configured, m_isps, m_stopped, pc, m_pidmap, m_pdistmap>>

\* A task that is not in the queue, the one that run() has left with an exception,
\* makes removeTask() throw; the tasks before it in memory are gone already.
removeSelectionManagerThrows(s) ==
    /\ s \in m_selection_mgrs /\ ~(m_selmgr_tasks[s] \subseteq DOMAIN m_tasks)
    /\ \E K \in SUBSET (m_selmgr_tasks[s] \cap DOMAIN m_tasks) :
         /\ m_tasks' = Without(m_tasks, K)
         /\ m_selmgr_tasks' = [m_selmgr_tasks EXCEPT ![s] = @ \ K]
    /\ UNCHANGED <<program, pc, maps>>

stop ==
    /\ ~m_stopped
    /\ m_stopped' = TRUE
    /\ UNCHANGED <<configured, m_isps, created, m_guidance, m_selection_mgrs, m_tasks, m_selmgr_tasks, pc, maps>>

-----------------------------------------------------------------------------
(* The update thread *)

\* Queue and index when task k is over and those of K have been enqueued.
Finish(k, tasks, K) ==
    /\ m_tasks' = tasks
    /\ m_selmgr_tasks' = addTask(removeTask(m_selmgr_tasks, k), K)
    /\ pc' = "check"
    /\ UNCHANGED program

updatePIDMap(k, rest) ==
    \/ /\ Finish(k, enqueueTask(rest, Retry["PIDMAP"], {k}), {})
       /\ UNCHANGED maps
    \/ \E ttl \in TTLs :
         /\ Finish(k, enqueueTask(enqueueTask(rest, ttl, {k}), Epoch, {PDistance(k.isp)}), {})
         /\ m_pidmap' = m_pidmap \cup {k.isp}
         /\ m_pdistmap' = m_pdistmap \ {k.isp}
         /\ UNCHANGED computed

\* Mutant: new pDistances are not passed on.
updatePDistanceMapOnly(k, rest) ==
    \/ /\ Finish(k, enqueueTask(rest, Retry["PDISTANCE"], {k}), {})
       /\ UNCHANGED maps
    \/ \E ttl \in TTLs :
         /\ Finish(k, enqueueTask(rest, ttl, {k}), {})
         /\ m_pdistmap' = m_pdistmap \cup {k.isp}
         /\ computed' = {p \in computed : p[2] # k.isp}
         /\ UNCHANGED m_pidmap

updatePDistanceMap(k, rest) ==
    \/ /\ Finish(k, enqueueTask(rest, Retry["PDISTANCE"], {k}), {})
       /\ UNCHANGED maps
    \/ \E ttl \in TTLs :
         LET K == {Guidance(k.isp, s) : s \in m_selection_mgrs}
         IN  /\ Finish(k, enqueueTask(enqueueTask(rest, ttl, {k}), Epoch, K), K)
             /\ m_pdistmap' = m_pdistmap \cup {k.isp}
             /\ computed' = {p \in computed : p[2] # k.isp}
             /\ UNCHANGED m_pidmap

\* updateGuidance(): getNextComputeTime() answers TIME_INVALID for every ISP that the
\* selection manager knows, so the task is not enqueued again.  For another ISP
\* updatePeerDistribution() fails, but its error code becomes a Boolean on the way,
\* and computeGuidanceInternal() throws.  Nothing catches the exception.
updateGuidance(k, rest) ==
    \/ /\ k.isp \in m_guidance[k.sel_mgr]
       /\ Finish(k, rest, {})
       /\ computed' = computed \cup {<<k.sel_mgr, k.isp>>}
       /\ UNCHANGED <<m_pidmap, m_pdistmap>>
    \/ /\ k.isp \notin m_guidance[k.sel_mgr]
       /\ m_tasks' = rest
       /\ pc' = "thrown"
       /\ UNCHANGED <<program, m_selmgr_tasks, maps>>

executeTask(k) ==
    LET rest == Without(m_tasks, {k})
    IN  CASE k.type = "PIDMAP"    -> updatePIDMap(k, rest)
          [] k.type = "PDISTANCE" -> updatePDistanceMap(k, rest)
          [] k.type = "GUIDANCE"  -> updateGuidance(k, rest)

\* The conditions of the inner loop are read without the mutex.
runCheck ==
    /\ pc = "check"
    /\ pc' = IF ~m_stopped /\ DOMAIN m_tasks # {} THEN "locked" ELSE "outer"
    /\ UNCHANGED <<program, m_tasks, m_selmgr_tasks, maps>>

\* Mutant: the comparator is the wrong way round.
TopsLatest == {k \in DOMAIN m_tasks : \A l \in DOMAIN m_tasks : m_tasks[k] >= m_tasks[l]}

\* The top of the heap.
Tops == {k \in DOMAIN m_tasks : \A l \in DOMAIN m_tasks : m_tasks[k] <= m_tasks[l]}

\* With the mutex: the earliest task is executed if its time has come.
runTask ==
    /\ pc = "locked"
    /\ \E k \in Tops :
         IF m_tasks[k] > 0
         THEN pc' = "outer" /\ UNCHANGED <<program, m_tasks, m_selmgr_tasks, maps>>
         ELSE executeTask(k)

\* The queue became empty before the mutex was locked; top() reads what is not there.
runEmpty ==
    /\ pc = "locked" /\ DOMAIN m_tasks = {}
    /\ pc' = "undefined"
    /\ UNCHANGED <<program, m_tasks, m_selmgr_tasks, maps>>

\* Mutant: stop() is only noticed when the queue is empty.
runOuterBusy ==
    /\ pc = "outer"
    /\ pc' = IF m_stopped /\ DOMAIN m_tasks = {} THEN "finished" ELSE "check"
    /\ UNCHANGED <<program, m_tasks, m_selmgr_tasks, maps>>

\* run() returns, or sleeps for a second.
runOuter ==
    /\ pc = "outer"
    /\ pc' = IF m_stopped THEN "finished" ELSE "check"
    /\ UNCHANGED <<program, m_tasks, m_selmgr_tasks, maps>>

run == runCheck \/ runTask \/ runEmpty \/ runOuter

\* time(NULL): a second passes.  Overdue times are renumbered in their order.
tick ==
    LET past == {m_tasks[k] - 1 : k \in {l \in DOMAIN m_tasks : Epoch < m_tasks[l] /\ m_tasks[l] <= 0}}
        later(t) == IF t > 0 THEN t - 1
                    ELSE IF t = Epoch THEN Epoch
                    ELSE -Cardinality({u \in past : t - 1 <= u})
    IN  /\ m_tasks' = [k \in DOMAIN m_tasks |-> later(m_tasks[k])]
        /\ UNCHANGED <<program, m_selmgr_tasks, pc, maps>>

Application(s) ==
    \/ newSelectionManager(s) \/ addSelectionManager(s)
    \/ removeSelectionManager(s) \/ removeSelectionManagerThrows(s)

Next ==
    \/ \E i \in ISPs : addISP(i)
    \/ \E s \in SelMgrs : Application(s)
    \/ stop
    \/ run
    \/ tick

Spec == Init /\ [][Next]_vars

\* The thread is scheduled, time goes on, and the application does not register
\* selection managers for ever: their first tasks come before all others.
Fairness ==
    /\ WF_vars(run) /\ WF_vars(tick)
    /\ <>[][\A s \in SelMgrs : ~addSelectionManager(s)]_vars

FairSpec == Spec /\ Fairness

-----------------------------------------------------------------------------

\* Every variable has its type.
TypeOK ==
    /\ configured \subseteq m_isps /\ m_isps \subseteq ISPs
    /\ created \subseteq SelMgrs /\ m_selection_mgrs \subseteq created
    /\ m_guidance \in [SelMgrs -> SUBSET ISPs]
    /\ DOMAIN m_tasks \subseteq Task /\ m_tasks \in [DOMAIN m_tasks -> Int]
    /\ m_selmgr_tasks \in [SelMgrs -> SUBSET Task]
    /\ m_stopped \in BOOLEAN
    /\ pc \in {"check", "locked", "outer", "finished", "thrown", "undefined"}
    /\ m_pidmap \subseteq ISPs /\ m_pdistmap \subseteq ISPs
    /\ computed \subseteq SelMgrs \X ISPs

\* removeSelectionManager() leaves no task behind that would use the destroyed
\* selection manager: the queue holds tasks of registered ones only, and the index
\* that it goes by is exact until an exception ends run().  Every variable has its type.
TasksOfRegistered ==
    /\ TypeOK
    /\ \A k \in DOMAIN m_tasks : k.sel_mgr # NULL =>
         k.sel_mgr \in m_selection_mgrs /\ k \in m_selmgr_tasks[k.sel_mgr]
    /\ pc # "thrown" => \A s \in SelMgrs : m_selmgr_tasks[s] \subseteq DOMAIN m_tasks

\* Whatever fails and whatever comes and goes, every ISP of the initial configuration
\* stays scheduled for an update of its PID map, and of its pDistances once the PID
\* map is there; so, if there is one, the queue is never empty when run() looks at
\* its top.  pDistances refer to the PIDs of the PID map by position: when a PID map
\* has been loaded those of the old one are not waited out, since a duplicate task with
\* an earlier time replaces the one that is queued, and after a failure the delay is
\* the retry's.
ISPsScheduled ==
    /\ \A i \in configured : PIDMap(i) \in DOMAIN m_tasks
    /\ \A i \in m_pidmap :
         /\ PDistance(i) \in DOMAIN m_tasks
         /\ i \notin m_pdistmap => m_tasks[PDistance(i)] <= Retry["PDISTANCE"]
    /\ configured # {} => pc # "undefined"

\* Guidance that is older than the pDistances is always about to be computed, for
\* every registered selection manager, until an exception ends run().
StaleGuidanceQueued ==
    pc # "thrown" =>
        \A s \in m_selection_mgrs : \A i \in m_pdistmap :
            <<s, i>> \in computed \/ Guidance(i, s) \in DOMAIN m_tasks

Running == pc \in {"check", "locked", "outer"} /\ ~m_stopped

\* No task is starved, whatever the portals' times to live are: one whose time has come is
\* executed or removed, while the thread lives.
DueTaskRuns ==
    \A k \in Task :
        (k \in DOMAIN m_tasks /\ m_tasks[k] <= 0)
            ~> (k \notin DOMAIN m_tasks \/ m_tasks[k] >= 0 \/ ~Running)

\* stop() makes run() return, however full the queue is.
StopReturns == m_stopped ~> pc \in {"finished", "thrown", "undefined"}

\* updateGuidance(): "Update peer distributions. Ignore ISP if not found."  An ISP that
\* a selection manager does not know does not end the update thread.
UnknownISPIgnored == pc # "thrown"
=============================================================================
