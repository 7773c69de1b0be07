------------------------------ MODULE Guidance ------------------------------
(***************************************************************************)
(* The guidance of the client library: PGMSelectionManager, one for each   *)
(* swarm, and the PeeringGuidanceMatrixManager that they share, which      *)
(* counts the references to the matrices.                                  *)
(*                                                                         *)
(* Two threads use them: the application's, and the one of                 *)
(* P4PUpdateManager (module UpdateManager), whose queue is here the set of *)
(* guidance tasks.  A PID map, and the weights for it, are a number: the   *)
(* version.  The pDistances of a version are loaded after its PID map, and *)
(* no two of them in the same second: their times are the versions.  The   *)
(* Optimization Engine server is external: it answers or fails.            *)
(***************************************************************************)
EXTENDS Naturals, FiniteSets

CONSTANTS
    ISPs,
    SelMgrs,        \* selection managers
    Options,        \* records: kind "location", "generic" or "swarm", and the rate, the rest
    DefaultOptions, \* those of a new selection manager
    Matrices,       \* addresses of guidance matrices
    MaxUpdates,     \* bound: versions of a PID map
    NULL

ASSUME GuidanceAssumption ==
    /\ DefaultOptions \in Options /\ DefaultOptions.kind = "generic"
    /\ Cardinality(Matrices) > 2 * Cardinality(SelMgrs) * Cardinality(ISPs)
    /\ IsFiniteSet(Matrices) /\ IsFiniteSet(SelMgrs) /\ IsFiniteSet(ISPs)
    /\ MaxUpdates \in Nat /\ NULL \notin Matrices

VARIABLES
    register_first,      \* the application registers a selection manager before initGuidance()
    pids,                \* the version of each ISP's PID map; 0: none yet
    m_lastUpdate,        \* that of its pDistances
    fresh,               \* selection managers that do not exist yet
    gone,                \* and those that do no more
    m_guidance_initialized,
    m_selection_mgrs,    \* those of the update manager
    tasks,               \* its guidance tasks
    m_guidance_opts_default, m_guidance_opts,
    m_guidance,          \* the matrix of each selection manager for each ISP
    m_matrices,          \* live matrices: isp, options, refs, time (m_last_pdist_time), weights
    held,                \* the matrix that the application has from getGuidanceMatrix()
    call                 \* what each thread does

isps == <<pids, m_lastUpdate>>
program == <<register_first, fresh, gone, m_guidance_initialized, m_selection_mgrs>>
opts == <<m_guidance_opts_default, m_guidance_opts>>
vars == <<isps, program, tasks, opts, m_guidance, m_matrices, held, call>>

Threads == {"app", "update"}
Existing == SelMgrs \ (fresh \cup gone)
Idle == [pc |-> "idle"]
idle(t) == call[t] = Idle

\* A map with a new value for a key.
With(f, x, y) == [z \in DOMAIN f \cup {x} |-> IF z = x THEN y ELSE f[z]]

SwarmDependent(o) == o.kind = "swarm"

\* operator== of the options; the key of a matrix has all of them.
SameOptions(o, p) == o.kind = p.kind

getConfiguredOptions(s, i) ==
    IF i \in DOMAIN m_guidance_opts[s] THEN m_guidance_opts[s][i] ELSE m_guidance_opts_default[s]

\* m_guidance_mutex of s is shared during computeGuidance(), the mutex of the matrix
\* manager during compute().
Sharing(s) == {t \in Threads : ~idle(t) /\ call[t].s = s}
Computing == {t \in Threads : call[t].pc \in {"list", "ask"}}

\* Bound: where selection managers are registered first there is only one.
Init ==
    /\ register_first \in BOOLEAN
    /\ pids = [i \in ISPs |-> 0] /\ m_lastUpdate = [i \in ISPs |-> 0]
    /\ fresh \in SUBSET SelMgrs /\ gone = SelMgrs \ fresh
    /\ IF register_first THEN Cardinality(fresh) = 1 ELSE fresh = SelMgrs
    /\ m_guidance_initialized = {} /\ m_selection_mgrs = {}
    /\ tasks = {}
    /\ m_guidance_opts_default = [s \in SelMgrs |-> DefaultOptions]
    /\ m_guidance_opts = [s \in SelMgrs |-> <<>>]
    /\ m_guidance = [s \in SelMgrs |-> [i \in ISPs |-> NULL]]
    /\ m_matrices = <<>> /\ held = NULL
    /\ call = [t \in Threads |-> Idle]

-----------------------------------------------------------------------------
(* PeeringGuidanceMatrixManager *)

\* getGuidanceMatrixNoLock(): mats becomes after when m is returned.  Generic matrices
\* are shared.  Which free address a new matrix has makes no difference.
getGuidanceMatrixNoLock(mats, i, o, m, after) ==
    LET same == {k \in DOMAIN mats : mats[k].isp = i /\ mats[k].options = o}
    IN  IF SwarmDependent(o) \/ same = {}
        THEN /\ m = CHOOSE k \in Matrices : k \notin DOMAIN mats
             /\ after = With(mats, m, [isp |-> i, options |-> o, refs |-> 1, time |-> 0, weights |-> 0])
        ELSE /\ m \in same
             /\ after = [mats EXCEPT ![m].refs = @ + 1]

\* Mutant: a matrix is freed although others refer to it.
releaseAll(mats, M) == [m \in DOMAIN mats \ M |-> mats[m]]

\* releaseGuidanceMatrixNoLock() for each matrix of M.
releaseGuidanceMatrixNoLock(mats, M) ==
    [m \in DOMAIN mats \ {k \in M : mats[k].refs = 1} |->
        IF m \in M THEN [mats[m] EXCEPT !.refs = @ - 1] ELSE mats[m]]

-----------------------------------------------------------------------------
(* The application *)

\* PGMSelectionManager(isp_mgr).  The BitTorrent tracker and the walkthrough of the
\* developer's guide register it at once, the tracker emulator after initGuidance().
newSelectionManager(s) ==
    /\ idle("app") /\ s \in fresh
    /\ fresh' = fresh \ {s}
    /\ register_first => idle("update")
    /\ m_selection_mgrs' = IF register_first THEN m_selection_mgrs \cup {s} ELSE m_selection_mgrs
    /\ tasks' = IF register_first THEN tasks \cup ({s} \X ISPs) ELSE tasks
    /\ UNCHANGED <<isps, register_first, gone, m_guidance_initialized, opts, m_guidance, m_matrices, held, call>>

\* Applications set the default before initGuidance(), options of an ISP at any time.
setDefaultOptions(s, o) ==
    /\ idle("app") /\ s \in Existing \ m_guidance_initialized /\ Sharing(s) = {}
    /\ m_guidance_opts_default' = [m_guidance_opts_default EXCEPT ![s] = o]
    /\ UNCHANGED <<isps, program, tasks, m_guidance_opts, m_guidance, m_matrices, held, call>>

\* Mutant: the mutex is not locked.
setISPOptionsUnlocked(s, i, o) ==
    /\ idle("app") /\ s \in Existing
    /\ m_guidance_opts' = [m_guidance_opts EXCEPT ![s] = With(@, i, o)]
    /\ UNCHANGED <<isps, program, tasks, m_guidance_opts_default, m_guidance, m_matrices, held, call>>

setISPOptions(s, i, o) ==
    /\ idle("app") /\ s \in Existing /\ Sharing(s) = {}
    /\ m_guidance_opts' = [m_guidance_opts EXCEPT ![s] = With(@, i, o)]
    /\ UNCHANGED <<isps, program, tasks, m_guidance_opts_default, m_guidance, m_matrices, held, call>>

clearISPOptions(s, i) ==
    /\ idle("app") /\ s \in Existing /\ Sharing(s) = {}
    /\ i \in DOMAIN m_guidance_opts[s]
    /\ m_guidance_opts' = [m_guidance_opts EXCEPT ![s] = [j \in DOMAIN @ \ {i} |-> @[j]]]
    /\ UNCHANGED <<isps, program, tasks, m_guidance_opts_default, m_guidance, m_matrices, held, call>>

\* initGuidance() keeps the server's address and goes on with computeGuidance().
initGuidance(s) ==
    /\ idle("app") /\ s \in Existing \ m_guidance_initialized
    /\ m_guidance_initialized' = m_guidance_initialized \cup {s}
    /\ call' = [call EXCEPT !["app"] = [pc |-> "lookup", s |-> s, todo |-> ISPs]]
    /\ UNCHANGED <<isps, register_first, fresh, gone, m_selection_mgrs, tasks, opts, m_guidance, m_matrices, held>>

\* addSelectionManager() waits for the task that the update manager executes.
addSelectionManager(s) ==
    /\ idle("app") /\ idle("update")
    /\ s \in m_guidance_initialized \ (m_selection_mgrs \cup gone)
    /\ m_selection_mgrs' = m_selection_mgrs \cup {s}
    /\ tasks' = tasks \cup ({s} \X ISPs)
    /\ UNCHANGED <<isps, register_first, fresh, gone, m_guidance_initialized, opts, m_guidance, m_matrices, held, call>>

\* removeSelectionManager() and ~PGMSelectionManager()
deleteSelectionManager(s) ==
    /\ idle("app") /\ idle("update") /\ held = NULL
    /\ s \in m_selection_mgrs \cap m_guidance_initialized
    /\ m_selection_mgrs' = m_selection_mgrs \ {s}
    /\ tasks' = {k \in tasks : k[1] # s}
    /\ gone' = gone \cup {s}
    /\ m_matrices' = releaseGuidanceMatrixNoLock(m_matrices, {m_guidance[s][i] : i \in ISPs})
    /\ m_guidance' = [m_guidance EXCEPT ![s] = [i \in ISPs |-> NULL]]
    /\ m_guidance_opts_default' = [m_guidance_opts_default EXCEPT ![s] = DefaultOptions]
    /\ m_guidance_opts' = [m_guidance_opts EXCEPT ![s] = <<>>]
    /\ UNCHANGED <<isps, register_first, fresh, m_guidance_initialized, held, call>>

\* getWeights() in selectPeers(), under the exclusive lock; see PeerSelection.
selectPeers(s, i) ==
    /\ idle("app") /\ s \in Existing /\ Sharing(s) = {}
    /\ getConfiguredOptions(s, i).kind # "location"
    /\ call' = IF m_guidance[s][i] \in DOMAIN m_matrices \cup {NULL} THEN call
               ELSE [call EXCEPT !["app"] = [pc |-> "undefined", s |-> s]]
    /\ UNCHANGED <<isps, program, tasks, opts, m_guidance, m_matrices, held>>

\* getGuidanceMatrix(), which applications call without an update manager: it reads
\* the map under the shared lock, as computeGuidance() does that writes to it.
getGuidanceMatrix(s, i) ==
    /\ idle("app") /\ s \in Existing \ m_selection_mgrs /\ held = NULL /\ Computing = {}
    /\ m_guidance[s][i] # NULL
    /\ held' = m_guidance[s][i]
    /\ m_matrices' = [m_matrices EXCEPT ![held'].refs = @ + 1]
    /\ UNCHANGED <<isps, program, tasks, opts, m_guidance, call>>

releaseGuidanceMatrix ==
    /\ idle("app") /\ held # NULL /\ Computing = {}
    /\ m_matrices' = releaseGuidanceMatrixNoLock(m_matrices, {held})
    /\ held' = NULL
    /\ UNCHANGED <<isps, program, tasks, opts, m_guidance, call>>

-----------------------------------------------------------------------------
(* The update manager *)

updatePIDMap(i) ==
    /\ idle("update") /\ pids[i] < MaxUpdates
    /\ pids' = [pids EXCEPT ![i] = @ + 1]
    /\ UNCHANGED <<m_lastUpdate, program, tasks, opts, m_guidance, m_matrices, held, call>>

updatePDistanceMap(i) ==
    /\ idle("update") /\ m_lastUpdate[i] < pids[i]
    /\ m_lastUpdate' = [m_lastUpdate EXCEPT ![i] = pids[i]]
    /\ tasks' = tasks \cup (m_selection_mgrs \X {i})
    /\ UNCHANGED <<pids, program, opts, m_guidance, m_matrices, held, call>>

\* updateGuidance(): updatePeerDistribution() is in PeerDistribution; then computeGuidance(isp).
updateGuidance(s, i) ==
    /\ idle("update") /\ <<s, i>> \in tasks
    /\ tasks' = tasks \ {<<s, i>>}
    /\ call' = [call EXCEPT !["update"] = [pc |-> "lookup", s |-> s, todo |-> {i}]]
    /\ UNCHANGED <<isps, program, opts, m_guidance, m_matrices, held>>

-----------------------------------------------------------------------------
(* computeGuidanceInternal(), for the ISPs that are left to do *)

Goto(t, p) == call' = [call EXCEPT ![t] = [@ EXCEPT !.pc = p]]

\* The next ISP, or the lock is released.
Returned(t) ==
    LET todo == call[t].todo \ {call[t].isp}
    IN  IF todo = {} THEN Idle ELSE [pc |-> "lookup", s |-> call[t].s, todo |-> todo]

Return(t) == call' = [call EXCEPT ![t] = Returned(t)]

\* The matrix is created, or setOptions() has it replaced: the manager's part.
lookup(t) ==
    /\ call[t].pc = "lookup" /\ Computing = {}
    /\ \E i \in call[t].todo, m \in Matrices :
         LET s   == call[t].s
             old == m_guidance[s][i]
             o   == getConfiguredOptions(s, i)
         IN  /\ s \in m_guidance_initialized
             /\ old \in DOMAIN m_matrices \cup {NULL}
             /\ old # NULL => ~SameOptions(o, m_matrices[old].options)
             /\ LET released == releaseGuidanceMatrixNoLock(m_matrices, {old} \ {NULL})
                IN  getGuidanceMatrixNoLock(released, i, o, m, m_matrices')
                      /\ call' = [call EXCEPT ![t] =
                             [pc |-> "assign", s |-> s, todo |-> @.todo, isp |-> i, m |-> m]]
    /\ UNCHANGED <<isps, program, tasks, opts, m_guidance, held>>

\* setOptions() returns the matrix when its options have not changed.
lookupSame(t) ==
    /\ call[t].pc = "lookup"
    /\ \E i \in call[t].todo :
         LET s   == call[t].s
             old == m_guidance[s][i]
         IN  /\ old \in DOMAIN m_matrices
             /\ SameOptions(getConfiguredOptions(s, i), m_matrices[old].options)
             /\ call' = [call EXCEPT ![t] =
                             [pc |-> "assign", s |-> s, todo |-> @.todo, isp |-> i, m |-> old]]
    /\ UNCHANGED <<isps, program, tasks, opts, m_guidance, m_matrices, held>>

\* Without a server there is no matrix: the constructor throws.  Nothing catches it.
lookupThrows(t) ==
    /\ call[t].pc = "lookup" /\ call[t].s \notin m_guidance_initialized
    /\ Goto(t, "thrown")
    /\ UNCHANGED <<isps, program, tasks, opts, m_guidance, m_matrices, held>>

\* The matrix was freed by the other thread.
lookupFreed(t) ==
    /\ call[t].pc = "lookup"
    /\ \E i \in call[t].todo : m_guidance[call[t].s][i] \notin DOMAIN m_matrices \cup {NULL}
    /\ Goto(t, "undefined")
    /\ UNCHANGED <<isps, program, tasks, opts, m_guidance, m_matrices, held>>

\* itr->second is assigned.  Without swarm state there is no guidance that depends on
\* it; otherwise the manager's mutex is locked and compute() begins: it skips a generic
\* matrix whose pDistances have not changed, and any as long as there are none.
assign(t) ==
    /\ call[t].pc = "assign"
    /\ LET i    == call[t].isp
           m    == call[t].m
           time == m_lastUpdate[i]
       IN  /\ m_guidance' = [m_guidance EXCEPT ![call[t].s][i] = m]
           /\ IF m \notin DOMAIN m_matrices
              THEN Goto(t, "undefined")
              ELSE LET o == m_matrices[m].options
                   IN  \/ /\ \/ o.kind = "location" \/ time = 0
                             \/ SwarmDependent(o)
                             \/ m_matrices[m].time = time
                          /\ Return(t)
                       \/ /\ o.kind # "location" /\ time # 0
                          /\ SwarmDependent(o) \/ m_matrices[m].time # time
                          /\ call' = [call EXCEPT ![t] =
                                 [pc |-> "list", s |-> @.s, todo |-> @.todo, isp |-> i, m |-> m, time |-> time]]
    /\ UNCHANGED <<isps, program, tasks, opts, m_matrices, held>>

Unchanged == UNCHANGED <<isps, program, tasks, opts, m_guidance, held>>

\* listPIDs(); swarm state for another number of PIDs is an error.
list(t) ==
    /\ call[t].pc = "list"
    /\ \/ /\ SwarmDependent(m_matrices[call[t].m].options)
          /\ Return(t)
       \/ call' = [call EXCEPT ![t] =
                       [pc |-> "ask", s |-> @.s, todo |-> @.todo, isp |-> @.isp, m |-> @.m,
                        time |-> @.time, rows |-> pids[@.isp]]]
    /\ Unchanged /\ UNCHANGED m_matrices

\* Mutant: the time of the pDistances is taken when the weights are there.
InstalledLate(t) ==
    [m_matrices EXCEPT ![call[t].m].weights = call[t].rows,
                       ![call[t].m].time = m_lastUpdate[call[t].isp]]

\* The last of two computations to complete takes effect.
Installed(t) ==
    [m_matrices EXCEPT ![call[t].m].weights = call[t].rows, ![call[t].m].time = call[t].time]

\* get_weights() of the Optimization Engine server: weights to be installed, or an error.
ask(t) ==
    /\ call[t].pc = "ask"
    /\ m_matrices' = Installed(t) \/ UNCHANGED m_matrices
    /\ Return(t) /\ Unchanged

computeGuidance(t) ==
    \/ lookup(t) \/ lookupSame(t) \/ lookupThrows(t) \/ lookupFreed(t)
    \/ assign(t) \/ list(t) \/ ask(t)

configure(s, i) ==
    \/ \E o \in Options : setDefaultOptions(s, o) \/ setISPOptions(s, i, o)
    \/ clearISPOptions(s, i)

application(s) ==
    \/ newSelectionManager(s) \/ initGuidance(s) \/ addSelectionManager(s)
    \/ deleteSelectionManager(s)
    \/ \E i \in ISPs : configure(s, i) \/ selectPeers(s, i) \/ getGuidanceMatrix(s, i)

update(i) == updatePIDMap(i) \/ updatePDistanceMap(i) \/ \E s \in SelMgrs : updateGuidance(s, i)

\* An exception that is not caught, like the use of freed memory, ends the program.
Running == \A t \in Threads : call[t].pc \notin {"thrown", "undefined"}

Next ==
    /\ Running
    /\ \/ \E s \in SelMgrs : application(s)
       \/ releaseGuidanceMatrix
       \/ \E i \in ISPs : update(i)
       \/ \E t \in Threads : computeGuidance(t)

Spec == Init /\ [][Next]_vars

-----------------------------------------------------------------------------

TypeOK ==
    /\ pids \in [ISPs -> 0..MaxUpdates] /\ m_lastUpdate \in [ISPs -> 0..MaxUpdates]
    /\ m_guidance \in [SelMgrs -> [ISPs -> Matrices \cup {NULL}]]
    /\ DOMAIN m_matrices \subseteq Matrices
    /\ tasks \subseteq m_selection_mgrs \X ISPs

\* The matrix that s refers to for i: the one that is about to be assigned, if there is one.
Pointer(s, i) ==
    LET T == {t \in Threads : call[t].pc = "assign" /\ call[t].s = s /\ call[t].isp = i}
    IN  IF T = {} THEN m_guidance[s][i] ELSE call[CHOOSE t \in T : TRUE].m

Users(m) == {k \in SelMgrs \X ISPs : Pointer(k[1], k[2]) = m}

\* Swarms share their generic matrices, options change while weights are computed, and
\* matrices are freed when nothing refers to them: the reference counts are exact, no
\* thread uses a freed matrix, and none is left without a user; no two generic matrices
\* have the same ISP and options, and one that depends on a swarm has that swarm only.
\* That is so as long as applications call initGuidance() before they register a
\* selection manager with the update manager, which computes it in its own thread.
RefsExact ==
    ~register_first =>
        /\ TypeOK
        /\ \A s \in SelMgrs, i \in ISPs : Pointer(s, i) \in DOMAIN m_matrices \cup {NULL}
        /\ held \in DOMAIN m_matrices \cup {NULL}
        /\ \A t \in Threads : call[t].pc # "undefined"
        /\ \A m \in DOMAIN m_matrices :
             /\ m_matrices[m].refs = Cardinality(Users(m)) + (IF held = m THEN 1 ELSE 0)
             /\ m_matrices[m].refs > 0
             /\ SwarmDependent(m_matrices[m].options) => Cardinality(Users(m)) <= 1
             /\ \A k \in DOMAIN m_matrices \ {m} :
                  SwarmDependent(m_matrices[m].options)
                    \/ m_matrices[k].isp # m_matrices[m].isp \/ m_matrices[k].options # m_matrices[m].options

\* setISPOptions(): "initGuidance() or computeGuidance() must be called for options to
\* take effect."  Weights are computed with the options that are configured: those of
\* the matrix are the same, but for a streaming rate, all the time that they are.
OptionsInEffect ==
    \A t \in Threads : call[t].pc \in {"list", "ask"} =>
        LET s == call[t].s
            i == call[t].isp
        IN  ~register_first =>
                SameOptions(m_matrices[m_guidance[s][i]].options, getConfiguredOptions(s, i))

\* compute() skips a generic matrix whose m_last_pdist_time is that of the pDistances.
\* Its weights are then for the PIDs of that time, or for later ones, although the PIDs
\* are listed after the time was read and two threads may compute the matrix at once.
SkippedIsCurrent ==
    \A m \in DOMAIN m_matrices :
        m_matrices[m].time = m_lastUpdate[m_matrices[m].isp] => m_matrices[m].weights >= m_matrices[m].time

\* The walkthrough registers a selection manager before initGuidance(): "The update
\* manager will handle updating peering guidance according to the configured options."
\* The update thread survives that.  (Refuted: its first computation finds no matrix and
\* throws.)
UpdateThreadSurvives == call["update"].pc # "thrown"
=============================================================================
