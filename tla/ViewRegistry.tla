---------------------------- MODULE ViewRegistry ----------------------------
(***************************************************************************)
(* The registry of views, its change by copy-on-write transactions, and    *)
(* the background jobs that a commit schedules for the views.              *)
(*                                                                         *)
(* A registry has a fixed number of slots (children_) that point to view   *)
(* objects, and a map from names to slots (views_).  A transaction works   *)
(* on a copy of the registry whose slots point to the same objects; its    *)
(* first write to a view that existed before replaces the view, in the     *)
(* copy of the registry, by a copy of the view.  txn_commit() installs the *)
(* transaction's registry and then calls updated() on the whole tree,      *)
(* which runs on_update() of the registry and of every view.               *)
(***************************************************************************)
EXTENDS Naturals

CONSTANTS
    Names,             \* view names that clients use
    DEFAULT_VIEW_NAME,
    MAX_VIEWS,         \* number of slots of a registry
    Objects,           \* addresses of view objects
    Intervals,         \* update intervals in use; 0 means no updates
    DefaultInterval,   \* update_interval_ of a new view
    Workers,           \* threads of the job queue
    NULL

Slots == 0..(MAX_VIEWS - 1)

\* The name of a view created by View::create_empty_instance().
NoName == ""

JobNames == Names \cup {NoName}

View == [name_ : JobNames, update_interval_ : Intervals]

ASSUME NamesAssumption == DEFAULT_VIEW_NAME \in Names /\ NoName \notin Names
ASSUME SlotsAssumption == MAX_VIEWS \in Nat \ {0}
ASSUME IntervalsAssumption ==
    Intervals \subseteq Nat /\ DefaultInterval \in Intervals \ {0}
ASSUME ObjectsAssumption == Objects # {} /\ NULL \notin Objects
ASSUME NullAssumption == NULL \notin JobNames

\* A registry: the objects in its slots and its map from names to slots.
Registry == [children_ : [Slots -> Objects \cup {NULL}],
             views_ : UNION {[N -> Slots] : N \in SUBSET Names}]

ASSUME NullRegistryAssumption == \A r \in Registry : NULL # r

VARIABLES
    object,    \* the view at each address
    registry,  \* the registry of GLOBAL_STATE
    txn,       \* the registry of the open transaction, or NULL
    updating,  \* txn_commit() has installed its registry, updated() is to come
    jobs,      \* names of the ViewUpdateJobs in the queue
    running    \* the name of the job each worker executes, or NULL

vars == <<object, registry, txn, updating, jobs, running>>

-----------------------------------------------------------------------------

Children(r) == {r.children_[s] : s \in Slots} \ {NULL}

\* Objects that nothing points to.
Unused ==
    Objects \ (Children(registry) \cup (IF txn = NULL THEN {} ELSE Children(txn)))

\* One of them, for a new view: addresses do not matter.
Allocated == IF Unused = {} THEN {} ELSE {CHOOSE o \in Unused : TRUE}

\* ViewRegistry::get(): the slot of a view, as a set with at most one member.
\* The empty name stands for the default view.
get(r, n) ==
    LET name == IF n = NoName THEN DEFAULT_VIEW_NAME ELSE n
    IN  {r.views_[m] : m \in DOMAIN r.views_ \cap {name}}

\* Slot s is the first that is not filled.
FirstFree(r, s) ==
    /\ r.children_[s] = NULL
    /\ \A t \in Slots : r.children_[t] = NULL => s <= t

Full(r) == \A s \in Slots : r.children_[s] # NULL

NewView(n) == [name_ |-> n, update_interval_ |-> DefaultInterval]

\* The objects that are left when only those in used are referred to: the others
\* are destroyed (shared_ptr).
Left(used) == [o \in Objects |-> IF o \in used THEN object[o] ELSE NewView(NoName)]

\* ViewRegistry::add() of object o in slot s.
add(r, n, o, s) ==
    [children_ |-> [r.children_ EXCEPT ![s] = o],
     views_ |-> [m \in DOMAIN r.views_ \cup {n} |-> IF m = n THEN s ELSE r.views_[m]]]

\* Mutant: the name of a removed view is not forgotten.
removeSlotOnly(r, n) ==
    [children_ |-> [r.children_ EXCEPT ![r.views_[n]] = NULL],
     views_ |-> r.views_]

\* ViewRegistry::remove()
remove(r, n) ==
    [children_ |-> [r.children_ EXCEPT ![r.views_[n]] = NULL],
     views_ |-> [m \in DOMAIN r.views_ \ {n} |-> r.views_[m]]]

\* View::copy(): do_copy_properties() starts from create_empty_instance() and
\* copies every property but the name.
copy(v) == [v EXCEPT !.name_ = NoName]

-----------------------------------------------------------------------------

\* init_state(): an empty registry is created and updated() is called on it.
Init ==
    \E o \in {CHOOSE p \in Objects : TRUE} :
        /\ object = [p \in Objects |-> NewView(IF p = o THEN DEFAULT_VIEW_NAME ELSE NoName)]
        /\ registry = [children_ |-> [s \in Slots |-> IF s = 0 THEN o ELSE NULL],
                       views_ |-> [n \in {DEFAULT_VIEW_NAME} |-> 0]]
        /\ txn = NULL
        /\ updating = FALSE
        /\ jobs = {DEFAULT_VIEW_NAME}
        /\ running = [w \in Workers |-> NULL]

\* txn_begin() waits for the upgradable locks of the whole tree, so for jobs
\* inside run(); the mutex excludes a commit that has not returned.
txn_begin ==
    /\ txn = NULL
    /\ ~updating
    /\ txn' = registry
    /\ UNCHANGED <<object, registry, updating, jobs, running>>

\* clear_txn_state(); r is the registry that GLOBAL_STATE has by now.
clear_txn_state(r) == txn' = NULL /\ object' = Left(Children(r))

\* AdminViewAdd: nothing asks whether there is a view of that name already.
AdminViewAdd(n) ==
    /\ txn # NULL
    /\ \/ \E o \in Allocated, s \in Slots :
            /\ FirstFree(txn, s)
            /\ object' = [object EXCEPT ![o] = NewView(n)]
            /\ txn' = add(txn, n, o, s)
       \/ Full(txn) /\ clear_txn_state(registry)
    /\ UNCHANGED <<registry, updating, jobs, running>>

AdminViewDelete(n) ==
    /\ txn # NULL
    /\ \/ /\ n \in DOMAIN txn.views_
          /\ txn' = remove(txn, n)
          /\ object' = Left(Children(registry) \cup Children(txn'))
       \/ n \notin DOMAIN txn.views_ /\ clear_txn_state(registry)
    /\ UNCHANGED <<registry, updating, jobs, running>>

\* Mutant: views are written in place.
write_object_refInPlace(s, v) ==
    /\ object' = [object EXCEPT ![txn.children_[s]] = v]
    /\ txn' = txn

\* AdminState::write_object_ref() for the view in slot s of the transaction's
\* registry, and the write itself: v is the view with the caller's change.  A
\* view of the global registry is read-locked by the transaction and is copied;
\* any other is the transaction's own.
write_object_ref(s, v) ==
    \/ /\ txn.children_[s] \notin Children(registry)
       /\ object' = [object EXCEPT ![txn.children_[s]] = v]
       /\ txn' = txn
    \/ /\ txn.children_[s] \in Children(registry)
       /\ \E o \in Allocated :
            /\ object' = [object EXCEPT ![o] = copy(v)]
            /\ txn' = [txn EXCEPT !.children_[s] = o]

\* AdminViewPropSet of update_interval.  The other actions on a view get their
\* reference in the same way.
AdminViewPropSet(n, i) ==
    /\ txn # NULL
    /\ \/ \E s \in get(txn, n) :
            write_object_ref(s, [object[txn.children_[s]] EXCEPT !.update_interval_ = i])
       \/ get(txn, n) = {} /\ clear_txn_state(registry)
    /\ UNCHANGED <<registry, updating, jobs, running>>

\* AdminViewPDistanceUpdate writes the view's matrices.  It fails when they
\* cannot be computed and, as do_update() returns the interval, when that is 0.
AdminViewPDistanceUpdate(n) ==
    /\ txn # NULL
    /\ \/ \E s \in get(txn, n) :
            /\ object[txn.children_[s]].update_interval_ > 0
            /\ write_object_ref(s, object[txn.children_[s]])
       \/ clear_txn_state(registry)
    /\ UNCHANGED <<registry, updating, jobs, running>>

\* The client or the transaction monitor rolls back.
txn_rollback ==
    /\ txn # NULL
    /\ clear_txn_state(registry)
    /\ UNCHANGED <<registry, updating, jobs, running>>

\* txn_commit(): the new registry is installed and the locks are released.
txn_commit ==
    /\ txn # NULL
    /\ registry' = txn
    /\ clear_txn_state(txn)
    /\ updating' = TRUE
    /\ UNCHANGED <<jobs, running>>

\* Names under which the views of registry r schedule a job.
Scheduled(r, obj) ==
    {obj[o].name_ : o \in {p \in Children(r) : obj[p].update_interval_ > 0}}

\* GLOBAL_STATE->updated(): ViewRegistry::on_update() gives an empty registry the
\* default view, then View::on_update() of each view enqueues its job.
updated ==
    /\ updating
    /\ \/ /\ Children(registry) # {}
          /\ UNCHANGED <<object, registry>>
       \/ /\ Children(registry) = {}
          /\ \E o \in Allocated :
               /\ object' = [object EXCEPT ![o] = NewView(DEFAULT_VIEW_NAME)]
               /\ registry' = add(registry, DEFAULT_VIEW_NAME, o, 0)
    /\ jobs' = jobs \cup Scheduled(registry', object')
    /\ updating' = FALSE
    /\ UNCHANGED <<txn, running>>

-----------------------------------------------------------------------------

\* Worker w takes the job named n, which is due.
dequeue(w, n) ==
    /\ running[w] = NULL
    /\ n \in jobs
    /\ running' = [running EXCEPT ![w] = n]
    /\ jobs' = jobs \ {n}
    /\ UNCHANGED <<object, registry, txn, updating>>

\* The views whose job w executes.  run() gets the global state's upgradable
\* lock first, so it waits for the end of an open transaction.
Target(w) == {registry.children_[s] : s \in get(registry, running[w])}

\* Mutant: the job of a missing view is scheduled again.
jobCancelledKept(w) ==
    /\ running[w] # NULL /\ txn = NULL /\ Target(w) = {}
    /\ running' = [running EXCEPT ![w] = NULL]
    /\ jobs' = jobs \cup {running[w]}
    /\ UNCHANGED <<object, registry, txn, updating>>

\* "Could not find view; cancelling job"
jobCancelled(w) ==
    /\ running[w] # NULL /\ txn = NULL /\ Target(w) = {}
    /\ running' = [running EXCEPT ![w] = NULL]
    /\ UNCHANGED <<object, registry, txn, updating, jobs>>

\* "update succeeded; rescheduling"
jobRescheduled(w) ==
    /\ running[w] # NULL /\ txn = NULL
    /\ \E o \in Target(w) : object[o].update_interval_ > 0
    /\ running' = [running EXCEPT ![w] = NULL]
    /\ jobs' = jobs \cup {running[w]}
    /\ UNCHANGED <<object, registry, txn, updating>>

\* "update failed; NOT rescheduling": no result, or an interval of 0.
jobFailed(w) ==
    /\ running[w] # NULL /\ txn = NULL /\ Target(w) # {}
    /\ running' = [running EXCEPT ![w] = NULL]
    /\ UNCHANGED <<object, registry, txn, updating, jobs>>

run(w) == jobCancelled(w) \/ jobRescheduled(w) \/ jobFailed(w)

AdminState ==
    \/ txn_begin \/ txn_rollback \/ txn_commit \/ updated
    \/ \E n \in Names :
         \/ AdminViewAdd(n) \/ AdminViewDelete(n) \/ AdminViewPDistanceUpdate(n)
         \/ \E i \in Intervals : AdminViewPropSet(n, i)

Next ==
    \/ AdminState
    \/ \E w \in Workers : run(w) \/ \E n \in JobNames : dequeue(w, n)

Spec == Init /\ [][Next]_vars

\* A job that is due leaves the queue whatever other jobs there are (module
\* JobQueue), and run() ends once it gets its locks.  Clients need not do anything.
Fairness ==
    /\ \A w \in Workers : WF_vars(run(w))
    /\ \A n \in Names : SF_vars(\E w \in Workers : dequeue(w, n))

FairSpec == Spec /\ Fairness

-----------------------------------------------------------------------------

\* Every variable has its type, and an installed registry waits for updated()
\* only while no transaction is open (both happen inside txn_commit()).
TypeOK ==
    /\ object \in [Objects -> View]
    /\ registry \in Registry
    /\ txn = NULL \/ txn \in Registry
    /\ updating \in BOOLEAN
    /\ updating => txn = NULL
    /\ jobs \subseteq JobNames
    /\ running \in [Workers -> JobNames \cup {NULL}]

\* A name leads to a view, two names lead to two slots, two slots hold two
\* objects, and a view found under a name has that name or, as a copy, none.
Sound(r) ==
    /\ \A n \in DOMAIN r.views_ :
         /\ r.children_[r.views_[n]] # NULL
         /\ object[r.children_[r.views_[n]]].name_ \in {n, NoName}
    /\ \A m, n \in DOMAIN r.views_ : r.views_[m] = r.views_[n] => m = n
    /\ \A s, t \in Slots :
         r.children_[s] = r.children_[t] /\ r.children_[s] # NULL => s = t

\* The registry that clients read and the one a transaction is building are
\* sound, whatever views are added twice, deleted, copied and added again, and
\* outside of txn_commit() there is a view: a transaction that deletes the last one
\* brings the default view back.  Every variable has its type.
RegistrySound ==
    /\ TypeOK
    /\ Sound(registry)
    /\ txn # NULL => Sound(txn)
    /\ ~updating => Children(registry) # {}

\* What the clients of the portal see in the slots of the registry.
Visible ==
    [s \in Slots |-> IF registry.children_[s] = NULL THEN NULL
                     ELSE object[registry.children_[s]]]

\* Isolation of copy-on-write transactions: no action of an open transaction, no
\* rollback and no failure changes a view that clients see; only a commit does.
OnlyCommitPublishes ==
    [][txn_commit \/ updated \/ UNCHANGED <<Visible, registry.views_>>]_vars

\* Once transactions stop, the job of a view that is gone is cancelled and does
\* not come back.
DeletedViewJobEnds ==
    \A n \in Names :
        <>[](txn = NULL /\ n \notin DOMAIN registry.views_)
            => <>[](n \notin jobs /\ \A w \in Workers : running[w] # n)

\* view.cpp, View::on_update(): "Schedule the background job for the view".  After
\* a commit every view that wants updates has its job queued or running.
ViewsScheduled ==
    [][updated =>
        \A n \in DOMAIN registry'.views_ :
            LET v == object'[registry'.children_[registry'.views_[n]]]
            IN  v.update_interval_ > 0 =>
                    \/ n \in jobs' \/ \E w \in Workers : running[w] = n
                    \/ n = DEFAULT_VIEW_NAME /\ NoName \in jobs']_vars

\* view_registry.cpp, ViewRegistry::on_update(): "Ensure that the default view is
\* installed".  After a commit there is a default view.
DefaultInstalled == ~updating => DEFAULT_VIEW_NAME \in DOMAIN registry.views_
=============================================================================
