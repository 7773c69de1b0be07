---------------------------- MODULE PortalLocks -----------------------------
(***************************************************************************)
(* The locks of the portal's state tree: how view update jobs, admin       *)
(* transactions and the requests of clients share the global state, the    *)
(* registry of views and a view.                                           *)
(*                                                                         *)
(* Every object of the tree has a boost::shared_mutex.  A job takes        *)
(* upgradable locks from the root down, computes, upgrades them in the     *)
(* same order and replaces the view's matrices.  A transaction takes       *)
(* upgradable locks for the whole tree, writes to copies of the registry   *)
(* and the view, and upgrades only the root's lock to install them.  A     *)
(* client request only tries to lock: it looks the view up under shared    *)
(* locks of the root and the registry, and then keeps a shared lock of the *)
(* view until its response has been sent.                                  *)
(***************************************************************************)
EXTENDS Naturals

CONSTANTS
    Jobs,       \* workers that run a ViewUpdateJob
    Readers,    \* client requests whose response is streamed
    Gens,       \* generations: a transaction that writes makes new copies of
                \* the registry and the view
    Gen0,       \* the first of them
    Contents,   \* what the matrices of a view may hold
    Content0    \* what they hold at first

ASSUME GensAssumption == Gen0 \in Gens /\ Content0 \in Contents

\* The admin thread inside AdminState, and a response to an admin client that
\* reads through the transaction ("pid?admin=<token>").
Admin == "admin"
AdminStream == "stream"

Actors == Jobs \cup Readers \cup {Admin, AdminStream}

ASSUME ActorsAssumption ==
    Jobs \cap Readers = {} /\ {Admin, AdminStream} \cap (Jobs \cup Readers) = {}

global == <<"global", Gen0>>
views(g) == <<"views", g>>
view(g) == <<"view", g>>

Objects == {global} \cup {views(g) : g \in Gens} \cup {view(g) : g \in Gens}

JobPC == {"idle", "due", "global", "views", "view", "xglobal", "xviews", "xview"}
AdminPC == {"none", "begin", "global", "views", "open", "committed", "uglobal", "uviews", "failed"}
ReaderPC == {"idle", "global", "views", "found", "streaming"}

VARIABLES
    shared,    \* owners of a shared lock, for each object
    upgrade,   \* owners of its upgradable lock (one lock, shared by pointer)
    unique,    \* the owner whose upgradable lock is upgraded
    write,     \* owners of its BlockWriteLock: a shared lock that sets writing_
    cur,       \* generation that the global state refers to
    new,       \* generation that the open transaction writes, or cur
    matrix,    \* contents of the view's matrices, for each generation
    copied,    \* contents that the transaction has read under its locks
    jpc, apc, rpc,
    seen       \* for each reader the generation and contents it is sending

vars == <<shared, upgrade, unique, write, cur, new, matrix, copied, jpc, apc, rpc, seen>>
locks == <<shared, upgrade, unique, write>>
state == <<cur, new, matrix, copied>>

-----------------------------------------------------------------------------

\* boost::shared_mutex.  An upgrade waits for the other shared owners to leave
\* and does not keep new ones out while it waits.
CanShare(o) == unique[o] = {}
CanUpgrade(o) == unique[o] = {} /\ upgrade[o] = {}
CanUnique(o) == shared[o] = {} /\ write[o] = {} /\ unique[o] = {}

\* LocalObject::writing_
writing_(o) == write[o] # {} \/ unique[o] # {}

Add(table, o, a) == [table EXCEPT ![o] = @ \cup {a}]
Drop(table, a) == [o \in Objects |-> table[o] \ {a}]

\* The destructors of all locks of a.
Release(a) ==
    /\ shared' = Drop(shared, a)
    /\ upgrade' = Drop(upgrade, a)
    /\ unique' = Drop(unique, a)
    /\ write' = Drop(write, a)

Init ==
    /\ shared = [o \in Objects |-> {}]
    /\ upgrade = shared /\ unique = shared /\ write = shared
    /\ cur = Gen0 /\ new = Gen0
    /\ matrix = [g \in Gens |-> Content0]
    /\ copied = Content0
    /\ jpc = [j \in Jobs |-> "idle"]
    /\ apc = "none"
    /\ rpc = [r \in Readers |-> "idle"]
    /\ seen = [r \in Readers |-> [gen |-> Gen0, matrix |-> Content0]]

-----------------------------------------------------------------------------

\* A worker takes the job from the queue and calls run().
jobDue(j) ==
    /\ jpc[j] = "idle"
    /\ jpc' = [jpc EXCEPT ![j] = "due"]
    /\ UNCHANGED <<locks, state, apc, rpc, seen>>

\* ViewUpdateJob::run() takes the upgradable lock of o.
jobLock(j, from, o, to) ==
    /\ jpc[j] = from
    /\ CanUpgrade(o)
    /\ upgrade' = Add(upgrade, o, j)
    /\ jpc' = [jpc EXCEPT ![j] = to]
    /\ UNCHANGED <<shared, unique, write, state, apc, rpc, seen>>

\* compute_result() fails; the locks are released.
jobFails(j) ==
    /\ jpc[j] = "view"
    /\ Release(j)
    /\ jpc' = [jpc EXCEPT ![j] = "idle"]
    /\ UNCHANGED <<state, apc, rpc, seen>>

\* ViewUpdateUpgrade::do_update() upgrades the lock of o.
jobUpgrade(j, from, o, to) ==
    /\ jpc[j] = from
    /\ CanUnique(o)
    /\ unique' = Add(unique, o, j)
    /\ jpc' = [jpc EXCEPT ![j] = to]
    /\ UNCHANGED <<shared, upgrade, write, state, apc, rpc, seen>>

\* The matrices are replaced and the locks released.
jobUpdates(j) ==
    /\ jpc[j] = "xview"
    /\ \E m \in Contents : matrix' = [matrix EXCEPT ![cur] = m]
    /\ Release(j)
    /\ jpc' = [jpc EXCEPT ![j] = "idle"]
    /\ UNCHANGED <<cur, new, copied, apc, rpc, seen>>

\* Mutant: the view's own lock is not upgraded.
do_updateNoViewLock(j) ==
    \/ jobUpgrade(j, "view", global, "xglobal")
    \/ jobUpgrade(j, "xglobal", views(cur), "xview")
    \/ jobUpdates(j)

\* Mutant: only the view's own lock is upgraded.
do_updateViewOnly(j) ==
    \/ jobUpgrade(j, "view", view(cur), "xview")
    \/ jobUpdates(j)

\* ViewUpdateUpgrade::do_update()
do_update(j) ==
    \/ jobUpgrade(j, "view", global, "xglobal")
    \/ jobUpgrade(j, "xglobal", views(cur), "xviews")
    \/ jobUpgrade(j, "xviews", view(cur), "xview")
    \/ jobUpdates(j)

\* ViewUpdateJob::run() up to do_update().
run(j) ==
    \/ jobLock(j, "due", global, "global")
    \/ jobLock(j, "global", views(cur), "views")
    \/ jobLock(j, "views", view(cur), "view")

-----------------------------------------------------------------------------

\* A client asks for a transaction; its thread has AdminState's mutex from now on.
getToken ==
    /\ apc = "none"
    /\ apc' = "begin"
    /\ UNCHANGED <<locks, state, jpc, rpc, seen>>

\* Mutant: a transaction locks the root only while it copies it.
txn_beginCopyOnly ==
    /\ apc = "begin"
    /\ CanUpgrade(global)
    /\ apc' = "open"
    /\ new' = cur
    /\ copied' = matrix[cur]
    /\ UNCHANGED <<locks, cur, matrix, jpc, rpc, seen>>

\* AdminState::txn_begin(): upgradable locks of the root, then of the registry,
\* then of the view.
txn_begin ==
    \E step \in {<<"begin", global, "global">>, <<"global", views(cur), "views">>,
                 <<"views", view(cur), "open">>} :
        /\ apc = step[1]
        /\ CanUpgrade(step[2])
        /\ upgrade' = Add(upgrade, step[2], Admin)
        /\ apc' = step[3]
        /\ new' = cur
        /\ copied' = matrix[cur]
        /\ UNCHANGED <<shared, unique, write, cur, matrix, jpc, rpc, seen>>

\* Nothing points to the objects of generation g any more.
Unreferenced(g) ==
    /\ g # cur
    /\ \A o \in {views(g), view(g)} :
         shared[o] \cup upgrade[o] \cup unique[o] \cup write[o] = {}
    /\ \A r \in Readers : rpc[r] = "found" => seen[r].gen # g

\* txn_apply() of an action that writes to the view: copies of registry and view,
\* each with a BlockWriteLock, are made at the first write.
txn_apply ==
    /\ apc = "open"
    /\ \/ /\ new # cur
          /\ \E m \in Contents : matrix' = [matrix EXCEPT ![new] = m]
          /\ UNCHANGED <<write, new>>
       \/ /\ new = cur
          /\ \E g \in Gens :
               /\ Unreferenced(g)
               /\ new' = g
               /\ matrix' = [matrix EXCEPT ![g] = matrix[cur]]
               /\ write' = [write EXCEPT ![views(g)] = {Admin}, ![view(g)] = {Admin}]
    /\ UNCHANGED <<shared, upgrade, unique, cur, copied, jpc, apc, rpc, seen>>

\* GetPIDs or GetCosts with an admin token: the response shares the lock that the
\* transaction has for its view (read_object_ref()).
adminStream ==
    /\ apc = "open"
    /\ \A o \in Objects : AdminStream \notin upgrade[o] \cup write[o]
    /\ \/ new # cur /\ write' = Add(write, view(new), AdminStream) /\ UNCHANGED upgrade
       \/ new = cur /\ upgrade' = Add(upgrade, view(cur), AdminStream) /\ UNCHANGED write
    /\ UNCHANGED <<shared, unique, state, jpc, apc, rpc, seen>>

\* It has been sent.
adminStreamEnd ==
    /\ \E o \in Objects : AdminStream \in upgrade[o] \cup write[o]
    /\ Release(AdminStream)
    /\ UNCHANGED <<state, jpc, apc, rpc, seen>>

\* txn_rollback(), by the client or by the monitor.
txn_rollback ==
    /\ apc = "open"
    /\ Release(Admin)
    /\ new' = cur
    /\ copied' = Content0
    /\ apc' = "none"
    /\ UNCHANGED <<cur, matrix, jpc, rpc, seen>>

\* txn_commit(): upgrade the root's lock, install the copies, clear_txn_state().
txn_commit ==
    /\ apc = "open"
    /\ CanUnique(global)
    /\ cur' = new
    /\ copied' = Content0
    /\ Release(Admin)
    /\ apc' = "committed"
    /\ UNCHANGED <<new, matrix, jpc, rpc, seen>>

\* DistributedObject::updated() locks object o below its parent.  begin_write()
\* throws when the object is being written; nothing catches that.
updatedLock(from, o, to) ==
    /\ apc = from
    /\ CanShare(o)
    /\ \/ writing_(o) /\ apc' = "failed" /\ UNCHANGED write
       \/ ~writing_(o) /\ apc' = to /\ write' = Add(write, o, Admin)
    /\ UNCHANGED <<shared, upgrade, unique, state, jpc, rpc, seen>>

\* The view is the last; all of them are unlocked on return.
updatedView ==
    /\ apc = "uviews"
    /\ CanShare(view(cur))
    /\ \/ writing_(view(cur)) /\ apc' = "failed" /\ UNCHANGED locks
       \/ ~writing_(view(cur)) /\ apc' = "none" /\ Release(Admin)
    /\ UNCHANGED <<state, jpc, rpc, seen>>

updated ==
    \/ updatedLock("committed", global, "uglobal")
    \/ updatedLock("uglobal", views(cur), "uviews")
    \/ updatedView

-----------------------------------------------------------------------------

\* GlobalView<TryReadLock>: try the root, then the registry.  A failed attempt
\* (TryLockFailed) gives up its locks and is repeated later.
tryGlobal(r) ==
    /\ rpc[r] = "idle"
    /\ CanShare(global)
    /\ shared' = Add(shared, global, r)
    /\ rpc' = [rpc EXCEPT ![r] = "global"]
    /\ UNCHANGED <<upgrade, unique, write, state, jpc, apc, seen>>

tryViews(r) ==
    /\ rpc[r] = "global"
    /\ \/ /\ CanShare(views(cur))
          /\ shared' = Add(shared, views(cur), r)
          /\ rpc' = [rpc EXCEPT ![r] = "views"]
          /\ UNCHANGED <<upgrade, unique, write>>
       \/ /\ ~CanShare(views(cur))
          /\ Release(r)
          /\ rpc' = [rpc EXCEPT ![r] = "idle"]
    /\ UNCHANGED <<state, jpc, apc, seen>>

\* The view is found; both locks are given up.
viewFound(r) ==
    /\ rpc[r] = "views"
    /\ seen' = [seen EXCEPT ![r].gen = cur]
    /\ Release(r)
    /\ rpc' = [rpc EXCEPT ![r] = "found"]
    /\ UNCHANGED <<state, jpc, apc>>

\* GetPIDsViewState, GetCostsViewState: try the view's lock and keep it.
tryView(r) ==
    /\ rpc[r] = "found"
    /\ LET o == view(seen[r].gen)
       IN  \/ /\ CanShare(o)
              /\ shared' = Add(shared, o, r)
              /\ seen' = [seen EXCEPT ![r].matrix = matrix[seen[r].gen]]
              /\ rpc' = [rpc EXCEPT ![r] = "streaming"]
           \/ /\ ~CanShare(o)
              /\ rpc' = [rpc EXCEPT ![r] = "idle"]
              /\ UNCHANGED <<shared, seen>>
    /\ UNCHANGED <<upgrade, unique, write, state, jpc, apc>>

\* GetPIDsFree, GetCostsFree: the response has been sent or its connection lost.
responseFreed(r) ==
    /\ rpc[r] = "streaming"
    /\ Release(r)
    /\ rpc' = [rpc EXCEPT ![r] = "idle"]
    /\ seen' = [seen EXCEPT ![r] = [gen |-> Gen0, matrix |-> Content0]]
    /\ UNCHANGED <<state, jpc, apc>>

Request(r) ==
    tryGlobal(r) \/ tryViews(r) \/ viewFound(r) \/ tryView(r) \/ responseFreed(r)

Transaction ==
    \/ getToken \/ txn_begin \/ txn_apply \/ txn_rollback \/ txn_commit \/ updated
    \/ adminStream \/ adminStreamEnd

\* A failed commit ends the process.
Next ==
    \/ /\ apc # "failed"
       /\ \/ Transaction
          \/ \E j \in Jobs : jobDue(j) \/ run(j) \/ jobFails(j) \/ do_update(j)
          \/ \E r \in Readers : Request(r)
    \/ apc = "failed" /\ UNCHANGED vars

Spec == Init /\ [][Next]_vars

\* Threads go on while they can, and a thread that waits for a lock which is free
\* again and again gets it in the end.  The monitor ends a transaction that its
\* client does not (module AdminTxn); clients read their responses or are
\* disconnected.  An upgrade does not keep new shared owners out, so the root's can
\* succeed only if its shared lock, held for the length of a lookup, is sometimes
\* free.  Nothing of the kind is assumed of the view's lock, held for the length of
\* a response.
Fairness ==
    /\ SF_vars(updated) /\ WF_vars(adminStreamEnd)
    /\ SF_vars(txn_begin) /\ WF_vars(txn_rollback)
    /\ \A j \in Jobs : SF_vars(run(j)) /\ SF_vars(do_update(j))
    /\ \A r \in Readers :
         WF_vars(tryViews(r)) /\ WF_vars(viewFound(r)) /\ WF_vars(tryView(r))
         /\ WF_vars(responseFreed(r))
    /\ []<>(shared[global] = {})

FairSpec == Spec /\ Fairness

-----------------------------------------------------------------------------

\* Every variable has its type, and the unique owner of a shared_mutex excludes the
\* shared ones.
TypeOK ==
    /\ {shared, upgrade, unique, write} \subseteq [Objects -> SUBSET Actors]
    /\ cur \in Gens /\ new \in Gens
    /\ matrix \in [Gens -> Contents] /\ copied \in Contents
    /\ jpc \in [Jobs -> JobPC] /\ apc \in AdminPC /\ rpc \in [Readers -> ReaderPC]
    /\ seen \in [Readers -> [gen : Gens, matrix : Contents]]
    /\ \A o \in Objects :
         unique[o] # {} => shared[o] \cup write[o] = {}

\* A response is sent from one state of the view: while it is being sent, neither
\* a job nor a transaction changes the matrices it reads.  Every variable has its
\* type, and a unique owner is alone.
StreamConsistent ==
    TypeOK /\ \A r \in Readers :
        rpc[r] = "streaming" => matrix[seen[r].gen] = seen[r].matrix

\* No lost update: as long as a transaction is open, the state that its copies were
\* made from is the current one, so a commit overwrites no result of a job.
CommitOnCurrent == apc = "open" => copied = matrix[cur]

\* Nobody waits for ever.  A job that is due ends, whatever transactions and clients
\* do: once it has the root, no new client gets to the view.  txn_begin() and
\* txn_commit() return (they have the mutex of AdminState, so that every other admin
\* request waits too).
WaitsEnd ==
    /\ \A j \in Jobs : jpc[j] = "due" ~> jpc[j] = "idle" \/ apc = "failed"
    /\ apc = "begin" ~> apc = "open"
    /\ apc = "committed" ~> apc \in {"none", "failed"}

\* local_obj.cpp, LocalObject::begin_write(), throws a runtime_error for what must
\* not happen: "illegal state: object write already started".
WriteNotStarted == apc # "failed"
=============================================================================
