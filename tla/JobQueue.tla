------------------------------ MODULE JobQueue ------------------------------
(***************************************************************************)
(* The portal's pool of background workers (common-server JobQueue) and    *)
(* the periodic view-update jobs it runs (portal ViewUpdateJob).           *)
(*                                                                         *)
(* The queue is a std::set ordered by deadline ONLY, so two jobs with the  *)
(* same deadline are the same element to it: insert() of the second one    *)
(* leaves the set as it is.  Jobs that compare equal with Job::equals()    *)
(* (the same view name) are detected by a scan in enqueue().               *)
(*                                                                         *)
(* Every method holds queue_mutex_ from its first line to its last and     *)
(* gives it up only inside wait()/timed_wait(), so each stretch between    *)
(* two waits is one atomic action.                                         *)
(***************************************************************************)
EXTENDS Naturals, FiniteSets

CONSTANTS
    Names,      \* names of the views a ViewUpdateJob can be about
    Workers,    \* the pool_size_ worker threads
    Intervals,  \* update intervals (seconds) a view can be configured with
    MaxTime,    \* bound on the clock
    NoJob       \* the empty JobPtr

Job == [name : Names, deadline : Nat]

ASSUME WorkersAssumption == Workers # {}
ASSUME IntervalsAssumption == Intervals \subseteq Nat \ {0}
ASSUME MaxTimeAssumption == MaxTime \in Nat
ASSUME NoJobAssumption == NoJob \notin Job

VARIABLES
    queue_,        \* the queued jobs, a set of records
    is_stopping_,
    pc,            \* where each worker is
    until,         \* deadline a worker in timed_wait() waits for
    job,           \* job a worker executes
    now            \* boost::get_system_time()

queueVars == <<queue_, is_stopping_, pc, until, job, now>>

\* new: not spawned; dequeue: about to evaluate the loop condition of
\* dequeue(); wait / timed: inside wait() / timed_wait(); run: inside
\* Job::run(); return: run() has rescheduled its job and is about to return;
\* exit: operator() returned.
WorkerPC == {"new", "dequeue", "wait", "timed", "run", "return", "exit"}

-----------------------------------------------------------------------------

\* The loop of enqueue() stops at the first queued job that equals() the new
\* one.  If the new job comes before it, it is erased; otherwise the new job
\* is dropped.
FirstDuplicate(j) ==
    {k \in queue_ : /\ k.name = j.name
                    /\ \A m \in queue_ : m.name = j.name => k.deadline <= m.deadline}

DropsNew(j) == \E k \in FirstDuplicate(j) : ~(j.deadline < k.deadline)

\* std::set::insert with JobPriorityComparator: an element with the same
\* deadline counts as present.
SetInsert(S, j) ==
    IF \E k \in S : k.deadline = j.deadline THEN S ELSE S \cup {j}

Waiters(p) == {w \in Workers : p[w] \in {"wait", "timed"}}

\* notify_one() with the workers at p: one waiter, if there is any, returns
\* from its wait.
NotifyOne(p) ==
    \/ Waiters(p) = {} /\ pc' = p
    \/ \E w \in Waiters(p) : pc' = [p EXCEPT ![w] = "dequeue"]

\* Mutant: only the first job of an empty queue is notified.
enqueueNotifyIfEmpty(j, p) ==
    \/ DropsNew(j) /\ queue_' = queue_ /\ pc' = p
    \/ /\ ~DropsNew(j)
       /\ queue_' = SetInsert(queue_ \ FirstDuplicate(j), j)
       /\ IF queue_ = {} THEN NotifyOne(p) ELSE pc' = p

\* Mutant: nobody is notified.
enqueueNoNotify(j, p) ==
    /\ queue_' = IF DropsNew(j) THEN queue_
                 ELSE SetInsert(queue_ \ FirstDuplicate(j), j)
    /\ pc' = p

\* JobQueue::enqueue(j).  p is pc with the caller's own step taken.
enqueue(j, p) ==
    \/ DropsNew(j) /\ queue_' = queue_ /\ pc' = p
    \/ /\ ~DropsNew(j)
       /\ queue_' = SetInsert(queue_ \ FirstDuplicate(j), j)
       /\ NotifyOne(p)

-----------------------------------------------------------------------------

QueueInit ==
    /\ queue_ = {}
    /\ is_stopping_ = FALSE
    /\ pc = [w \in Workers |-> "new"]
    /\ until = [w \in Workers |-> 0]
    /\ job = [w \in Workers |-> NoJob]
    /\ now = 0

\* JobQueue::start(): spawn the workers (a second call throws).
start ==
    /\ \A w \in Workers : pc[w] = "new"
    /\ pc' = [w \in Workers |-> "dequeue"]
    /\ UNCHANGED <<queue_, is_stopping_, until, job, now>>

\* View::on_update(): schedule the background job of a view, one update
\* interval after the time t at which the clock was read.  The clock is read
\* before queue_mutex_ is acquired, so t may be in the past.  (Nothing is
\* scheduled when the interval is 0.)  The bound MaxTime ends the calls before
\* the clock stops, as no real clock does.
on_update(n, i) ==
    /\ now < MaxTime
    /\ \E t \in 0..now : enqueue([name |-> n, deadline |-> t + i], pc)
    /\ UNCHANGED <<is_stopping_, until, job, now>>

FirstJob(j) == j \in queue_ /\ \A k \in queue_ : j.deadline <= k.deadline

\* The four ways one pass through the loop of JobQueue::dequeue() can go.
dequeueStop(w) ==
    /\ pc[w] = "dequeue"
    /\ is_stopping_
    /\ pc' = [pc EXCEPT ![w] = "exit"]
    /\ UNCHANGED <<queue_, is_stopping_, until, job, now>>

dequeueWait(w) ==
    /\ pc[w] = "dequeue"
    /\ ~is_stopping_
    /\ queue_ = {}
    /\ pc' = [pc EXCEPT ![w] = "wait"]
    /\ UNCHANGED <<queue_, is_stopping_, until, job, now>>

dequeueTimedWait(w) ==
    /\ pc[w] = "dequeue"
    /\ ~is_stopping_
    /\ \E j \in queue_ :
         /\ FirstJob(j)
         /\ now < j.deadline
         /\ until' = [until EXCEPT ![w] = j.deadline]
    /\ pc' = [pc EXCEPT ![w] = "timed"]
    /\ UNCHANGED <<queue_, is_stopping_, job, now>>

dequeueJob(w) ==
    /\ pc[w] = "dequeue"
    /\ ~is_stopping_
    /\ \E j \in queue_ :
         /\ FirstJob(j)
         /\ ~(now < j.deadline)
         /\ queue_' = queue_ \ {j}
         /\ job' = [job EXCEPT ![w] = j]
    /\ pc' = [pc EXCEPT ![w] = "run"]
    /\ UNCHANGED <<is_stopping_, until, now>>

\* timed_wait() returns because its time has come.
timedOut(w) ==
    /\ pc[w] = "timed"
    /\ until[w] <= now
    /\ pc' = [pc EXCEPT ![w] = "dequeue"]
    /\ UNCHANGED <<queue_, is_stopping_, until, job, now>>

\* A condition variable may wake a waiter without a notification.
spuriousWakeup(w) ==
    /\ w \in Waiters(pc)
    /\ pc' = [pc EXCEPT ![w] = "dequeue"]
    /\ UNCHANGED <<queue_, is_stopping_, until, job, now>>

\* ViewUpdateJob::run() ends without rescheduling: the view is gone, or the
\* update returned the interval 0.
finishJob(w) ==
    /\ pc[w] = "run"
    /\ pc' = [pc EXCEPT ![w] = "dequeue"]
    /\ job' = [job EXCEPT ![w] = NoJob]
    /\ UNCHANGED <<queue_, is_stopping_, until, now>>

\* The update succeeded with interval i: run() calls Job::reschedule(), which
\* enqueues make_next().  The running job is not in the queue, so nothing
\* stops the next one from being dequeued before run() returns.
reschedule(w, i) ==
    /\ pc[w] = "run"
    /\ \E t \in job[w].deadline..now :
         enqueue([name |-> job[w].name, deadline |-> t + i],
                 [pc EXCEPT ![w] = "return"])
    /\ UNCHANGED <<is_stopping_, until, job, now>>

\* run() returns after reschedule() and the worker calls dequeue() again.
returnJob(w) ==
    /\ pc[w] = "return"
    /\ pc' = [pc EXCEPT ![w] = "dequeue"]
    /\ job' = [job EXCEPT ![w] = NoJob]
    /\ UNCHANGED <<queue_, is_stopping_, until, now>>

\* Mutant: stop() notifies one worker only.
stopNotifyOne ==
    /\ ~is_stopping_
    /\ \A w \in Workers : pc[w] # "new"
    /\ is_stopping_' = TRUE
    /\ NotifyOne(pc)
    /\ UNCHANGED <<queue_, until, job, now>>

\* JobQueue::stop(), called by main() after start(): wake every waiter.
stop ==
    /\ ~is_stopping_
    /\ \A w \in Workers : pc[w] # "new"
    /\ is_stopping_' = TRUE
    /\ pc' = [w \in Workers |-> IF w \in Waiters(pc) THEN "dequeue" ELSE pc[w]]
    /\ UNCHANGED <<queue_, until, job, now>>

\* The clock advances; MaxTime bounds it.
clock ==
    /\ now < MaxTime
    /\ now' = now + 1
    /\ UNCHANGED <<queue_, is_stopping_, pc, until, job>>

dequeue(w) ==
    dequeueStop(w) \/ dequeueWait(w) \/ dequeueTimedWait(w) \/ dequeueJob(w)

run(w) ==
    finishJob(w) \/ (\E i \in Intervals : reschedule(w, i)) \/ returnJob(w)

QueueNext ==
    \/ start
    \/ \E n \in Names, i \in Intervals : on_update(n, i)
    \/ \E w \in Workers :
         dequeue(w) \/ timedOut(w) \/ spuriousWakeup(w) \/ run(w)
    \/ stop
    \/ clock

QueueSpec == QueueInit /\ [][QueueNext]_queueVars

\* main() starts the pool, worker threads are scheduled, jobs terminate and
\* time passes.  Nothing makes anyone call on_update() or stop().
QueueFairness ==
    /\ WF_queueVars(start)
    /\ WF_queueVars(clock)
    /\ \A w \in Workers :
         WF_queueVars(dequeue(w)) /\ WF_queueVars(timedOut(w)) /\ WF_queueVars(run(w))

FairQueueSpec == QueueSpec /\ QueueFairness

-----------------------------------------------------------------------------

QueueTypeOK ==
    /\ queue_ \subseteq Job
    /\ is_stopping_ \in BOOLEAN
    /\ pc \in [Workers -> WorkerPC]
    /\ until \in [Workers -> Nat]
    /\ job \in [Workers -> Job \cup {NoJob}]
    /\ \A w \in Workers : pc[w] \in {"run", "return"} <=> job[w] # NoJob
    /\ now \in Nat

\* enqueue() looks at one equal job only, the first one.  That is enough: the
\* queue never holds two jobs for one view, whatever the order in which the
\* transactions (on_update) and the workers (reschedule) call it.
OneJobPerView ==
    \A j, k \in queue_ : j.name = k.name => j = k

\* A worker that is awake will look at the queue before it sleeps again; one in
\* timed_wait() will look in time for every job if it waits no longer than the
\* earliest deadline.
Watching(w) ==
    \/ pc[w] \in {"dequeue", "run", "return"}
    \/ pc[w] = "timed" /\ \A j \in queue_ : until[w] <= j.deadline

\* enqueue() wakes one worker, not all of them, and the one it wakes may not be
\* the one that waits for the job it replaced.  Still, as long as jobs are
\* queued in a running pool, some worker watches for the earliest of them: no
\* notification is lost and no job sleeps past its deadline behind a worker
\* that waits for a later one.
NoLostWakeup ==
    (queue_ # {} /\ ~is_stopping_ /\ \A w \in Workers : pc[w] # "new")
        => \E w \in Workers : Watching(w)

\* stop() sets the flag and wakes everyone under queue_mutex_, and dequeue()
\* tests it under the same mutex before it waits: after stop() no worker is
\* left in a wait that nobody will end (join() would hang).
NoSleeperAfterStop ==
    is_stopping_ => Waiters(pc) = {}

\* Every job whose deadline the clock reaches leaves the queue (to be run or
\* replaced), unless the pool is stopped.
DueJobLeavesQueue ==
    \A n \in Names, d \in 0..MaxTime :
        ([name |-> n, deadline |-> d] \in queue_)
            ~> ([name |-> n, deadline |-> d] \notin queue_ \/ is_stopping_)

\* After stop(), join() returns: every worker leaves its loop, the one that is
\* inside a job or has just rescheduled one included.
StopTerminatesPool ==
    is_stopping_ ~> \A w \in Workers : pc[w] = "exit"

\* "New job comes before existing job; replace the existing job": a queued job
\* leaves the queue only to be run or when an earlier job for the same view is
\* queued in its place.
ReplacedNotLost ==
    [][\A j \in queue_ \ queue_' :
         \/ \E w \in Workers : job'[w] = j
         \/ \E k \in queue_' : k.name = j.name /\ k.deadline < j.deadline]_queueVars
=============================================================================
