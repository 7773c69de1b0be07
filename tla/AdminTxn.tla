------------------------------ MODULE AdminTxn ------------------------------
(***************************************************************************)
(* Administrative transactions of the portal (AdminState) and the threads  *)
(* that roll back the ones a client abandons (TxnMonitor).                 *)
(*                                                                         *)
(* At most one transaction is open.  txn_begin() makes a private copy of   *)
(* the global state, txn_apply() changes the copy, txn_commit() installs   *)
(* it, and txn_rollback(), a failed action or the monitor throws it away.  *)
(* Transactions are of type TXN_COPY_ON_WRITE, the only one the REST       *)
(* interface begins.                                                       *)
(*                                                                         *)
(* The methods of AdminState run under mutex_.  A monitor sleeps, and is   *)
(* interrupted, without it, and reads token_ without it, so a method is    *)
(* split where the order of its steps is visible to a monitor: txn_apply   *)
(* interrupts the monitor before and after the action, clear_txn_state     *)
(* resets the token and then interrupts.  `method' says which method is    *)
(* under way and thereby who holds mutex_.                                 *)
(***************************************************************************)
EXTENDS Naturals

CONSTANTS
    Changes,    \* what administrative actions do to the state
    MaxTxns,    \* bound on the number of transactions
    Timeout,    \* admin-txn-timeout, in ticks of the clock
    None,       \* a NULL pointer
    Admin       \* the thread that serves the administrative requests

Txns == 1..MaxTxns

ASSUME MaxTxnsAssumption == MaxTxns \in Nat
ASSUME TimeoutAssumption == Timeout \in Nat \ {0}
ASSUME NoneAssumption == None \notin Txns /\ \A S \in SUBSET Changes : None # S
ASSUME AdminAssumption == Admin \notin Txns

VARIABLES
    token_,           \* token of the open transaction, or INVALID_TOKEN
    new_state_,       \* the private copy: the set of changes in it, or None
    monitor_thread_,  \* monitor of the open transaction (a number), or None
    unapplied_changes_,
    method,           \* [by, at]: the thread inside a method and where it is
    monitors,         \* what each monitor thread does
    global,           \* GLOBAL_STATE: the set of changes in it
    txns,             \* number of transactions begun so far
    idle,             \* ticks since the client's last request, at most Timeout
    acked,            \* history: the changes acknowledged in each transaction
    committed         \* history: the transactions whose commit was acknowledged

vars == <<token_, new_state_, monitor_thread_, unapplied_changes_, method,
          monitors, global, txns, idle, acked, committed>>

INVALID_TOKEN == 0

\* A TxnMonitor thread: unborn, inside sleep(), about to call txn_rollback(),
\* in the handler of thread_interrupted, inside clear_txn_state(), returned.
MonitorPC == {"unborn", "sleep", "rollback", "caught", "clear", "done"}

Monitor == [pc : MonitorPC, token : Nat, interrupted : BOOLEAN, timer : 0..Timeout]

\* free: mutex_ is not held; apply: an action is being performed; clear:
\* clear_txn_state() has reset the token and not yet interrupted the monitor.
Free == [by |-> None, at |-> "free"]

Method == {Free} \cup [by : {Admin}, at : {"apply", "clear"}]
                 \cup [by : Txns, at : {"clear"}]

-----------------------------------------------------------------------------

\* boost::thread::interrupt(): a flag, looked at by the next sleep().
Interrupt(ms, m) == [ms EXCEPT ![m].interrupted = TRUE]

\* Mutant: the fixed token of a debug build.
generate_tokenFixed == 1

\* A random 64-bit number: never INVALID_TOKEN, and fresh for all we model.
generate_token == txns + 1

\* check_txn_token(t) does not throw.
check_txn_token(t) == token_ # INVALID_TOKEN /\ token_ = t

Init ==
    /\ token_ = INVALID_TOKEN
    /\ new_state_ = None
    /\ monitor_thread_ = None
    /\ unapplied_changes_ = {}
    /\ method = Free
    /\ monitors = [m \in Txns |-> [pc |-> "unborn", token |-> 0,
                                   interrupted |-> FALSE, timer |-> 0]]
    /\ global = {}
    /\ txns = 0
    /\ idle = 0
    /\ acked = [t \in Txns |-> {}]
    /\ committed = {}

\* txn_begin(): copy the global state and start a monitor.
txn_begin ==
    /\ method = Free
    /\ token_ = INVALID_TOKEN
    /\ txns < MaxTxns
    /\ txns' = txns + 1
    /\ token_' = generate_token
    /\ new_state_' = global
    /\ monitor_thread_' = txns + 1
    /\ monitors' = [monitors EXCEPT ![txns + 1] =
                      [pc |-> "sleep", token |-> token_',
                       interrupted |-> FALSE, timer |-> Timeout]]
    /\ idle' = 0
    /\ UNCHANGED <<unapplied_changes_, method, global, acked, committed>>

\* Mutant: the changelog is not cleared.
ClearStateKeepsLog(b) ==
    /\ new_state_' = None
    /\ token_' = INVALID_TOKEN
    /\ method' = [by |-> b, at |-> "clear"]
    /\ UNCHANGED <<unapplied_changes_, monitor_thread_>>

\* The first half of clear_txn_state(), by thread b: everything up to and
\* including the reset of the token.
ClearState(b) ==
    /\ new_state_' = None
    /\ unapplied_changes_' = {}
    /\ token_' = INVALID_TOKEN
    /\ method' = [by |-> b, at |-> "clear"]
    /\ UNCHANGED monitor_thread_

\* Mutant: the monitor is detached without an interrupt.
InterruptMonitorDetachOnly(b) ==
    /\ method = [by |-> b, at |-> "clear"]
    /\ method' = Free
    /\ monitor_thread_' = None
    /\ monitors' = IF b = Admin THEN monitors ELSE [monitors EXCEPT ![b].pc = "done"]
    /\ UNCHANGED <<token_, new_state_, unapplied_changes_, global, txns, idle,
                   acked, committed>>

\* The second half: interrupt the monitor and forget it.  The caller returns
\* and releases mutex_; a monitor that rolled back its transaction is done.
InterruptMonitor(b) ==
    /\ method = [by |-> b, at |-> "clear"]
    /\ method' = Free
    /\ monitor_thread_' = None
    /\ LET ms == Interrupt(monitors, monitor_thread_)
       IN  monitors' = IF b = Admin THEN ms ELSE [ms EXCEPT ![b].pc = "done"]
    /\ UNCHANGED <<token_, new_state_, unapplied_changes_, global, txns, idle,
                   acked, committed>>

\* txn_apply(), up to the call of the action.
txn_apply(t, c) ==
    /\ method = Free
    /\ check_txn_token(t)
    /\ monitors' = Interrupt(monitors, monitor_thread_)
    /\ unapplied_changes_' = {c}
    /\ method' = [by |-> Admin, at |-> "apply"]
    /\ UNCHANGED <<token_, new_state_, monitor_thread_, global, txns, idle,
                   acked, committed>>

\* process_changes() performs the action on the private copy and succeeds;
\* txn_apply() interrupts the monitor again and returns the action.
applySucceeds ==
    /\ method = [by |-> Admin, at |-> "apply"]
    /\ new_state_' = new_state_ \cup unapplied_changes_
    /\ unapplied_changes_' = {}
    /\ monitors' = Interrupt(monitors, monitor_thread_)
    /\ acked' = [acked EXCEPT ![txns] = @ \cup unapplied_changes_]
    /\ idle' = 0
    /\ method' = Free
    /\ UNCHANGED <<token_, monitor_thread_, global, txns, committed>>

\* Mutant: a failed action is reported, what it did to the copy stays.
applyFailsKept ==
    /\ method = [by |-> Admin, at |-> "apply"]
    /\ new_state_' = new_state_ \cup unapplied_changes_
    /\ unapplied_changes_' = {}
    /\ method' = Free
    /\ UNCHANGED <<token_, monitor_thread_, monitors, global, txns, idle,
                   acked, committed>>

\* The action fails, possibly half way: the whole transaction is dropped.
\* (rollback_changes() calls AdminAction::rollback(), which does nothing.)
applyFails ==
    /\ method = [by |-> Admin, at |-> "apply"]
    /\ ClearState(Admin)
    /\ UNCHANGED <<monitors, global, txns, idle, acked, committed>>

\* txn_commit(): nothing is left unapplied, the copy becomes the global state.
\* (GLOBAL_STATE->updated(), called once the transaction is cleared, schedules
\* the background jobs: JobQueue!on_update.)
txn_commit(t) ==
    /\ method = Free
    /\ check_txn_token(t)
    /\ global' = new_state_ \cup unapplied_changes_
    /\ committed' = committed \cup {t}
    /\ ClearState(Admin)
    /\ UNCHANGED <<monitors, txns, idle, acked>>

\* txn_rollback() on request of the client.
txn_rollback(t) ==
    /\ method = Free
    /\ check_txn_token(t)
    /\ ClearState(Admin)
    /\ UNCHANGED <<monitors, global, txns, idle, acked, committed>>

-----------------------------------------------------------------------------

\* sleep() throws thread_interrupted.
monitorInterrupted(m) ==
    /\ monitors[m].pc = "sleep"
    /\ monitors[m].interrupted
    /\ monitors' = [monitors EXCEPT ![m].pc = "caught", ![m].interrupted = FALSE]
    /\ UNCHANGED <<token_, new_state_, monitor_thread_, unapplied_changes_,
                   method, global, txns, idle, acked, committed>>

\* Mutant: the comparison of the tokens is inverted.
monitorCaughtInverted(m) ==
    /\ monitors[m].pc = "caught"
    /\ monitors' = IF token_ = monitors[m].token
                   THEN [monitors EXCEPT ![m].pc = "done"]
                   ELSE [monitors EXCEPT ![m].pc = "sleep", ![m].timer = Timeout]
    /\ UNCHANGED <<token_, new_state_, monitor_thread_, unapplied_changes_,
                   method, global, txns, idle, acked, committed>>

\* The handler of thread_interrupted: quit if the transaction is over, reset
\* the timer otherwise.  get_token() does not lock mutex_.
monitorCaught(m) ==
    /\ monitors[m].pc = "caught"
    /\ monitors' = IF token_ # monitors[m].token
                   THEN [monitors EXCEPT ![m].pc = "done"]
                   ELSE [monitors EXCEPT ![m].pc = "sleep", ![m].timer = Timeout]
    /\ UNCHANGED <<token_, new_state_, monitor_thread_, unapplied_changes_,
                   method, global, txns, idle, acked, committed>>

\* sleep() returns: the monitor is about to call txn_rollback().
monitorExpires(m) ==
    /\ monitors[m].pc = "sleep"
    /\ monitors[m].timer = 0
    /\ ~monitors[m].interrupted
    /\ monitors' = [monitors EXCEPT ![m].pc = "rollback"]
    /\ UNCHANGED <<token_, new_state_, monitor_thread_, unapplied_changes_,
                   method, global, txns, idle, acked, committed>>

\* txn_rollback() by the monitor.  Locking mutex_ is not an interruption
\* point: an interrupt that comes after sleep() returned has no effect here.
monitorRollback(m) ==
    /\ monitors[m].pc = "rollback"
    /\ method = Free
    /\ check_txn_token(monitors[m].token)
    /\ ClearState(m)
    /\ monitors' = [monitors EXCEPT ![m].pc = "clear"]
    /\ UNCHANGED <<global, txns, idle, acked, committed>>

\* check_txn_token() throws: log the admin_error and start over.
monitorRollbackFails(m) ==
    /\ monitors[m].pc = "rollback"
    /\ method = Free
    /\ ~check_txn_token(monitors[m].token)
    /\ monitors' = [monitors EXCEPT ![m].pc = "sleep", ![m].timer = Timeout]
    /\ UNCHANGED <<token_, new_state_, monitor_thread_, unapplied_changes_,
                   method, global, txns, idle, acked, committed>>

\* Time passes: monitors inside sleep() come closer to its end.
tick ==
    /\ monitors' = [m \in Txns |->
          IF monitors[m].pc = "sleep" /\ monitors[m].timer > 0
          THEN [monitors[m] EXCEPT !.timer = @ - 1]
          ELSE monitors[m]]
    /\ idle' = IF idle < Timeout THEN idle + 1 ELSE idle
    /\ <<monitors, idle>>' # <<monitors, idle>>
    /\ UNCHANGED <<token_, new_state_, monitor_thread_, unapplied_changes_,
                   method, global, txns, acked, committed>>

apply == applySucceeds \/ applyFails

Request(t) ==
    \/ \E c \in Changes : txn_apply(t, c)
    \/ txn_commit(t)
    \/ txn_rollback(t)

TxnMonitor(m) ==
    \/ monitorInterrupted(m) \/ monitorCaught(m) \/ monitorExpires(m)
    \/ monitorRollback(m) \/ monitorRollbackFails(m)
    \/ InterruptMonitor(m)

\* A client knows the tokens it was given, those of past transactions included.
Next ==
    \/ txn_begin
    \/ \E t \in 1..txns : Request(t)
    \/ apply
    \/ InterruptMonitor(Admin)
    \/ \E m \in Txns : TxnMonitor(m)
    \/ tick

Spec == Init /\ [][Next]_vars

\* Methods that hold mutex_ complete, monitor threads are scheduled and time
\* passes.  Clients need not do anything.
Fairness ==
    /\ WF_vars(apply)
    /\ WF_vars(InterruptMonitor(Admin))
    /\ \A m \in Txns : WF_vars(TxnMonitor(m))
    /\ WF_vars(tick)

FairSpec == Spec /\ Fairness

-----------------------------------------------------------------------------

TypeOK ==
    /\ token_ \in Nat
    /\ new_state_ = None \/ new_state_ \in SUBSET Changes
    /\ monitor_thread_ \in Txns \cup {None}
    /\ unapplied_changes_ \in SUBSET Changes
    /\ method \in Method
    /\ monitors \in [Txns -> Monitor]
    /\ global \in SUBSET Changes
    /\ txns \in 0..MaxTxns
    /\ idle \in 0..Timeout
    /\ acked \in [Txns -> SUBSET Changes]
    /\ committed \in SUBSET Txns

\* What a method finds when it acquires mutex_: the token, the private copy and
\* the monitor thread exist together or not at all, and no change is left over.
\* txn_begin() asserts that monitor_thread_ is NULL, txn_apply() dereferences
\* it, txn_commit() installs new_state_, without looking.
TxnStateCoherent ==
    method = Free =>
        /\ unapplied_changes_ = {}
        /\ token_ = INVALID_TOKEN => new_state_ = None /\ monitor_thread_ = None
        /\ token_ # INVALID_TOKEN => new_state_ # None /\ monitor_thread_ # None

\* A monitor whose timer runs out late, after its transaction has ended and
\* another one has begun, never rolls back the other one.
MonitorEndsOwnTxnOnly ==
    method.by \in Txns => method.by = monitor_thread_

\* clear_txn_state() resets the token before it interrupts the monitor.  So a
\* monitor that was dismissed either still has the interrupt to receive or is
\* about to compare the tokens and quit: none goes back to sleep for good.
DismissedMonitorQuits ==
    \A m \in 1..txns :
        (m # monitor_thread_ /\ monitors[m].pc # "done")
            => monitors[m].interrupted \/ monitors[m].pc = "caught"

\* All or nothing: the global state holds exactly the changes acknowledged in
\* the transactions whose commit was acknowledged, nothing of a transaction
\* that failed, was rolled back or timed out, and nothing a failed action did.
CommittedExactly ==
    global = UNION {acked[t] : t \in committed}

\* The changes acknowledged in the open transaction.
Pending == IF token_ = INVALID_TOKEN THEN None ELSE acked[txns]

Atomic == INSTANCE AtomicTxn WITH Closed <- None, state <- global, pending <- Pending

\* To its clients AdminState is the one-transaction-at-a-time store of AtomicTxn:
\* the private copy, the change log, the monitors and the moments at which a
\* method has released part of its state are not visible in what is committed.
ImplementsAtomicTxn == Atomic!Spec

\* The client sends no more actions from some time on.
ClientSilent == <>[][~ \E t \in Txns, c \in Changes : txn_apply(t, c)]_vars

\* A transaction whose client went silent ends, so that it does not keep others
\* from beginning one: its monitor rolls it back after the timeout.
AbandonedTxnEnds ==
    ClientSilent => [](token_ # INVALID_TOKEN => <>(token_ = INVALID_TOKEN))

\* The thread of every transaction that ended terminates.
MonitorsTerminate ==
    ClientSilent =>
        \A m \in Txns :
            (m <= txns /\ monitor_thread_ # m) ~> (monitors[m].pc = "done")

\* "number of seconds before cancelling an idle admin transaction": a monitor
\* rolls back only a transaction whose client was idle for that long.
OnlyIdleTxnCancelled ==
    method.by \in Txns => idle = Timeout
=============================================================================
