--------------------------- MODULE AdminTxnProofs ---------------------------
(***************************************************************************)
(* Proofs about the portal's transactions and its queue of jobs: AdminTxn  *)
(* for any number of transactions, any set of changes and any timeout, and *)
(* JobQueue for any views, workers, intervals and clock bound.             *)
(***************************************************************************)
EXTENDS AdminTxn, JobQueue, TLAPS

\* The provers' time limits, where a step names no prover.
USE ZenonT(20), SMTT(20)

-----------------------------------------------------------------------------
(* The transactions themselves: AdminTxn. *)

\* Where the method that holds mutex_ is determines which parts of the
\* transaction state exist.
StateByMethod ==
    /\ TxnStateCoherent
    /\ method.at = "apply" =>
         token_ # INVALID_TOKEN /\ new_state_ # None /\ monitor_thread_ # None
    /\ method.at = "clear" =>
         /\ token_ = INVALID_TOKEN /\ new_state_ = None
         /\ unapplied_changes_ = {} /\ monitor_thread_ # None

\* The open transaction is the one begun last; tokens are not reused.
LatestTxn ==
    /\ token_ # INVALID_TOKEN => token_ = txns
    /\ monitor_thread_ # None => monitor_thread_ = txns

\* Every transaction begun has its monitor, which carries its token.  A monitor
\* inside clear_txn_state() is the one that holds mutex_.
MonitorPerTxn ==
    /\ \A m \in Txns : m > txns => monitors[m].pc = "unborn"
    /\ \A m \in 1..txns : monitors[m].token = m
    /\ \A m \in Txns : monitors[m].pc = "clear" => method.by = m
    /\ \A m \in Txns : method.by = m => m <= txns

TxnInv ==
    /\ StateByMethod
    /\ LatestTxn
    /\ MonitorPerTxn
    /\ MonitorEndsOwnTxnOnly
    /\ DismissedMonitorQuits

-----------------------------------------------------------------------------

\* The fields of a method record.
LEMMA MethodFields ==
    ASSUME TypeOK
    PROVE  /\ method = Free <=> method.at = "free"
           /\ method = Free => method.by = None
           /\ method.at \in {"free", "apply", "clear"}
           /\ method.at = "apply" => method.by = Admin
           /\ method.by \in Txns \cup {Admin, None}
           /\ method.by \in Txns => method.at = "clear"
  BY SMTT(20), NoneAssumption, AdminAssumption DEF TypeOK, Method, Free

\* interrupt() keeps the monitors well typed.
LEMMA InterruptType ==
    ASSUME NEW ms \in [Txns -> Monitor], NEW m
    PROVE  Interrupt(ms, m) \in [Txns -> Monitor]
  BY Zenon DEF Interrupt, Monitor

\* A step of a monitor keeps the types.
LEMMA MonitorType ==
    ASSUME TypeOK, NEW m \in Txns, TxnMonitor(m)
    PROVE  TypeOK'
  <1> USE TimeoutAssumption DEF TypeOK, INVALID_TOKEN
  <1>1. Timeout \in 0..Timeout
    BY SMTT(20)
  <1>2. ASSUME NEW q \in MonitorPC, monitors' = [monitors EXCEPT ![m].pc = q]
        PROVE  monitors' \in [Txns -> Monitor]
    BY SMTT(20), <1>2 DEF Monitor
  <1>3. ASSUME monitors' = [monitors EXCEPT ![m].pc = "sleep", ![m].timer = Timeout]
        PROVE  monitors' \in [Txns -> Monitor]
    BY <1>1, <1>3, Zenon DEF Monitor, MonitorPC
  <1>4. CASE monitorInterrupted(m)
    <2>1. monitors' \in [Txns -> Monitor]
      BY SMTT(20), <1>4 DEF monitorInterrupted, Monitor, MonitorPC
    <2> QED
      BY <1>4, <2>1 DEF monitorInterrupted
  <1>5. CASE monitorCaught(m)
    <2>1. monitors' \in [Txns -> Monitor]
      BY <1>2, <1>3, <1>5 DEF monitorCaught, MonitorPC
    <2> QED
      BY <1>5, <2>1 DEF monitorCaught
  <1>6. CASE monitorExpires(m)
    <2>1. monitors' \in [Txns -> Monitor]
      BY <1>2, <1>6 DEF monitorExpires, MonitorPC
    <2> QED
      BY <1>6, <2>1 DEF monitorExpires
  <1>7. CASE monitorRollback(m)
    <2>1. monitors' \in [Txns -> Monitor]
      BY <1>2, <1>7 DEF monitorRollback, MonitorPC
    <2> QED
      BY <1>7, <2>1 DEF monitorRollback, ClearState, Method
  <1>8. CASE monitorRollbackFails(m)
    <2>1. monitors' \in [Txns -> Monitor]
      BY <1>3, <1>8 DEF monitorRollbackFails
    <2> QED
      BY <1>8, <2>1 DEF monitorRollbackFails
  <1>9. CASE InterruptMonitor(m)
    <2>1. Interrupt(monitors, monitor_thread_) \in [Txns -> Monitor]
      BY InterruptType
    <2>2. monitors' = [Interrupt(monitors, monitor_thread_) EXCEPT ![m].pc = "done"]
      BY <1>9, AdminAssumption DEF InterruptMonitor
    <2>3. monitors' \in [Txns -> Monitor]
      BY SMTT(20), <2>1, <2>2 DEF Monitor, MonitorPC
    <2> QED
      BY <1>9, <2>3 DEF InterruptMonitor, Method
  <1> QED
    BY <1>4, <1>5, <1>6, <1>7, <1>8, <1>9 DEF TxnMonitor

\* The types need StateByMethod: a commit would install a NULL state if the
\* transaction state were not coherent.
LEMMA TypeStep == TypeOK /\ StateByMethod /\ [Next]_vars => TypeOK'
  <1> SUFFICES ASSUME TypeOK, StateByMethod, [Next]_vars PROVE TypeOK'
    OBVIOUS
  <1> USE MaxTxnsAssumption, TimeoutAssumption DEF TypeOK, INVALID_TOKEN, Txns
  <1>1. CASE txn_begin
    <2>1. txns + 1 \in Txns /\ token_' \in Nat /\ txns' \in 0..MaxTxns
      BY SMTT(20), <1>1 DEF txn_begin, generate_token
    <2>2. [pc |-> "sleep", token |-> token_', interrupted |-> FALSE,
           timer |-> Timeout] \in Monitor
      BY SMTT(20), <2>1 DEF Monitor, MonitorPC
    <2>3. monitors' \in [Txns -> Monitor]
      BY <1>1, <2>1, <2>2 DEF txn_begin
    <2> QED
      BY SMTT(20), <1>1, <2>1, <2>3 DEF txn_begin
  <1>2. ASSUME NEW t \in 1..txns, Request(t) PROVE TypeOK'
    <2>1. ASSUME NEW c \in Changes, txn_apply(t, c) PROVE TypeOK'
      BY InterruptType, <2>1 DEF txn_apply, Method
    <2>2. CASE txn_commit(t)
      <3>1. new_state_ \in SUBSET Changes
        BY <2>2 DEF txn_commit, check_txn_token, StateByMethod, TxnStateCoherent
      <3>2. t \in Txns
        BY SMTT(20)
      <3> QED
        BY <2>2, <3>1, <3>2 DEF txn_commit, ClearState, Method
    <2>3. CASE txn_rollback(t)
      BY <2>3 DEF txn_rollback, ClearState, Method
    <2> QED
      BY <1>2, <2>1, <2>2, <2>3 DEF Request
  <1>3. CASE applySucceeds
    <2>1. new_state_ \in SUBSET Changes
      BY <1>3 DEF applySucceeds, StateByMethod
    <2>2. acked' \in [Txns -> SUBSET Changes]
      BY <1>3, Zenon DEF applySucceeds
    <2> QED
      BY SMTT(20), <1>3, <2>1, <2>2, InterruptType DEF applySucceeds, Method
  <1>4. CASE applyFails
    BY <1>4 DEF applyFails, ClearState, Method
  <1>5. CASE InterruptMonitor(Admin)
    BY <1>5, InterruptType DEF InterruptMonitor, Method
  <1>6. ASSUME NEW m \in Txns, TxnMonitor(m) PROVE TypeOK'
    BY <1>6, MonitorType
  <1>7. CASE tick
    <2>1. \A m \in Txns : monitors[m].timer > 0 =>
            [monitors[m] EXCEPT !.timer = @ - 1] \in Monitor
      <3> SUFFICES ASSUME NEW m \in Txns, monitors[m].timer > 0
                   PROVE  [monitors[m] EXCEPT !.timer = @ - 1] \in Monitor
        OBVIOUS
      <3>1. monitors[m] \in Monitor /\ monitors[m].timer \in 0..Timeout
        BY DEF Monitor
      <3>2. monitors[m].timer - 1 \in 0..Timeout
        BY SMTT(20), <3>1
      <3> QED
        BY <3>1, <3>2 DEF Monitor
    <2>2. monitors' \in [Txns -> Monitor]
      BY <1>7, <2>1 DEF tick
    <2> QED
      BY SMTT(20), <1>7, <2>2 DEF tick
  <1>8. CASE UNCHANGED vars
    BY <1>8 DEF vars
  <1> QED
    BY <1>1, <1>2, <1>3, <1>4, <1>5, <1>6, <1>7, <1>8 DEF Next, apply

-----------------------------------------------------------------------------

\* A request of the client keeps the invariant.
LEMMA RequestInv ==
    ASSUME TypeOK, TxnInv, NEW t \in 1..txns, Request(t)
    PROVE  TxnInv'
  <1> USE MaxTxnsAssumption, NoneAssumption, AdminAssumption
      DEF INVALID_TOKEN, Txns
  <1>1. /\ method = Free /\ token_ = t /\ txns' = txns
        /\ new_state_ # None /\ monitor_thread_ = txns /\ token_ = txns
        /\ monitor_thread_ # None
    BY DEF Request, txn_apply, txn_commit, txn_rollback, check_txn_token, TxnInv,
           StateByMethod, TxnStateCoherent, LatestTxn
  <1>2. CASE txn_commit(t) \/ txn_rollback(t)
    <2>1. /\ new_state_' = None /\ unapplied_changes_' = {} /\ token_' = 0
          /\ method' = [by |-> Admin, at |-> "clear"]
          /\ monitor_thread_' = monitor_thread_ /\ monitors' = monitors
      BY <1>2 DEF txn_commit, txn_rollback, ClearState
    <2>2. StateByMethod'
      <3>1. method'.at = "clear" /\ method' # Free
        BY <2>1 DEF Free
      <3> QED
        BY <1>1, <2>1, <3>1 DEF StateByMethod, TxnStateCoherent
    <2>3. MonitorPerTxn'
      BY <1>1, <2>1 DEF TxnInv, MonitorPerTxn, Free
    <2> QED
      BY <1>1, <2>1, <2>2, <2>3
      DEF TxnInv, LatestTxn, MonitorEndsOwnTxnOnly, DismissedMonitorQuits, Free
  <1>3. ASSUME NEW c \in Changes, txn_apply(t, c) PROVE TxnInv'
    <2>1. /\ method' = [by |-> Admin, at |-> "apply"]
          /\ UNCHANGED <<token_, new_state_, monitor_thread_>>
          /\ monitors' = Interrupt(monitors, monitor_thread_)
      BY <1>3 DEF txn_apply
    <2>2. \A m \in Txns : /\ monitors'[m].pc = monitors[m].pc
                          /\ monitors'[m].token = monitors[m].token
                          /\ m # monitor_thread_ =>
                               monitors'[m].interrupted = monitors[m].interrupted
      BY <2>1, Zenon DEF Interrupt, TypeOK, Monitor
    <2>3. StateByMethod'
      <3>1. method'.at = "apply" /\ method' # Free
        BY <2>1 DEF Free
      <3> QED
        BY SMTT(20), <1>1, <2>1, <3>1 DEF StateByMethod, TxnStateCoherent
    <2>4. MonitorPerTxn'
      <3>1. MonitorPerTxn /\ txns \in 0..MaxTxns
        BY DEF TxnInv, TypeOK
      <3>2. method.by = None /\ method'.by = Admin
        BY <1>1, <2>1 DEF Free
      <3>3. \A m \in 1..txns : m \in Txns
        BY SMTT(20), <3>1
      <3> HIDE DEF Txns
      <3>4. \A m \in Txns : monitors[m].pc # "clear"
        BY <3>1, <3>2, NoneAssumption DEF MonitorPerTxn
      <3> QED
        BY <1>1, <2>2, <3>1, <3>2, <3>3, <3>4 DEF MonitorPerTxn
    <2>5. DismissedMonitorQuits'
      BY SMTT(20), <1>1, <2>1, <2>2 DEF TxnInv, DismissedMonitorQuits, TypeOK
    <2> QED
      BY <1>1, <2>1, <2>3, <2>4, <2>5 DEF TxnInv, LatestTxn, MonitorEndsOwnTxnOnly
  <1> QED
    BY <1>2, <1>3 DEF Request

\* So does the end of txn_apply(), whether the action succeeded or not.
LEMMA ApplyInv ==
    ASSUME TypeOK, TxnInv, apply
    PROVE  TxnInv'
  <1> USE MaxTxnsAssumption, NoneAssumption, AdminAssumption
      DEF INVALID_TOKEN, Txns
  <1>1. /\ method.at = "apply" /\ method.by = Admin /\ txns' = txns
        /\ token_ # 0 /\ new_state_ # None /\ monitor_thread_ = txns
        /\ token_ = txns /\ monitor_thread_ # None
    BY SMTT(20) DEF apply, applySucceeds, applyFails, TxnInv, StateByMethod, LatestTxn
  <1>2. CASE applyFails
    <2>1. /\ new_state_' = None /\ unapplied_changes_' = {} /\ token_' = 0
          /\ method' = [by |-> Admin, at |-> "clear"]
          /\ monitor_thread_' = monitor_thread_ /\ monitors' = monitors
      BY <1>2 DEF applyFails, ClearState
    <2>2. StateByMethod'
      <3>1. method'.at = "clear" /\ method' # Free
        BY <2>1 DEF Free
      <3> QED
        BY <1>1, <2>1, <3>1 DEF StateByMethod, TxnStateCoherent
    <2>3. MonitorPerTxn'
      BY <1>1, <2>1 DEF TxnInv, MonitorPerTxn
    <2> QED
      BY <1>1, <2>1, <2>2, <2>3
      DEF TxnInv, LatestTxn, MonitorEndsOwnTxnOnly, DismissedMonitorQuits
  <1>3. CASE applySucceeds
    <2>1. /\ method' = Free /\ unapplied_changes_' = {}
          /\ new_state_' = new_state_ \cup unapplied_changes_
          /\ UNCHANGED <<token_, monitor_thread_>>
          /\ monitors' = Interrupt(monitors, monitor_thread_)
      BY <1>3 DEF applySucceeds
    <2>2. \A m \in Txns : /\ monitors'[m].pc = monitors[m].pc
                          /\ monitors'[m].token = monitors[m].token
                          /\ m # monitor_thread_ =>
                               monitors'[m].interrupted = monitors[m].interrupted
      BY <2>1, Zenon DEF Interrupt, TypeOK, Monitor
    <2>3. new_state_' # None
      <3>1. new_state_ \in SUBSET Changes /\ unapplied_changes_ \in SUBSET Changes
        BY <1>1 DEF TypeOK
      <3>2. new_state_ \cup unapplied_changes_ \in SUBSET Changes
        BY <3>1
      <3> QED
        BY <2>1, <3>2
    <2>4. StateByMethod'
      <3>1. method'.at = "free"
        BY <2>1 DEF Free
      <3> QED
        BY <1>1, <2>1, <2>3, <3>1 DEF StateByMethod, TxnStateCoherent
    <2>5. MonitorPerTxn'
      BY SMTT(20), <1>1, <2>1, <2>2 DEF TxnInv, MonitorPerTxn, Free, TypeOK
    <2>6. DismissedMonitorQuits'
      BY SMTT(20), <1>1, <2>1, <2>2 DEF TxnInv, DismissedMonitorQuits, TypeOK
    <2> QED
      BY <1>1, <2>1, <2>4, <2>5, <2>6
      DEF TxnInv, LatestTxn, MonitorEndsOwnTxnOnly, Free
  <1> QED
    BY <1>2, <1>3 DEF apply

\* A new transaction gets a number, a token and a monitor of its own.
LEMMA BeginInv ==
    ASSUME TypeOK, TxnInv, txn_begin
    PROVE  TxnInv'
  <1> USE MaxTxnsAssumption, NoneAssumption, AdminAssumption
      DEF INVALID_TOKEN, Txns
  <1>1. /\ txns \in Nat /\ txns' = txns + 1 /\ txns + 1 \in Txns
        /\ token_' = txns + 1 /\ monitor_thread_' = txns + 1
        /\ monitor_thread_ = None /\ method = Free /\ method' = Free
        /\ unapplied_changes_ = {} /\ unapplied_changes_' = {}
        /\ new_state_' = global /\ txns + 1 # None
    BY SMTT(20) DEF txn_begin, generate_token, TypeOK, TxnInv, StateByMethod, TxnStateCoherent
  <1>2. global # None
    BY DEF TypeOK
  <1>3. /\ monitors'[txns + 1].token = txns + 1 /\ monitors'[txns + 1].pc = "sleep"
        /\ \A m \in Txns : m # txns + 1 => monitors'[m] = monitors[m]
    BY <1>1 DEF txn_begin, TypeOK
  <1>4. method.at = "free" /\ method.by = None
    BY <1>1 DEF Free
  <1>5. StateByMethod'
    BY SMTT(20), <1>1, <1>2, <1>4 DEF StateByMethod, TxnStateCoherent
  <1>6. MonitorPerTxn'
    BY SMTT(20), <1>1, <1>3, <1>4 DEF TxnInv, MonitorPerTxn
  <1>7. DismissedMonitorQuits'
    BY SMTT(20), <1>1, <1>3 DEF TxnInv, DismissedMonitorQuits
  <1> QED
    BY <1>1, <1>4, <1>5, <1>6, <1>7 DEF TxnInv, LatestTxn, MonitorEndsOwnTxnOnly

\* The end of clear_txn_state() leaves a dismissed monitor with an interrupt to
\* receive.
LEMMA InterruptMonitorInv ==
    ASSUME TypeOK, TxnInv, NEW b \in Txns \cup {Admin}, InterruptMonitor(b)
    PROVE  TxnInv'
  <1> USE MaxTxnsAssumption, NoneAssumption, AdminAssumption
      DEF INVALID_TOKEN, Txns
  <1>1. /\ method.at = "clear" /\ method.by = b /\ method' = Free
        /\ monitor_thread_' = None /\ monitor_thread_ # None
        /\ monitor_thread_ = txns /\ txns' = txns /\ txns \in Txns
        /\ token_ = 0 /\ token_' = 0 /\ new_state_' = None
        /\ unapplied_changes_' = {}
    BY DEF InterruptMonitor, TxnInv, StateByMethod, LatestTxn, TypeOK
  <1>2. method'.at = "free" /\ method'.by = None
    BY <1>1 DEF Free
  <1>3. \A m \in Txns :
          /\ monitors'[m].token = monitors[m].token
          /\ monitors'[m].pc = IF m = b THEN "done" ELSE monitors[m].pc
          /\ m = txns => monitors'[m].interrupted
          /\ m # txns => monitors'[m].interrupted = monitors[m].interrupted
    <2> DEFINE ms == Interrupt(monitors, txns)
    <2>0. ms \in [Txns -> Monitor]
      BY InterruptType DEF TypeOK
    <2>1. \A m \in Txns :
            /\ ms[m].token = monitors[m].token /\ ms[m].pc = monitors[m].pc
            /\ m = txns => ms[m].interrupted
            /\ m # txns => ms[m].interrupted = monitors[m].interrupted
      BY <1>1, Zenon DEF Interrupt, TypeOK, Monitor
    <2>2. monitors' = IF b = Admin THEN ms ELSE [ms EXCEPT ![b].pc = "done"]
      BY <1>1 DEF InterruptMonitor
    <2> HIDE DEF ms
    <2>3. CASE b = Admin
      BY <2>1, <2>2, <2>3
    <2>4. CASE b \in Txns
      BY SMTT(20), <2>0, <2>1, <2>2, <2>4 DEF Monitor
    <2> QED
      BY <2>3, <2>4
  <1>4. StateByMethod'
    BY <1>1, <1>2 DEF StateByMethod, TxnStateCoherent
  <1>5. MonitorPerTxn'
    BY SMTT(20), <1>1, <1>2, <1>3 DEF TxnInv, MonitorPerTxn
  <1>6. DismissedMonitorQuits'
    BY SMTT(20), <1>1, <1>3 DEF TxnInv, DismissedMonitorQuits
  <1> QED
    BY <1>1, <1>2, <1>4, <1>5, <1>6 DEF TxnInv, LatestTxn, MonitorEndsOwnTxnOnly

\* A monitor that acts on its own changes nothing but itself, except when it
\* rolls back; then the tokens are equal, so the transaction is its own.
LEMMA MonitorInv ==
    ASSUME TypeOK, TxnInv, NEW m \in Txns, TxnMonitor(m), ~InterruptMonitor(m)
    PROVE  TxnInv'
  <1> USE MaxTxnsAssumption, NoneAssumption, AdminAssumption
      DEF INVALID_TOKEN, Txns
  <1>1. /\ txns' = txns /\ monitor_thread_' = monitor_thread_ /\ txns \in Nat
        /\ txns \in 0..MaxTxns
    BY SMTT(20) DEF TxnMonitor, monitorInterrupted, monitorCaught, monitorExpires,
           monitorRollback, monitorRollbackFails, ClearState, TypeOK
  <1>2. /\ \A k \in Txns : k # m => monitors'[k] = monitors[k]
        /\ \A k \in Txns : monitors'[k].token = monitors[k].token
    <2>1. CASE monitorInterrupted(m)
      BY SMTT(20), <2>1 DEF monitorInterrupted, TypeOK, Monitor
    <2>2. CASE monitorCaught(m)
      BY SMTT(20), <2>2 DEF monitorCaught, TypeOK, Monitor
    <2>3. CASE monitorExpires(m)
      BY SMTT(20), <2>3 DEF monitorExpires, TypeOK, Monitor
    <2>4. CASE monitorRollback(m)
      BY <2>4 DEF monitorRollback, TypeOK, Monitor
    <2>5. CASE monitorRollbackFails(m)
      BY <2>5 DEF monitorRollbackFails, TypeOK, Monitor
    <2> QED
      BY <2>1, <2>2, <2>3, <2>4, <2>5 DEF TxnMonitor
  <1>3. m <= txns /\ monitors[m].token = m
    BY SMTT(20) DEF TxnMonitor, monitorInterrupted, monitorCaught, monitorExpires,
           monitorRollback, monitorRollbackFails, TxnInv, MonitorPerTxn, TypeOK
  <1>4. token_ # 0 => token_ = txns /\ monitor_thread_ = txns
    BY MethodFields DEF TxnInv, StateByMethod, TxnStateCoherent, LatestTxn
  <1>5. CASE monitorRollback(m)
    <2>1. /\ token_ = m /\ token_ # 0 /\ method = Free /\ token_' = 0
          /\ new_state_' = None /\ unapplied_changes_' = {}
          /\ method' = [by |-> m, at |-> "clear"]
      BY <1>3, <1>5 DEF monitorRollback, check_txn_token, ClearState
    <2>2. m = txns /\ monitor_thread_ = m /\ monitor_thread_ # None
      BY <1>4, <2>1
    <2>3. method'.at = "clear" /\ method'.by = m /\ method.by = None /\ method' # Free
      BY <2>1 DEF Free
    <2>4. monitors'[m].pc = "clear"
      BY <1>5 DEF monitorRollback, TypeOK, Monitor
    <2>5. StateByMethod'
      BY <1>1, <1>2, <2>1, <2>2, <2>3 DEF StateByMethod, TxnStateCoherent
    <2>6. MonitorPerTxn'
      BY SMTT(20), <1>1, <1>2, <1>3, <2>2, <2>3, <2>4 DEF TxnInv, MonitorPerTxn
    <2>7. DismissedMonitorQuits'
      BY SMTT(20), <1>1, <1>2, <2>2 DEF TxnInv, DismissedMonitorQuits
    <2> QED
      BY <1>1, <1>2, <2>1, <2>2, <2>3, <2>5, <2>6, <2>7
      DEF TxnInv, LatestTxn, MonitorEndsOwnTxnOnly
  <1>6. CASE \/ monitorInterrupted(m) \/ monitorCaught(m) \/ monitorExpires(m)
             \/ monitorRollbackFails(m)
    <2>1. /\ UNCHANGED <<token_, new_state_, unapplied_changes_, method>>
          /\ monitors'[m].pc \in {"sleep", "caught", "rollback", "done"}
      BY SMTT(20), <1>6 DEF monitorInterrupted, monitorCaught, monitorExpires,
                  monitorRollbackFails, TypeOK, Monitor
    <2>2. StateByMethod'
      BY <1>1, <1>2, <2>1 DEF TxnInv, StateByMethod, TxnStateCoherent
    <2>3. MonitorPerTxn'
      BY SMTT(20), <1>1, <1>2, <1>3, <2>1 DEF TxnInv, MonitorPerTxn
    <2>4. m # monitor_thread_ =>
            \/ monitors'[m].pc \in {"done", "caught"}
            \/ monitors'[m].interrupted
      <3>1. m # monitor_thread_ => token_ # m
        BY SMTT(20), <1>3, <1>4
      <3>2. m # monitor_thread_ /\ monitors[m].pc # "done" =>
              monitors[m].interrupted \/ monitors[m].pc = "caught"
        BY SMTT(20), <1>3 DEF TxnInv, DismissedMonitorQuits
      <3> QED
        BY SMTT(20), <1>3, <1>6, <3>1, <3>2
        DEF monitorInterrupted, monitorCaught, monitorExpires,
            monitorRollbackFails, TypeOK, Monitor
    <2>5. DismissedMonitorQuits'
      BY SMTT(20), <1>1, <1>2, <2>1, <2>4 DEF TxnInv, DismissedMonitorQuits
    <2> QED
      BY <1>1, <1>2, <2>1, <2>2, <2>3, <2>5 DEF TxnInv, LatestTxn, MonitorEndsOwnTxnOnly
  <1> QED
    BY <1>5, <1>6 DEF TxnMonitor

\* Every step keeps the invariant.
LEMMA TxnInvStep == TypeOK /\ TxnInv /\ [Next]_vars => TxnInv'
  <1> SUFFICES ASSUME TypeOK, TxnInv, [Next]_vars PROVE TxnInv'
    OBVIOUS
  <1>1. CASE tick
    <2>1. \A m \in Txns : /\ monitors'[m].pc = monitors[m].pc
                          /\ monitors'[m].token = monitors[m].token
                          /\ monitors'[m].interrupted = monitors[m].interrupted
      BY <1>1 DEF tick, TypeOK, Monitor
    <2>2. UNCHANGED <<token_, new_state_, monitor_thread_, unapplied_changes_,
                      method, txns>>
      BY <1>1 DEF tick
    <2>3. 1..txns \subseteq Txns
      BY SMTT(20), MaxTxnsAssumption DEF TypeOK, Txns
    <2> QED
      BY SMTT(20), <2>1, <2>2, <2>3 DEF TxnInv, StateByMethod, TxnStateCoherent, LatestTxn,
        MonitorPerTxn, MonitorEndsOwnTxnOnly, DismissedMonitorQuits
  <1>2. CASE UNCHANGED vars
    BY <1>2 DEF vars, TxnInv, StateByMethod, TxnStateCoherent, LatestTxn,
        MonitorPerTxn, MonitorEndsOwnTxnOnly, DismissedMonitorQuits
  <1> QED
    BY <1>1, <1>2, RequestInv, ApplyInv, BeginInv, InterruptMonitorInv, MonitorInv
    DEF Next

\* No transaction is open initially.
LEMMA TxnInvInit == Init => TypeOK /\ TxnInv
  <1> SUFFICES ASSUME Init PROVE TypeOK /\ TxnInv
    OBVIOUS
  <1> USE MaxTxnsAssumption, TimeoutAssumption, NoneAssumption
      DEF Init, INVALID_TOKEN, Txns
  <1>1. TypeOK
    BY SMTT(20) DEF TypeOK, Method, Monitor, MonitorPC
  <1>2. method.at = "free" /\ method.by = None
    BY DEF Free
  <1>3. TxnInv
    BY SMTT(20), <1>2 DEF TxnInv, StateByMethod, TxnStateCoherent, LatestTxn,
        MonitorPerTxn, MonitorEndsOwnTxnOnly, DismissedMonitorQuits
  <1> QED
    BY <1>1, <1>3, Zenon

\* Types and invariant hold together, from the initial state on.
LEMMA InvAlways == Spec => [](TypeOK /\ TxnInv)
  <1>1. TypeOK /\ TxnInv /\ [Next]_vars => (TypeOK /\ TxnInv)'
    BY TypeStep, TxnInvStep DEF TxnInv
  <1> QED
    BY <1>1, TxnInvInit, PTL DEF Spec

\* Type correctness of the transaction state.
THEOREM TypeCorrect == Spec => []TypeOK
  BY InvAlways, PTL

\* A method of AdminState finds token, copy and monitor all there or all gone.
THEOREM CoherentAlways == Spec => []TxnStateCoherent
  BY InvAlways, PTL DEF TxnInv, StateByMethod

\* A late monitor never rolls back a transaction that is not its own.
THEOREM OwnTxnOnly == Spec => []MonitorEndsOwnTxnOnly
  BY InvAlways, PTL DEF TxnInv

\* A dismissed monitor has the interrupt to receive or is about to quit.
THEOREM DismissedQuits == Spec => []DismissedMonitorQuits
  BY InvAlways, PTL DEF TxnInv

-----------------------------------------------------------------------------

\* The private copy is the global state plus what was acknowledged so far, and
\* the open transaction is not among the committed ones.
CopyInv ==
    /\ new_state_ # None => new_state_ = global \cup acked[txns]
    /\ token_ # INVALID_TOKEN => txns \notin committed
    /\ \A t \in committed : t <= txns
    /\ \A t \in Txns : t > txns => acked[t] = {}
    /\ CommittedExactly

\* Every step keeps the relation between copy, history and global state.
LEMMA CopyInvStep == TypeOK /\ TxnInv /\ CopyInv /\ [Next]_vars => CopyInv'
  <1> SUFFICES ASSUME TypeOK, TxnInv, CopyInv, [Next]_vars PROVE CopyInv'
    OBVIOUS
  <1> USE MaxTxnsAssumption, NoneAssumption DEF INVALID_TOKEN, Txns
  <1>1. CASE txn_begin
    <2>1. /\ new_state_' = global /\ txns' = txns + 1 /\ txns + 1 \in Txns
          /\ UNCHANGED <<global, acked, committed>>
          /\ txns + 1 > txns /\ txns \in 0..MaxTxns
      BY SMTT(20), <1>1 DEF txn_begin, TypeOK
    <2>2. acked[txns + 1] = {} /\ txns + 1 \notin committed
      BY SMTT(20), <2>1 DEF CopyInv
    <2>3. \A t \in committed : t <= txns + 1
      <3> SUFFICES ASSUME NEW t \in committed PROVE t <= txns + 1
        OBVIOUS
      <3>1. t \in Nat /\ t <= txns
        BY SMTT(20) DEF CopyInv, TypeOK
      <3> QED
        BY SMTT(20), <2>1, <3>1
    <2> QED
      BY SMTT(20), <2>1, <2>2, <2>3 DEF CopyInv, CommittedExactly
  <1>2. ASSUME NEW t \in 1..txns, txn_commit(t) PROVE CopyInv'
    <2>1. /\ token_ # 0 /\ t = token_ /\ token_ = txns /\ txns \in Txns
          /\ new_state_ # None /\ unapplied_changes_ = {}
      BY <1>2 DEF txn_commit, check_txn_token, TypeOK, TxnInv, StateByMethod,
                  TxnStateCoherent, LatestTxn
    <2>2. /\ global' = global \cup acked[txns] /\ committed' = committed \cup {txns}
          /\ acked' = acked /\ txns' = txns /\ token_' = 0 /\ new_state_' = None
      BY <1>2, <2>1 DEF txn_commit, ClearState, CopyInv
    <2>3. UNION {acked[u] : u \in committed \cup {txns}}
            = (UNION {acked[u] : u \in committed}) \cup acked[txns]
      OBVIOUS
    <2>4. txns <= txns
      BY SMTT(20), <2>1
    <2> QED
      BY SMTT(20), <2>1, <2>2, <2>3, <2>4 DEF CopyInv, CommittedExactly
  <1>3. CASE applySucceeds
    <2>1. /\ token_ # 0 /\ token_' = token_ /\ txns' = txns /\ txns \in Txns
          /\ new_state_ # None /\ UNCHANGED <<global, committed>>
          /\ new_state_' = new_state_ \cup unapplied_changes_
      BY <1>3 DEF applySucceeds, TypeOK, TxnInv, StateByMethod, LatestTxn
    <2>2. /\ acked'[txns] = acked[txns] \cup unapplied_changes_
          /\ \A t \in Txns : t # txns => acked'[t] = acked[t]
      BY <1>3, <2>1 DEF applySucceeds, TypeOK
    <2>3. \A t \in committed : acked'[t] = acked[t]
      BY <2>1, <2>2, Zenon DEF CopyInv, TypeOK
    <2>4. {acked'[t] : t \in committed} = {acked[t] : t \in committed}
      BY <2>3
    <2>5. CommittedExactly'
      BY <2>1, <2>4, Zenon DEF CopyInv, CommittedExactly
    <2> QED
      BY SMTT(20), <2>1, <2>2, <2>5 DEF CopyInv
  <1>4. ASSUME UNCHANGED <<global, txns, acked, committed>>,
               new_state_' = new_state_ \/ new_state_' = None,
               token_' = token_ \/ token_' = 0
        PROVE  CopyInv'
    BY <1>4 DEF CopyInv, CommittedExactly
  <1>5. ASSUME NEW t \in 1..txns,
               txn_rollback(t) \/ \E c \in Changes : txn_apply(t, c)
        PROVE  CopyInv'
    BY <1>4, <1>5 DEF txn_rollback, txn_apply, ClearState
  <1>6. CASE applyFails
    BY <1>4, <1>6 DEF applyFails, ClearState
  <1>7. ASSUME NEW m \in Txns, TxnMonitor(m) PROVE CopyInv'
    BY <1>4, <1>7 DEF TxnMonitor, monitorInterrupted, monitorCaught, monitorExpires,
      monitorRollback, monitorRollbackFails, ClearState, InterruptMonitor
  <1>8. CASE InterruptMonitor(Admin) \/ tick \/ UNCHANGED vars
    BY <1>4, <1>8 DEF InterruptMonitor, tick, vars
  <1> QED
    BY <1>1, <1>2, <1>3, <1>5, <1>6, <1>7, <1>8 DEF Next, Request, apply

\* Commits are all or nothing: nothing but what was acknowledged in a committed
\* transaction ever reaches the global state, and all of it does.
THEOREM CommitsExact == Spec => []CommittedExactly
  <1>1. Init => CopyInv
    BY DEF Init, CopyInv, CommittedExactly, INVALID_TOKEN, Txns
  <1> QED
    BY <1>1, InvAlways, CopyInvStep, PTL DEF Spec, CopyInv
-----------------------------------------------------------------------------

\* txn_apply() performs one action.
AppliedOne == method.at = "apply" => \E c \in Changes : unapplied_changes_ = {c}

\* Every step keeps the change log of txn_apply() at one action.
LEMMA AppliedOneStep == AppliedOne /\ [Next]_vars => AppliedOne'
  <1> SUFFICES ASSUME AppliedOne, [Next]_vars PROVE AppliedOne'
    OBVIOUS
  <1>1. ASSUME NEW t \in 1..txns, NEW c \in Changes, txn_apply(t, c) PROVE AppliedOne'
    BY <1>1 DEF txn_apply, AppliedOne
  <1>2. ASSUME method'.at # "apply" PROVE AppliedOne'
    BY <1>2 DEF AppliedOne
  <1>3. ASSUME UNCHANGED <<method, unapplied_changes_>> PROVE AppliedOne'
    BY <1>3 DEF AppliedOne
  <1>4. ASSUME NEW t \in 1..txns, txn_commit(t) \/ txn_rollback(t) PROVE AppliedOne'
    BY SMTT(20), <1>2, <1>4 DEF txn_commit, txn_rollback, ClearState
  <1>5. CASE apply
    BY SMTT(20), <1>2, <1>5 DEF apply, applySucceeds, applyFails, ClearState, Free
  <1>6. ASSUME NEW b, InterruptMonitor(b) PROVE AppliedOne'
    BY <1>2, <1>6 DEF InterruptMonitor, Free
  <1>7. ASSUME NEW m \in Txns, TxnMonitor(m) PROVE AppliedOne'
    BY SMTT(20), <1>2, <1>3, <1>6, <1>7 DEF TxnMonitor, monitorInterrupted, monitorCaught,
      monitorExpires, monitorRollback, monitorRollbackFails, ClearState
  <1>8. CASE txn_begin \/ tick \/ UNCHANGED vars
    BY <1>3, <1>8 DEF txn_begin, tick, vars
  <1> QED
    BY <1>1, <1>4, <1>5, <1>6, <1>7, <1>8 DEF Next, Request

\* Every step of AdminTxn is a step of AtomicTxn or leaves what its clients can
\* see alone: beginning, the end of txn_apply(), committing, and resetting the
\* token are the visible ones.
LEMMA AtomicStep ==
    TypeOK /\ TxnInv /\ CopyInv /\ AppliedOne /\ [Next]_vars
      => [Atomic!Next]_<<global, Pending>>
  <1> SUFFICES ASSUME TypeOK, TxnInv, CopyInv, AppliedOne, [Next]_vars
               PROVE  [Atomic!Next]_<<global, Pending>>
    OBVIOUS
  <1> USE MaxTxnsAssumption, NoneAssumption DEF INVALID_TOKEN, Txns
  <1>1. token_ # 0 => /\ token_ = txns /\ txns \in Txns
                      /\ Pending = acked[txns] /\ Pending # None
    BY SMTT(20) DEF TypeOK, TxnInv, LatestTxn, Pending
  <1>2. CASE txn_begin
    <2>1. /\ token_ = 0 /\ token_' = txns + 1 /\ txns' = txns + 1
          /\ acked' = acked /\ global' = global /\ txns \in Nat
          /\ txns + 1 \in Txns /\ txns + 1 > txns
      BY SMTT(20), <1>2 DEF txn_begin, generate_token, TypeOK
    <2>2. acked[txns + 1] = {}
      BY <2>1 DEF CopyInv
    <2>3. Pending = None /\ Pending' = {}
      BY SMTT(20), <2>1, <2>2 DEF Pending
    <2> QED
      BY <2>1, <2>3 DEF Atomic!Next, Atomic!Begin
  <1>3. ASSUME NEW t \in 1..txns, txn_commit(t) PROVE Atomic!Next
    <2>1. /\ token_ # 0 /\ new_state_ # None /\ unapplied_changes_ = {}
      BY <1>3 DEF txn_commit, check_txn_token, TxnInv, StateByMethod, TxnStateCoherent
    <2>2. global' = global \cup acked[txns] /\ token_' = 0
      BY <1>3, <2>1 DEF txn_commit, ClearState, CopyInv
    <2>3. Pending' = None
      BY <2>2 DEF Pending
    <2> QED
      BY <1>1, <2>1, <2>2, <2>3 DEF Atomic!Next, Atomic!Commit
  <1>4. ASSUME token_ # 0, token_' = 0, global' = global PROVE Atomic!Next
    <2>1. Pending' = None
      BY <1>4 DEF Pending
    <2> QED
      BY <1>1, <1>4, <2>1 DEF Atomic!Next, Atomic!Abort
  <1>5. ASSUME NEW t \in 1..txns, txn_rollback(t) PROVE Atomic!Next
    BY <1>4, <1>5 DEF txn_rollback, check_txn_token, ClearState
  <1>6. CASE applyFails
    BY <1>4, <1>6 DEF applyFails, ClearState, TxnInv, StateByMethod
  <1>7. CASE applySucceeds
    <2>1. /\ token_ # 0 /\ token_' = token_ /\ txns' = txns /\ global' = global
      BY <1>7 DEF applySucceeds, TxnInv, StateByMethod
    <2>2. PICK c \in Changes : unapplied_changes_ = {c}
      BY <1>7 DEF applySucceeds, AppliedOne
    <2>3. acked'[txns] = acked[txns] \cup {c}
      BY <1>1, <1>7, <2>1, <2>2 DEF applySucceeds, TypeOK
    <2>4. Pending' = Pending \cup {c}
      BY <1>1, <2>1, <2>3 DEF Pending
    <2> QED
      BY <1>1, <2>1, <2>4 DEF Atomic!Next, Atomic!Apply
  <1>8. ASSUME UNCHANGED <<global, token_, txns, acked>>
        PROVE  UNCHANGED <<global, Pending>>
    BY <1>8 DEF Pending
  <1>9. ASSUME NEW t \in 1..txns, NEW c \in Changes, txn_apply(t, c)
        PROVE  UNCHANGED <<global, Pending>>
    BY <1>8, <1>9, Zenon DEF txn_apply
  <1>10. ASSUME NEW b, InterruptMonitor(b) PROVE UNCHANGED <<global, Pending>>
    BY <1>8, <1>10 DEF InterruptMonitor
  <1>11. ASSUME NEW m \in Txns, TxnMonitor(m)
         PROVE  Atomic!Next \/ UNCHANGED <<global, Pending>>
    <2>1. CASE monitorRollback(m)
      BY <1>4, <2>1 DEF monitorRollback, check_txn_token, ClearState
    <2>2. CASE ~monitorRollback(m)
      BY <1>8, <1>10, <1>11, <2>2 DEF TxnMonitor, monitorInterrupted, monitorCaught,
        monitorExpires, monitorRollbackFails
    <2> QED
      BY <2>1, <2>2
  <1>12. CASE tick \/ UNCHANGED vars
    BY <1>8, <1>12 DEF tick, vars
  <1> QED
    BY <1>2, <1>3, <1>5, <1>6, <1>7, <1>9, <1>10, <1>11, <1>12 DEF Next, Request, apply

\* AdminTxn implements AtomicTxn, for any number of transactions, any set of
\* changes and any timeout: clients of AdminState cannot tell it from a store that
\* commits a transaction's acknowledged changes in one step or not at all.
THEOREM ImplementsAtomic == Spec => ImplementsAtomicTxn
  <1>1. Init => CopyInv /\ AppliedOne
    BY SMTT(20) DEF Init, CopyInv, AppliedOne, CommittedExactly, INVALID_TOKEN, Txns, Free
  <1>2. Init => Atomic!Init
    BY DEF Init, Atomic!Init, Pending
  <1> QED
    BY <1>1, <1>2, InvAlways, CopyInvStep, AppliedOneStep, AtomicStep, PTL
    DEF Spec, ImplementsAtomicTxn, Atomic!Spec

-----------------------------------------------------------------------------
(* The queue of the jobs of views, and its workers: JobQueue. *)

\* A worker leaves its loop only after stop(), and start() spawns all the
\* workers together.  NoLostWakeup needs both: an exited or unborn worker
\* would not watch the queue.
ExitOnlyAfterStop == \A w \in Workers : pc[w] = "exit" => is_stopping_

AllSpawned ==
    \A v, w \in Workers : pc[v] = "new" => pc[w] = "new"

PoolInv == ExitOnlyAfterStop /\ AllSpawned /\ NoLostWakeup /\ NoSleeperAfterStop

\* The types of what enqueue() computes: it adds nothing but the job it was
\* given to the queue.
LEMMA SetInsertType ==
    ASSUME NEW S, NEW j, NEW T, S \subseteq T, j \in T
    PROVE  SetInsert(S, j) \subseteq T
  BY DEF SetInsert

\* enqueue() with the workers at p keeps the queue a set of jobs and only ever
\* moves one worker, from a wait to the top of the loop of dequeue().
LEMMA EnqueueEffect ==
    ASSUME QueueTypeOK, NEW j \in Job, NEW p \in [Workers -> WorkerPC], enqueue(j, p)
    PROVE  /\ queue_' \subseteq Job
           /\ \/ queue_' = queue_ /\ pc' = p
              \/ Waiters(p) = {} /\ pc' = p
              \/ \E w \in Waiters(p) : pc' = [p EXCEPT ![w] = "dequeue"]
  <1>1. CASE DropsNew(j) /\ queue_' = queue_ /\ pc' = p
    BY <1>1 DEF QueueTypeOK
  <1>2. CASE /\ queue_' = SetInsert(queue_ \ FirstDuplicate(j), j)
             /\ NotifyOne(p)
    <2>1. queue_ \ FirstDuplicate(j) \subseteq Job
      BY DEF QueueTypeOK
    <2>2. queue_' \subseteq Job
      BY <1>2, <2>1, SetInsertType
    <2> QED
      BY <1>2, <2>2 DEF NotifyOne
  <1> QED
    BY <1>1, <1>2 DEF enqueue

\* on_update() hands enqueue() a well-formed job.
LEMMA OnUpdateJob ==
    ASSUME QueueTypeOK, NEW n \in Names, NEW i \in Intervals, NEW t \in 0..now
    PROVE  [name |-> n, deadline |-> t + i] \in Job
  BY SMTT(20), WorkersAssumption, IntervalsAssumption, NoJobAssumption DEF QueueTypeOK, Job

\* So does reschedule().
LEMMA RescheduleJob ==
    ASSUME QueueTypeOK, NEW w \in Workers, NEW i \in Intervals, pc[w] = "run",
           NEW t \in job[w].deadline..now
    PROVE  [name |-> job[w].name, deadline |-> t + i] \in Job
  <1>1. job[w] \in Job
    BY DEF QueueTypeOK
  <1> QED
    BY SMTT(20), <1>1, WorkersAssumption, IntervalsAssumption, NoJobAssumption DEF Job, QueueTypeOK

\* Type correctness of the pool.  The last conjunct about pc and job says that
\* a worker holds a job exactly while it is inside Job::run().
THEOREM QueueTypeCorrect ==
    QueueSpec => []QueueTypeOK
  <1>1. QueueInit => QueueTypeOK
    <2> SUFFICES ASSUME QueueInit PROVE QueueTypeOK
      OBVIOUS
    <2>1. \A w \in Workers : pc[w] \in {"run", "return"} <=> job[w] # NoJob
      BY DEF QueueInit
    <2> QED
      BY <2>1, Zenon DEF QueueInit, QueueTypeOK, WorkerPC
  <1>2. QueueTypeOK /\ [QueueNext]_queueVars => QueueTypeOK'
    <2> SUFFICES ASSUME QueueTypeOK, [QueueNext]_queueVars PROVE QueueTypeOK'
      OBVIOUS
    <2> USE DEF QueueTypeOK, WorkerPC
    <2>1. CASE start
      BY <2>1 DEF start
    <2>2. ASSUME NEW n \in Names, NEW i \in Intervals, on_update(n, i)
          PROVE  QueueTypeOK'
      <3>1. PICK t \in 0..now : enqueue([name |-> n, deadline |-> t + i], pc)
        BY <2>2 DEF on_update
      <3>2. [name |-> n, deadline |-> t + i] \in Job
        BY OnUpdateJob
      <3>3. /\ queue_' \subseteq Job
            /\ pc' = pc \/ \E w \in Waiters(pc) : pc' = [pc EXCEPT ![w] = "dequeue"]
        BY <3>1, <3>2, EnqueueEffect
      <3> QED
        BY <2>2, <3>3 DEF on_update, Waiters
    <2>3. ASSUME NEW w \in Workers, dequeue(w) PROVE QueueTypeOK'
      <3>1. CASE dequeueStop(w)
        BY <3>1 DEF dequeueStop
      <3>2. CASE dequeueWait(w)
        BY <3>2 DEF dequeueWait
      <3>3. CASE dequeueTimedWait(w)
        BY <3>3 DEF dequeueTimedWait, Job
      <3>4. CASE dequeueJob(w)
        BY SMTT(20), <3>4, WorkersAssumption, IntervalsAssumption, NoJobAssumption DEF dequeueJob
      <3> QED
        BY <2>3, <3>1, <3>2, <3>3, <3>4 DEF dequeue
    <2>4. ASSUME NEW w \in Workers, timedOut(w) \/ spuriousWakeup(w) PROVE QueueTypeOK'
      BY <2>4 DEF timedOut, spuriousWakeup, Waiters
    <2>5. ASSUME NEW w \in Workers, finishJob(w) \/ returnJob(w) PROVE QueueTypeOK'
      BY <2>5, WorkersAssumption, IntervalsAssumption, NoJobAssumption DEF finishJob, returnJob
    <2>6. ASSUME NEW w \in Workers, NEW i \in Intervals, reschedule(w, i)
          PROVE  QueueTypeOK'
      <3> DEFINE p == [pc EXCEPT ![w] = "return"]
      <3>1. PICK t \in job[w].deadline..now :
              enqueue([name |-> job[w].name, deadline |-> t + i], p)
        BY <2>6 DEF reschedule
      <3>2. [name |-> job[w].name, deadline |-> t + i] \in Job
        BY <2>6, RescheduleJob DEF reschedule
      <3>3. p \in [Workers -> WorkerPC]
        OBVIOUS
      <3>4. /\ queue_' \subseteq Job
            /\ pc' = p \/ \E v \in Waiters(p) : pc' = [p EXCEPT ![v] = "dequeue"]
        BY <3>1, <3>2, <3>3, EnqueueEffect, Zenon
      <3> QED
        BY <2>6, <3>4 DEF reschedule, Waiters
    <2>7. CASE stop
      BY <2>7 DEF stop, Waiters
    <2>8. CASE clock
      BY SMTT(20), <2>8 DEF clock
    <2>9. CASE UNCHANGED queueVars
      BY <2>9 DEF queueVars
    <2> QED
      BY <2>1, <2>2, <2>3, <2>4, <2>5, <2>6, <2>7, <2>8, <2>9 DEF QueueNext, run
  <1> QED
    BY <1>1, <1>2, PTL DEF QueueSpec

\* The wake-ups of the pool are never lost: while jobs are queued, a worker is
\* awake or sleeps no longer than the earliest deadline (NoLostWakeup), and
\* after stop() none sleeps at all (NoSleeperAfterStop).
LEMMA PoolInvStep == QueueTypeOK /\ PoolInv /\ [QueueNext]_queueVars => PoolInv'
  <1> SUFFICES ASSUME QueueTypeOK, PoolInv, [QueueNext]_queueVars PROVE PoolInv'
    OBVIOUS
  <1> USE DEF QueueTypeOK, PoolInv, ExitOnlyAfterStop, AllSpawned, NoSleeperAfterStop,
              WorkerPC
  <1>1. CASE start
    <2>1. PICK w \in Workers : TRUE
      BY WorkersAssumption, IntervalsAssumption, NoJobAssumption
    <2>2. pc'[w] = "dequeue"
      BY <1>1 DEF start
    <2> QED
      BY <1>1, <2>2 DEF start, NoLostWakeup, Watching, Waiters
  <1>2. ASSUME NEW n \in Names, NEW i \in Intervals, on_update(n, i)
        PROVE  PoolInv'
    <2>1. PICK t \in 0..now : enqueue([name |-> n, deadline |-> t + i], pc)
      BY <1>2 DEF on_update
    <2>2. [name |-> n, deadline |-> t + i] \in Job
      BY OnUpdateJob
    <2>3. \/ queue_' = queue_ /\ pc' = pc
          \/ Waiters(pc) = {} /\ pc' = pc
          \/ \E w \in Waiters(pc) : pc' = [pc EXCEPT ![w] = "dequeue"]
      BY <2>1, <2>2, EnqueueEffect
    <2>4. is_stopping_' = is_stopping_ /\ until' = until
      BY <1>2 DEF on_update
    <2>5. CASE queue_' = queue_ /\ pc' = pc
      BY <2>4, <2>5 DEF NoLostWakeup, Watching, Waiters
    <2>6. CASE Waiters(pc) = {} /\ pc' = pc
      <3>1. PICK w \in Workers : TRUE
        BY WorkersAssumption, IntervalsAssumption, NoJobAssumption
      <3>2. ~is_stopping_ /\ pc[w] # "new" => Watching(w)'
        BY <2>4, <2>6 DEF Watching, Waiters
      <3> QED
        BY <2>4, <2>6, <3>2 DEF NoLostWakeup, Waiters
    <2>7. CASE \E w \in Waiters(pc) : pc' = [pc EXCEPT ![w] = "dequeue"]
      BY SMTT(20), <2>4, <2>7 DEF NoLostWakeup, Watching, Waiters
    <2> QED
      BY <2>3, <2>5, <2>6, <2>7
  <1>3. ASSUME NEW w \in Workers, dequeue(w) PROVE PoolInv'
    <2>1. CASE dequeueStop(w)
      BY <1>3, <2>1 DEF dequeueStop, NoLostWakeup, Waiters
    <2>2. CASE dequeueWait(w)
      BY <2>2 DEF dequeueWait, NoLostWakeup, Waiters
    <2>3. CASE dequeueTimedWait(w)
      <3>1. pc' = [pc EXCEPT ![w] = "timed"] /\ queue_' = queue_
        BY <2>3 DEF dequeueTimedWait
      <3>2. \A j \in queue_ : until'[w] <= j.deadline
        BY <2>3 DEF dequeueTimedWait, FirstJob
      <3>3. Watching(w)'
        BY <3>1, <3>2 DEF Watching
      <3> QED
        BY <2>3, <3>3 DEF dequeueTimedWait, NoLostWakeup, Waiters
    <2>4. CASE dequeueJob(w)
      BY <2>4 DEF dequeueJob, NoLostWakeup, Watching, Waiters
    <2> QED
      BY <1>3, <2>1, <2>2, <2>3, <2>4 DEF dequeue
  <1>4. ASSUME NEW w \in Workers, timedOut(w) \/ spuriousWakeup(w) PROVE PoolInv'
    BY SMTT(20), <1>4
       DEF timedOut, spuriousWakeup, NoLostWakeup, Watching, Waiters
  <1>5. ASSUME NEW w \in Workers, finishJob(w) \/ returnJob(w) PROVE PoolInv'
    BY SMTT(20), <1>5
       DEF finishJob, returnJob, NoLostWakeup, Watching, Waiters
  <1>6. ASSUME NEW w \in Workers, NEW i \in Intervals, reschedule(w, i)
        PROVE  PoolInv'
    <2> DEFINE p == [pc EXCEPT ![w] = "return"]
    <2>1. PICK t \in job[w].deadline..now :
            enqueue([name |-> job[w].name, deadline |-> t + i], p)
      BY <1>6 DEF reschedule
    <2>2. [name |-> job[w].name, deadline |-> t + i] \in Job
      BY <1>6, RescheduleJob DEF reschedule
    <2>3. pc' = p \/ \E v \in Waiters(p) : pc' = [p EXCEPT ![v] = "dequeue"]
      BY <2>1, <2>2, EnqueueEffect, Zenon
    <2>4. pc'[w] = "return" /\ pc[w] = "run"
      BY <1>6, <2>3 DEF reschedule, Waiters
    <2> QED
      BY SMTT(20), <1>6, <2>3, <2>4
         DEF reschedule, NoLostWakeup, Watching, Waiters
  <1>7. CASE stop
    BY <1>7 DEF stop, NoLostWakeup, Waiters
  <1>8. CASE clock
    BY <1>8 DEF clock, NoLostWakeup, Watching, Waiters
  <1>9. CASE UNCHANGED queueVars
    BY <1>9 DEF queueVars, NoLostWakeup, Watching, Waiters
  <1> QED
    BY <1>1, <1>2, <1>3, <1>4, <1>5, <1>6, <1>7, <1>8, <1>9, Zenon DEF QueueNext, run

\* Initially no worker is spawned and the queue is empty.
LEMMA PoolInvInit == QueueInit => PoolInv
  BY DEF QueueInit, PoolInv, ExitOnlyAfterStop, AllSpawned, NoSleeperAfterStop,
         NoLostWakeup, Waiters

\* While jobs are queued in a running pool, some worker watches for the
\* earliest of them (the hand-off between JobQueue::enqueue and dequeue).
THEOREM WakeupsNotLost ==
    QueueSpec => []NoLostWakeup
  BY QueueTypeCorrect, PoolInvInit, PoolInvStep, PTL DEF QueueSpec, PoolInv

\* JobQueue::stop leaves no worker asleep.
THEOREM StopWakesAll ==
    QueueSpec => []NoSleeperAfterStop
  BY QueueTypeCorrect, PoolInvInit, PoolInvStep, PTL DEF QueueSpec, PoolInv
\* The scan of enqueue() stops at the first equal job.  If there was at most one
\* per view before the call, there is at most one after it.
LEMMA EnqueueKeepsOnePerView ==
    ASSUME QueueTypeOK, OneJobPerView, NEW j \in Job, NEW p, enqueue(j, p)
    PROVE  OneJobPerView'
  <1>1. CASE queue_' = queue_
    BY <1>1 DEF OneJobPerView
  <1>2. CASE /\ queue_' = SetInsert(queue_ \ FirstDuplicate(j), j)
    <2>1. ASSUME NEW k \in queue_, k.name = j.name
          PROVE  k \in FirstDuplicate(j)
      <3>1. k.deadline \in Nat
        BY DEF QueueTypeOK, Job
      <3>2. \A m \in queue_ : m.name = j.name => m = k
        BY <2>1 DEF OneJobPerView
      <3> QED
        BY SMTT(20), <2>1, <3>1, <3>2 DEF FirstDuplicate
    <2>2. \A k \in queue_ \ FirstDuplicate(j) : k.name # j.name
      BY <2>1
    <2> QED
      BY <1>2, <2>2 DEF OneJobPerView, SetInsert
  <1> QED
    BY <1>1, <1>2 DEF enqueue

\* The queue never holds two jobs for one view, whoever calls enqueue().
THEOREM OneJobPerViewAlways ==
    QueueSpec => []OneJobPerView
  <1>1. QueueInit => OneJobPerView
    BY DEF QueueInit, OneJobPerView
  <1>2. QueueTypeOK /\ OneJobPerView /\ [QueueNext]_queueVars => OneJobPerView'
    <2> SUFFICES ASSUME QueueTypeOK, OneJobPerView, [QueueNext]_queueVars PROVE OneJobPerView'
      OBVIOUS
    <2>1. ASSUME NEW n \in Names, NEW i \in Intervals, on_update(n, i)
          PROVE  OneJobPerView'
      BY <2>1, OnUpdateJob, EnqueueKeepsOnePerView DEF on_update
    <2>2. ASSUME NEW w \in Workers, NEW i \in Intervals, reschedule(w, i)
          PROVE  OneJobPerView'
      <3>1. PICK t \in job[w].deadline..now :
              enqueue([name |-> job[w].name, deadline |-> t + i],
                      [pc EXCEPT ![w] = "return"])
        BY <2>2 DEF reschedule
      <3>2. [name |-> job[w].name, deadline |-> t + i] \in Job
        BY <2>2, RescheduleJob DEF reschedule
      <3> QED
        BY <3>1, <3>2, EnqueueKeepsOnePerView
    <2>3. ASSUME queue_' \subseteq queue_ PROVE OneJobPerView'
      BY <2>3 DEF OneJobPerView
    <2>4. ASSUME NEW w \in Workers, dequeue(w) PROVE queue_' \subseteq queue_
      BY <2>4
         DEF dequeue, dequeueStop, dequeueWait, dequeueTimedWait,
             dequeueJob
    <2>5. ASSUME NEW w \in Workers,
                 timedOut(w) \/ spuriousWakeup(w) \/ finishJob(w) \/ returnJob(w)
          PROVE  queue_' \subseteq queue_
      BY <2>5 DEF timedOut, spuriousWakeup, finishJob, returnJob
    <2>6. start \/ stop \/ clock \/ UNCHANGED queueVars => queue_' \subseteq queue_
      BY DEF start, stop, clock, queueVars
    <2> QED
      BY <2>1, <2>2, <2>3, <2>4, <2>5, <2>6 DEF QueueNext, run
  <1> QED
    BY <1>1, <1>2, QueueTypeCorrect, PTL DEF QueueSpec
=============================================================================
