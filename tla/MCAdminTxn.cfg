SPECIFICATION FairSpec
CONSTANTS
    Changes = {c1, c2}
    MaxTxns = 2
    Timeout = 1
    None = None
    Admin = Admin
CHECK_DEADLOCK FALSE
PROPERTIES ImplementsAtomicTxn AbandonedTxnEnds MonitorsTerminate
INVARIANTS TxnStateCoherent MonitorEndsOwnTxnOnly
