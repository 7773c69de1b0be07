SPECIFICATION FairSpec
CONSTANTS
    ISPs = {i1, i2}
    SelMgrs = {s1}
    TTLs = {0, 2}
    Retry <- MCRetry
    NULL = NULL
INVARIANTS TasksOfRegistered ISPsScheduled 
PROPERTIES DueTaskRuns StopReturns
