SPECIFICATION FairQueueSpec
CONSTANTS
    Names = {v1, v2}
    Workers = {w1, w2}
    Intervals = {1, 2}
    MaxTime = 2
    NoJob = NoJob
CHECK_DEADLOCK FALSE
PROPERTIES DueJobLeavesQueue StopTerminatesPool
INVARIANTS NoLostWakeup
