SPECIFICATION Spec
CONSTANTS
    Infinite = 1000
    a = a
    b = b
    x = x
    n = n
    ab = ab
    ba = ba
    bx = bx
    p1 = p1
    p2 = p2
    Files <- MCFiles
    Commands <- MCCommands
    MaxCommands = 3
    MaxLosses = 1
INVARIANTS ConfigAligned OnlyCutCommandsKill 
PROPERTIES LoadIsAtomic
CHECK_DEADLOCK FALSE
