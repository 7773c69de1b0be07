SPECIFICATION Spec
CONSTANTS
    Infinite = 1000
    a = a
    b = b
    x = x
    n = n
    ab = ab
    ba = ba
    bx = bx
    p1 = p1
    p2 = p2
    Files = {}
    Commands <- MCManual
    MaxCommands = 4
    MaxLosses = 0
PROPERTIES LinksPersist
CHECK_DEADLOCK FALSE
