SPECIFICATION FairSpec
CONSTANTS
    p1 = p1
    p2 = p2
    i1 = i1
    i2 = i2
    t1 = t1
    t2 = t2
    Calls <- MCCalls
    Peers = {p1, p2}
    m_views <- MCViews
    Threads = {t1, t2}
    Maps <- MCMaps
    NoMap <- MCNoMap
    NULL = NULL
INVARIANTS IndexesAgree AddedEverywhere
PROPERTIES CallsReturn
CHECK_DEADLOCK FALSE
