CONSTANTS
    ISPs = {i1}
    SelMgrs = {s1, s2}
    Options <- MCOptions
    DefaultOptions <- MCGeneric
    Matrices = {m1, m2, m3, m4, m5}
    MaxUpdates = 2
    NULL = NULL

SPECIFICATION Spec

INVARIANTS
    
    OptionsInEffect
    


SYMMETRY MCSymmetry

CHECK_DEADLOCK FALSE
