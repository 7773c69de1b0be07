SPECIFICATION FairSpec
CONSTANTS
    Jobs = {j1}
    Readers = {r1, r2}
    Gens = {g0, g1}
    Gen0 = g0
    Contents = {m0, m1}
    Content0 = m0
PROPERTIES WaitsEnd
INVARIANTS StreamConsistent CommitOnCurrent
