SPECIFICATION FairSpec
CONSTANTS
    Conns = {c1, c2}
    States = {s1, s2, s3}
    Body <- MCBody
    EntryWords = 2
    Block = 3
    LineDoc <- MCLineDoc
    JsonDocs = {2, 4}
    Handlers <- MCHandlers
    c1 = c1
    c2 = c2
    NULL = NULL
INVARIANTS PoolSound ChunkingIrrelevant StreamComplete
PROPERTIES RequestEnds
