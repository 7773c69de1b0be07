SPECIFICATION FairSpec
CONSTANTS
    Names = {"DEFAULT", "v"}
    DEFAULT_VIEW_NAME = "DEFAULT"
    MAX_VIEWS = 2
    Objects = {o1, o2, o3}
    Intervals = {0, 1}
    DefaultInterval = 1
    Workers = {w1}
    NULL = NULL
PROPERTIES DeletedViewJobEnds
INVARIANTS RegistrySound
PROPERTIES OnlyCommitPublishes
