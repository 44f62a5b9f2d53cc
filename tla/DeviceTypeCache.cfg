SPECIFICATION Spec
CONSTANTS
    Types = {t1, t2}
    Callers = {c1, c2}
    Workers = {w1, w2}
    None = None
    Foreign = Foreign
    Requests = 2
    TTL = 0
    IsDefault = TRUE
    MaxTime = 1
    MaxDisk = 1
    MaxQuits = 1
SYMMETRY Symmetry
INVARIANTS
    OneQueryPerType
    WarmingIsHonest
    NoSaveIsLost
PROPERTIES
    FileForgetsNothing
CHECK_DEADLOCK FALSE
