SPECIFICATION AuthSpec
CONSTANTS
    Tokens = {k1, k2, k3, k4, k5}
    NoToken = NoToken
    TTL = 5
    Grace = 2
    Interval = 2
    MaxTime = 11
    MaxOutages = 2
    MaxReads = 1
    MaxEdits = 1
    MaxQuits = 1
SYMMETRY Symmetry
INVARIANTS
    PromiseKept
    NoOverstay
    FileTokenWorks
PROPERTIES
    NoUnsavedRotation
CHECK_DEADLOCK FALSE
