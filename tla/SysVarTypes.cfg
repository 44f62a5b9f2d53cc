SPECIFICATION Spec
CONSTANTS
    Calls = {c1, c2, c3}
    Types = {bool, string}
    Scripted = {string}
    None = None
    MaxFaults = 1
    MaxForeign = 1
SYMMETRY Symmetry
INVARIANTS
    CacheOutlivesNoChange
    SuccessIsReal
    NoPhantom
CHECK_DEADLOCK FALSE
