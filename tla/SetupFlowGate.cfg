SPECIFICATION Spec
CONSTANTS
    Hosts = {prodBox, devBox}
    Https = {prodBox}
    Open = {devBox}
    Names = {default, prod}
    Default = default
    Flat = flat
    Gates = {TRUE}
    Terminals = {t1}
    None = None
    Empty = Empty
    MaxActs = 2
    MaxRenewals = 0
INVARIANTS
    GateIsKept
CHECK_DEADLOCK FALSE
