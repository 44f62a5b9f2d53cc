SPECIFICATION Spec
CONSTANTS
    Hosts = {prodBox, devBox}
    Https = {prodBox}
    Open = {devBox}
    Names = {default, prod}
    Default = default
    Flat = flat
    Gates = {}
    Terminals = {t1, t2}
    None = None
    Empty = Empty
    MaxActs = 3
    MaxRenewals = 1
SYMMETRY Symmetry
INVARIANTS
    NoForeignSecret
    UpIsDecided
    OnlyPasswordsMissing
    GreenMeansLogin
PROPERTIES
    SecretsStay
CHECK_DEADLOCK FALSE
