SPECIFICATION AuthSpec
CONSTANTS
    Tokens = {k1, k2, k3, k4}
    NoToken = NoToken
    TTL = 5
    Grace = 2
    Interval = 2
    MaxTime = 10
    MaxOutages = 0
    MaxReads = 1
    MaxEdits = 0
    MaxQuits = 0
SYMMETRY Symmetry
INVARIANTS
    NobodyCutOff
CHECK_DEADLOCK FALSE
