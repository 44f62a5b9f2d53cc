SPECIFICATION Spec
CONSTANTS
    Targets = {prod, dev}
    Default = prod
    Callers = {c1, c2}
    Interfaces = {hmip, bidcos}
    None = None
    Unread = Unread
    CACHE_MS = 1
    MaxActs = 3
    MaxChanges = 1
SYMMETRY Symmetry
INVARIANTS
    NotFoundIsHonest
    AnswersOfOneTarget
CHECK_DEADLOCK FALSE
