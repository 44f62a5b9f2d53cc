SPECIFICATION Spec
CONSTANTS
    Targets = {dev, prod, archive}
    Default = dev
    Protected = {prod, archive}
    ReadOnly = {archive}
    Sessions = {s1, s2}
    Calls = {c1, c2}
    Tools = {"unknown", "delete", "assign", "script", "acknowledge"}
    None = None
    MaxRetries = 1
    MaxFaults = 2
SYMMETRY Symmetry
INVARIANTS
    OnlyAuthorisedWrites
    WritesStayOnTarget
    FiresAtMostOnce
    AnswersAreTrue
CHECK_DEADLOCK FALSE
