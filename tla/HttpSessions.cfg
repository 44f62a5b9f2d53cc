SPECIFICATION FairSpec
CONSTANTS
    Targets = {prod, dev}
    Default = prod
    rooms = rooms
    Pollable <- OneResource
    None = None
    MaxChanges = 1
    MaxFaults = 1
    Sids = {s1, s2}
    Stdio = s1
    Requests = {r1, r2}
    MAX_SESSIONS = 1
    SESSION_IDLE = 1
    MaxCall = 1
INVARIANTS
    OverrunOnlyByRaces
PROPERTIES
    EvictedOnlyIdle
    NoSpuriousUpdate
    IdleIsReclaimed
    ChangesAreTold
CHECK_DEADLOCK FALSE
