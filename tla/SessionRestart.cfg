SPECIFICATION FairSpec
CONSTANTS
    Callers = {c1}
    Unprivileged = {c1}
    Flights = {f1}
    Handles = {h1, h2}
    Main = main
    Sids = {s1, s2}
    None = None
    LOGIN_MAX_RETRIES = 1
    MaxFaults = 1
    MaxRestarts = 1
INVARIANTS
    LeaksOnlyByFaults
    SessionOfTheseCredentials
PROPERTIES
    CallsReturn
    LogoutReturns
