SPECIFICATION Spec
CONSTANTS
    Callers = {c1, c2}
    Unprivileged = {c2}
    Flights = {f1, f2}
    Handles = {h1, h2}
    Main = main
    Sids = {s1, s2}
    None = None
    LOGIN_MAX_RETRIES = 1
    MaxFaults = 1
    MaxRestarts = 0
SYMMETRY Symmetry
INVARIANTS
    SingleFlight
    OneRenewalTimer
    RenewalAlive
    LoggedOut
    RunsAtMostOnce
PROPERTIES
    DenialsAreTrue
