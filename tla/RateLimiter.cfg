SPECIFICATION FairSpec
CONSTANTS
    Callers = {c1, c2, c3}
    Burst = 5
    Unit = 2
    Rate = 1
    MaxQueue = 2
    MaxBack = 2
PROPERTIES
    NoOvertaking
    ImplementsBucket
    WaitersServed
