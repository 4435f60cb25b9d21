SPECIFICATION MCSpec
CONSTANTS
    w1 = w1
    w2 = w2
    a1 = a1
    a2 = a2
    r1 = r1
    r2 = r2
    Works <- MCWorks
    Leases <- MCLeases
    Runs <- MCOneRun
    None = None
    MaxFaults = 2
    MaxDeaths = 1
    MaxRestarts = 1
INVARIANTS
    OneHolder
    
    ChildIsKnown
    HealthyIsNotStale
    PaneShowsEnd
PROPERTIES
    MarkerIsHonest
    
CHECK_DEADLOCK FALSE
