SPECIFICATION Spec
CONSTANTS
    w1 = w1
    w2 = w2
    a1 = a1
    a2 = a2
    r1 = r1
    r2 = r2
    Works <- MCWorks
    Leases <- MCLeases
    Runs <- MCRuns
    None = None
    MaxFaults = 0
    MaxDeaths = 0
    MaxRestarts = 1
INVARIANT OneWriter
CHECK_DEADLOCK FALSE
