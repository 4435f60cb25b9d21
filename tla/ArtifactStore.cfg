SPECIFICATION StoreFairSpec
CONSTANTS
    p1 = p1
    a1 = a1
    a2 = a2
    None = None
    Procs <- MCOneProc
    Artifacts <- MCArtifacts
    MaxFaults = 2
    MaxCrashes = 2
INVARIANTS  ReconcileCleansUp
PROPERTIES LeftoversGo
CHECK_DEADLOCK FALSE
