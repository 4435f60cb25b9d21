SPECIFICATION FairSpec
CONSTANTS
    c1 = c1
    s1 = s1
    s2 = s2
    t1 = t1
    None = None
    Conns <- MCConns
    Sessions <- MCSessions
    Tasks <- MCTasks
    MaxConcurrency = 1
    MaxQueue = 1
    MaxLost = 1
    MaxCrashes = 2
INVARIANTS
    
    OneReceipt
PROPERTIES
    
    LeaseEndsWithSocket
CHECK_DEADLOCK FALSE
