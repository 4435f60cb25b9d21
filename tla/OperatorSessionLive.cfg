SPECIFICATION FairSpec
CONSTANTS
    p1 = p1
    p2 = p2
    th = th
    th2 = th2
    t1 = t1
    t2 = t2
    c1 = c1
    m1 = m1
    m2 = m2
    w1 = w1
    ask = ask
    other = other
    None = None
    Procs <- MCProcs
    Threads <- MCTwoThreads
    Turns <- MCOneTurn
    ThreadOf <- MCOneThreadOf
    Calls = {c1}
    Prompts = {ask}
    Models = {m1}
    Works = {w1}
    Requests <- MCWorkRequests
    Imported = {}
    MaxFaults = 1
INVARIANTS  WorkScopeLinked
PROPERTY LocksAreReleased
