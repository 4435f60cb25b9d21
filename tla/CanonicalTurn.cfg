SPECIFICATION LoopFairSpec
CONSTANTS
    th = th
    t1 = t1
    t2 = t2
    None = None
    Threads = {th}
    Turns <- MCTurns
    ThreadOf <- MCThreadOf
    Calls = {}
    Prompts = {}
    Models = {}
    Works = {}
    MaxAttempts = 2
    MaxFaults = 1
INVARIANTS ClosedUnlessCancelled
PROPERTY CancelledLoopEnds
CHECK_DEADLOCK FALSE
