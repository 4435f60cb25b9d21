SPECIFICATION FairSpec
CONSTANTS
    th = th
    t1 = t1
    c1 = c1
    c2 = c2
    None = None
    Threads = {th}
    Turns <- MCOneTurn
    ThreadOf <- MCOneThreadOf
    Calls <- MCCalls
    Prompts = {}
    Models = {}
    Works = {}
    MaxAttempts = 2
    MaxFaults = 2
INVARIANTS ReleasedIsAccountedFor WorkingTurnIsOpen CompletedIsSettled UncancelledTurnIsExact
PROPERTIES EffectsFollowEvidence SignalledTurnIsReleased
CHECK_DEADLOCK FALSE
