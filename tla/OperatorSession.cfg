SPECIFICATION Spec
CONSTANTS
    p1 = p1
    p2 = p2
    th = th
    th2 = th2
    t1 = t1
    t2 = t2
    c1 = c1
    m1 = m1
    m2 = m2
    w1 = w1
    ask = ask
    other = other
    None = None
    Procs <- MCProcs
    Threads <- MCThreads
    Turns <- MCTurns
    ThreadOf <- MCThreadOf
    Calls = {}
    Prompts = {ask, other}
    Models = {m1, m2}
    Works = {}
    Requests <- MCRequests
    Imported = {t2}
    MaxFaults = 2
SYMMETRY MCSymmetry
INVARIANTS AdmittedOnce DecisionStillValid RecoveryIsAlone RecoveryCoversOpenTurns
PROPERTIES TurnHistoryIsStable ImplementsLedger
