\* Three rows of this build, one of a newer one, one crash.
CONSTANTS
    a1 = a1  a2 = a2  a3 = a3  x = x  f = f
    Events <- MCEvents
    Foreign <- MCForeign
    Size <- MCSize
    Readers = {r1}
    Chunk = 9
    MaxCorrupt = 1
    MaxFaults = 1
    MaxReplaced = 0
    Thread = {a1, a2}
    PageSize = 2
    Limits = {1, 2}
    None = None
SPECIFICATION Spec
INVARIANTS
    ReplayIsExact
    AcknowledgedIsDurable
    ReadsAreNotRefused
