\* Two rows, one crash, one replacement.
CONSTANTS
    a = a  b = b
    Events <- MCEvents
    Foreign = {}
    Size <- MCSize
    Readers = {r1}
    Chunk = 9
    MaxCorrupt = 1
    MaxFaults = 1
    MaxReplaced = 1
    PageSize = 2
    None = None
SPECIFICATION FairSpec
INVARIANTS
    ViewIsPrefix
PROPERTY ViewCatchesUp
