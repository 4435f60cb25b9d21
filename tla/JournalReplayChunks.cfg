\* The scan of a page reaches the file in several reads.
CONSTANTS
    a1 = a1  a2 = a2  a3 = a3  x = x  f = f
    Events <- MCChunkEvents
    Foreign = {}
    Size <- MCChunkSize
    Readers = {r1}
    Chunk = 1
    MaxCorrupt = 3
    MaxFaults = 1
    MaxReplaced = 0
    Thread = {a1, a2, a3}
    PageSize = 4
    Limits = {4}
    None = None
SPECIFICATION Spec
INVARIANT ReplayIsExact
