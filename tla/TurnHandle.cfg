SPECIFICATION HandleFairSpec
CONSTANTS
    DirectCap = 2
    GlobalCap = 1
    PageSize = 2
    Script <- MCScript
    MaxNoise = 1
INVARIANTS RowsAreExact TokensInOrder
PROPERTIES TaskIsReleased OriginalHearsTheEnd
CHECK_DEADLOCK FALSE
