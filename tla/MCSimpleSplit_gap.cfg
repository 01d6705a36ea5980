SPECIFICATION Spec
CONSTANTS
    ChunkSize = 5
    Overlaps <- NegativeOverlaps
    MinChunk = 1
    Lookback = 3
    MaxLen = 8
INVARIANT AlwaysWhole
CHECK_DEADLOCK FALSE
