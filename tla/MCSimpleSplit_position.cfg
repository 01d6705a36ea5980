SPECIFICATION Spec
CONSTANTS
    ChunkSize = 5
    Overlaps = {2}
    MinChunk = 1
    Lookback = 3
    MaxLen = 8
INVARIANT PositionIsReal
CHECK_DEADLOCK FALSE
