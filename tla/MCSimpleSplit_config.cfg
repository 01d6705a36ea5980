SPECIFICATION Spec
CONSTANTS
    ChunkSize = 5
    Overlaps = {4}
    MinChunk = 1
    Lookback = 3
    MaxLen = 8
PROPERTY AlwaysAdvances
CHECK_DEADLOCK FALSE
