SPECIFICATION FairSpec
CONSTANTS
    ChunkSize = 5
    Overlaps = {0, 1, 2, 3}
    MinChunk = 1
    Lookback = 3
    MaxLen = 12
INVARIANTS NothingLost ChunkBounded NotFoundEarlier FlushIsReal
PROPERTIES Advances Terminates
CHECK_DEADLOCK FALSE
