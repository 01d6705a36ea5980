SPECIFICATION FairSpec
CONSTANTS
    Workers = {w1}
    Deleters = {}
    Sources = {"s1"}
    Contents <- MCContents
    text1 = text1
    text2 = text2
    text3 = text3
    Texts = {text1, text2, text3}
    ChunksOf <- MCChunksOf
    Submissions <- OneSource
    NoTask = NoTask
    MaxRetries = 1
    MaxTasks = 3
    MaxCrashes = 1
    MaxErrors = 1
    Lossy = FALSE
INVARIANTS ConsistentAtRest NoDuplicateAcrossRuns
PROPERTIES EveryTaskSettles
CHECK_DEADLOCK FALSE
