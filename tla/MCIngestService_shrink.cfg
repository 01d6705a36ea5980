SPECIFICATION FairSpec
CONSTANTS
    Workers = {w1}
    Deleters = {}
    Sources = {"s1"}
    Contents <- MCContents
    text1 = text1
    text2 = text2
    text3 = text3
    Texts = {text1, text2, text3}
    ChunksOf <- MCChunksOf
    Submissions <- OneSource
    NoTask = NoTask
    MaxRetries = 1
    MaxTasks = 2
    MaxCrashes = 0
    MaxErrors = 0
    Lossy = FALSE
PROPERTIES SuccessfulIngestBumps
CHECK_DEADLOCK FALSE
