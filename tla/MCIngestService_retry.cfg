SPECIFICATION Spec
CONSTANTS
    Workers = {w1}
    Deleters = {}
    Sources = {"s1"}
    Contents <- MCContents
    text1 = text1
    text2 = text2
    text3 = text3
    Texts = {text1, text2, text3}
    ChunksOf <- MCChunksOf
    Submissions <- OneSource
    NoTask = NoTask
    MaxRetries = 1
    MaxTasks = 1
    MaxCrashes = 0
    MaxErrors = 1
    Lossy = FALSE
INVARIANTS TransientErrorIsRetried
CHECK_DEADLOCK FALSE
