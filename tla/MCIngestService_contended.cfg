SPECIFICATION Spec
CONSTANTS
    Workers = {w1, w2}
    Deleters = {d1}
    Sources = {"s1"}
    Contents <- MCContents
    text1 = text1
    text2 = text2
    text3 = text3
    Texts = {text1, text2, text3}
    ChunksOf <- MCChunksOf
    Submissions <- Colliding
    NoTask = NoTask
    MaxRetries = 0
    MaxTasks = 2
    MaxCrashes = 0
    MaxErrors = 1
    Lossy = TRUE
INVARIANTS ConsistentAtRest IndexesInSync
PROPERTIES KeptChunksUntouched
SYMMETRY Symmetry
CHECK_DEADLOCK FALSE
