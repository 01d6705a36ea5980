SPECIFICATION Spec
CONSTANTS
    Turns = {t1}
    Queries = {q1}
    MaxChunks = 1
    MaxCite = 2
    JudgeOn = TRUE
    Remediation = TRUE
    RomanUrdu = FALSE
\* Claims about the answer cache; TLC reports the first of the list that is violated.
INVARIANTS CachedHasSources AbstentionNotCached OnlyAnswersCached
CHECK_DEADLOCK FALSE
