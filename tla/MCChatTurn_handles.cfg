SPECIFICATION Spec
CONSTANTS
    Turns = {t1}
    Queries = {q1}
    MaxChunks = 2
    MaxCite = 2
    JudgeOn = TRUE
    Remediation = TRUE
    RomanUrdu = FALSE
INVARIANT CitesGivenHandles
CHECK_DEADLOCK FALSE
