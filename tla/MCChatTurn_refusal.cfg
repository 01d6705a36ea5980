SPECIFICATION Spec
CONSTANTS
    Turns = {t1}
    Queries = {q1}
    MaxChunks = 1
    MaxCite = 2
    JudgeOn = TRUE
    Remediation = TRUE
    RomanUrdu = FALSE
INVARIANT BlockedGetsRefusal
CHECK_DEADLOCK FALSE
