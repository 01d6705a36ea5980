SPECIFICATION FairSpec
CONSTANTS
    Requests = {p1}
    Users = {}
    Anonymous = Anonymous
    Queries = {q1}
    Docs = {d1, d2}
    Seed = {d1}
    Private = {}
    Flaky = TRUE
INVARIANT MaskedOnlyByRace
PROPERTY MaskingEnds
CHECK_DEADLOCK FALSE
