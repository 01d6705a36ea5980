SPECIFICATION Spec
CONSTANTS
    Requests = {p1}
    Users = {}
    Anonymous = Anonymous
    Queries = {q1}
    Docs = {d1, d2}
    Seed = {d1}
    Private = {}
    Flaky = TRUE
INVARIANTS ErrorIsMiss
CHECK_DEADLOCK FALSE
