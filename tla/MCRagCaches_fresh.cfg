SPECIFICATION Spec
CONSTANTS
    Requests = {p1}
    Users = {}
    Anonymous = Anonymous
    Queries = {q1}
    Docs = {d1, d2}
    Seed = {d1}
    Private = {}
    Flaky = FALSE
INVARIANTS FreshAfterBump
CHECK_DEADLOCK FALSE
