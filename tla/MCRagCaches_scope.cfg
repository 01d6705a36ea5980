SPECIFICATION Spec
CONSTANTS
    Requests = {p1}
    Users = {"u1", "public"}
    Anonymous = Anonymous
    Queries = {q1}
    Docs = {d1}
    Seed = {}
    Private = {d1}
    Flaky = TRUE
INVARIANTS ScopeSafe
CHECK_DEADLOCK FALSE
