SPECIFICATION Spec
CONSTANTS
    Requests = {p1}
    Users = {"public"}
    Anonymous = Anonymous
    Queries = {q1}
    Docs = {d1, d2}
    Seed = {d1}
    Private = {d2}
    Flaky = FALSE
INVARIANTS ScopesApart
CHECK_DEADLOCK FALSE
