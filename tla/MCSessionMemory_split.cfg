SPECIFICATION Spec
CONSTANTS
    Processes = {p1, p2}
    Sessions = {s1}
    Window = 2
    MaxTurns = 2
INVARIANT SameHistory
CHECK_DEADLOCK FALSE
