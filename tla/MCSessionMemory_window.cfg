SPECIFICATION Spec
CONSTANTS
    Processes = {p1, p2}
    Sessions = {s1, s2}
    Window = 2
    MaxTurns = 4
INVARIANTS TypeOK WholeTurns
PROPERTIES ImplementsWindow
CHECK_DEADLOCK FALSE
