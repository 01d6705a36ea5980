SPECIFICATION Spec
CONSTANTS
    Users = {u1}
    Calls = {c1, c2}
    Tokens = {t1, t2, t3}
    Resets = {r1}
    None = None
    MaxPasswords = 2
    MaxEvents = 1
SYMMETRY Symmetry
INVARIANT RotationIsExclusive
CHECK_DEADLOCK FALSE
