SPECIFICATION Spec
CONSTANTS
    u1 = u1
    ru = ru
    r1 = r1
    r2 = r2
    p1 = p1
    e1 = e1
    n1 = n1
    user = user
    Users = {u1}
    Roles = {ru, r1, r2}
    Perms = {p1}
    NameOf <- MCNameOf
    BuiltIn = {user}
    Default = user
    Calls = {c1, c2}
    None = None
    MaxFaults = 1
SYMMETRY Symmetry
INVARIANTS TypeOK LinksWhole DefaultStays OneRowPerName
CHECK_DEADLOCK FALSE
