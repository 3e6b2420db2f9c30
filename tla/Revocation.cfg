SPECIFICATION Spec
CONSTANTS
    Users = {u1}
    Keys = {k1, k2}
    Owner <- MCOwner
    Name <- MCName
    Handlers = {h1, h2}
    Requests = {r1, r2}
    Limit = 1
    Window = 2
    MaxHits = 2
INVARIANTS RevokedIsInactive
SYMMETRY Alike
