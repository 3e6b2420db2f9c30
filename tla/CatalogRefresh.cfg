SPECIFICATION Spec
CONSTANTS
    Servers = {s1, s2}
    Urls = {u1, u2}
    Versions = {v1}
    Errors = {e1}
    Sweeps = {w1}
    Admins = {a1}
    MaxEdits = 2
INVARIANTS TypeOK WrongRowsExplained
PROPERTIES EverySweepEnds
