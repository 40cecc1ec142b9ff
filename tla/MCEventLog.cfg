CONSTANTS
    r1 = r1
    r2 = r2
    r3 = r3
    Writers = {r1, r2, r3}
    MaxEvents = 3
SPECIFICATION Spec
INVARIANTS
    TypeOK
    Unique
    GapFree
PROPERTY AppendOnly
SYMMETRY Symmetry
CHECK_DEADLOCK FALSE
