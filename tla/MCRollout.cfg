CONSTANTS
    a1 = a1
    a2 = a2
    a3 = a3
    Buckets = 2
    Admins = {a1, a2}
    MaxChanges = 3
    MaxTime = 1
    MaxPerTick = 2
SPECIFICATION Spec
INVARIANTS
    TypeOK
    KillWinsTies
PROPERTIES
    ChangesMeanWhatTheySay
SYMMETRY Symmetry
CHECK_DEADLOCK FALSE
