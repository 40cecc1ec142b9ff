SPECIFICATION Spec
CONSTANTS
    Runs = {r1, r2}
    MaxStages = 3
    MaxFetches = 3
INVARIANTS
    TypeOK
    OneHold
    PageTruthful
CHECK_DEADLOCK FALSE
