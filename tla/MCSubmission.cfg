CONSTANTS
    r1 = r1
    r2 = r2
    r3 = r3
    Requests = {r1, r2, r3}
    MaxHintLevel = 3
    Starts = {0, 2}
    Verdicts = {"right", "wrong"}
    Screens <- MCScreens
    MaxFailures <- MCMaxFailures
SPECIFICATION Spec
INVARIANTS
    FinishedReachesTeacher
    Explained
    InTurnSettled
PROPERTIES
    SessionMovesOn
SYMMETRY Symmetry
CHECK_DEADLOCK FALSE
