CONSTANTS
    r1 = r1
    r2 = r2
    r3 = r3
    Requests = {r1, r2}
    MaxHintLevel = 3
    Starts = {0, 2}
    Verdicts = {"right", "wrong"}
    Screens <- MCNoFlag
    MaxFailures <- MCOneFailure
SPECIFICATION FairSpec
INVARIANTS
    TypeOK
    ReplyTrue
PROPERTIES
    Answered
CHECK_DEADLOCK FALSE
