SPECIFICATION FairSpec
CONSTANTS
    Clients = {"app", "page"}
    Problems <- MCProblems
    Offsets <- MCOffsets
    Messages <- MCMessages
    Drafts <- MCDrafts
    MaxLessons = 2
    MaxFailures = 2
INVARIANTS
    TypeOK
    HintsAreSafe
    HintsClimb
    MostUrgentHeard
    ScreenFollowsRecord
PROPERTY AppComesBack
CHECK_DEADLOCK FALSE
