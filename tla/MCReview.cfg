CONSTANTS
    t1 = t1
    t2 = t2
    s1 = s1
    s2 = s2
    s3 = s3
    Teachers = {t1, t2}
    Sessions = {s1, s2, s3}
    Scope <- MCScope
    Limit = 2
    Opinions <- MCOpinions
    MaxRows = 3
    MaxJudgements = 3
    MinReviewedSessions = 2
    MinReviewedForARate = 2
SPECIFICATION Spec
INVARIANTS
    TypeOK
    SomebodySees
    FloorNeverOperative
PROPERTIES
    EvidenceStands
SYMMETRY Symmetry
CHECK_DEADLOCK FALSE
