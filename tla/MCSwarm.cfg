CONSTANTS
    MaxGenerationAttempts = 2
    MaxRolloutChanges = 1
SPECIFICATION FairSpec
INVARIANTS
    TypeOK
    ChecksInPlace
    StoredTrue
    TwoGates
    HonestRecord
    TraceFaithful
PROPERTIES
    Finishes
    ImplementsGuard
CHECK_DEADLOCK FALSE
