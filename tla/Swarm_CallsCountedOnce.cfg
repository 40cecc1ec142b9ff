CONSTANTS
    MaxGenerationAttempts = 2
    MaxRolloutChanges = 0
SPECIFICATION Spec
INVARIANT CallsCountedOnce
CHECK_DEADLOCK FALSE
