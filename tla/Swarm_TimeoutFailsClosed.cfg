CONSTANTS
    MaxGenerationAttempts = 2
    MaxRolloutChanges = 0
SPECIFICATION Spec
INVARIANT TimeoutFailsClosed
CHECK_DEADLOCK FALSE
