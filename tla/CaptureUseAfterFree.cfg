SPECIFICATION Spec
CONSTANTS
    MaxThreads = 2
    MaxRetries = 1
INVARIANT FreedEngineNotInUse
CHECK_DEADLOCK FALSE
