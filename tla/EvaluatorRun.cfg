CONSTANTS
    Operators = {t1, t2}
    LastStage = 2
    MaxRetries = 1
    AllocationRetries = 1
    Sustained = 2
    MaxAttempt = 1
SPECIFICATION Spec
INVARIANT WritersAreSound
PROPERTY NothingIsTakenBack
