CONSTANTS
    JobCount = 2
    Workers = 2
    MaxAttempts = 2
    MaxFaults = 1
SPECIFICATION Spec
PROPERTIES ExecutionIsSound InvocationEnds
