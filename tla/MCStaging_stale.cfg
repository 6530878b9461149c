CONSTANTS
    Copy <- Once
    Lag <- MCLag
    DayLength = 3
    Null = Null
    DeleteFails = TRUE
    MaxJobs = 2
    MaxFaults = 0
SPECIFICATION Spec
INVARIANT ViewIsInput
CHECK_DEADLOCK FALSE
