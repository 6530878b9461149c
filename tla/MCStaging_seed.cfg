CONSTANTS
    Copy <- Twice
    Lag <- MCLag
    DayLength = 3
    Null = Null
    DeleteFails = FALSE
    MaxJobs = 1
    MaxFaults = 0
SPECIFICATION Spec
INVARIANT TerminalWins
CHECK_DEADLOCK FALSE
