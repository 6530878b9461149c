CONSTANTS
    Copy <- Redelivered
    Lag <- MCLag
    DayLength = 3
    Null = Null
    DeleteFails = FALSE
    MaxJobs = 3
    MaxFaults = 1
SPECIFICATION Spec
INVARIANTS JobInv StageInv ViewIsInput TerminalWins
PROPERTIES ExpectedDateStable RerunStable FurthestStatus
CHECK_DEADLOCK FALSE
