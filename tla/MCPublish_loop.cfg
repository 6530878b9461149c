CONSTANTS
    Count <- MCCount
    MaxMessages = 2
    PollEvery = 3
SPECIFICATION Spec
INVARIANTS TypeOK PInv ReturnIsComplete
PROPERTY PublishEnds
CHECK_DEADLOCK FALSE
