CONSTANTS
    p1 = p1  p2 = p2
    a1 = a1  a2 = a2
    None = None
    Partition <- OnePartition
    Attempt <- TwoAttempts
    Stamp <- TwoStamps
    Kind <- Kinds
    BatchRows = 1
    MaxLog <- ShortLog
    MaxFaults = 0
SPECIFICATION RetrySpec
PROPERTY MalformedIsKept
CHECK_DEADLOCK FALSE
