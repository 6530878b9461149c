CONSTANTS
    p1 = p1  p2 = p2
    a1 = a1  a2 = a2
    None = None
    Partition <- TwoPartitions
    Attempt <- TwoAttempts
    Stamp <- TwoStamps
    Kind <- Kinds
    BatchRows = 2
    MaxLog <- UnevenLog
    MaxFaults = 1
SPECIFICATION Spec
INVARIANTS TypeOK NoLoss IInv
PROPERTIES AtLeastOnce CommittedNeverDecreases
CHECK_DEADLOCK FALSE
