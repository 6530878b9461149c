CONSTANTS
    p1 = p1  p2 = p2
    a1 = a1  a2 = a2
    None = None
    Partition <- OnePartition
    Attempt <- TwoAttempts
    Stamp <- TwoStamps
    Kind <- Kinds
    BatchRows = 2
    MaxLog <- LongLog
    MaxFaults = 1
SPECIFICATION FairSpec
INVARIANTS NoDuplicateWithoutReread LoopCommitHasOffset
PROPERTIES AppendOnly DrainEnds ReadIsKept
CHECK_DEADLOCK FALSE
