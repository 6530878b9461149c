CONSTANTS
    l1 = l1  l2 = l2  l3 = l3
    Absent = Absent
    Loader <- TwoLoaders
    NMarts = 1
    Overlap = TRUE
    MaxGen = 1
    MaxFaults = 0
SPECIFICATION Spec
INVARIANT ServedNotEmpty
CHECK_DEADLOCK FALSE
