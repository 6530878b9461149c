CONSTANTS
    l1 = l1  l2 = l2  l3 = l3
    Absent = Absent
    Loader <- ThreeLoaders
    NMarts = 2
    Overlap = FALSE
    MaxGen = 2
    MaxFaults = 2
SPECIFICATION Spec
SYMMETRY Symmetry
INVARIANTS LoadInv SInv ServedComplete SuccessMeansCurrent
PROPERTIES ServedOnlyAdvances WholeMarts
CHECK_DEADLOCK FALSE
