CONSTANTS
    good = good  bad = bad
    Null = Null
    Batch <- MCBatch
    Refused <- MCRefused
    v1 = v1  v2 = v2
    Suffix <- MCSuffix
    MaxRuns = 2
    MaxHand = 1
    MaxFaults = 2
SPECIFICATION Spec
SYMMETRY Symmetry
INVARIANTS PipeInv ServedIsTested FactsLead SuccessServesAll OneFaultHeals
PROPERTIES ServedOnlyGrows CommitsFollowRaw
CHECK_DEADLOCK FALSE
