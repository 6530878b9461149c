CONSTANTS
    Lag <- MCLag
    Charges <- AnyCharge
    Null = Null
    Redelivery = FALSE
    FirstDay = 4
    LastDay = 6
    Scale = 10
SPECIFICATION Spec
INVARIANTS RInv LabelMeansAdjustment ChecksPass ExposureIsLabelled BreachIsReal
PROPERTY AgesForward
CHECK_DEADLOCK FALSE
