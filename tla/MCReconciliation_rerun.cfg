CONSTANTS
    Lag <- MCLag
    Charges <- NotSettled
    Null = Null
    Redelivery = TRUE
    FirstDay = 1
    LastDay = 4
    Scale = 10
SPECIFICATION Spec
PROPERTY Reproducible
CHECK_DEADLOCK FALSE
