SPECIFICATION Spec
CONSTANTS
    Lower = lower
    Upper = upper
    MaxSplits = 1
    MaxWrites = 1
    Retention = 0
    MaxStops = 0
INVARIANT ZeroDataLoss
CHECK_DEADLOCK FALSE
