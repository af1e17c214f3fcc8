SPECIFICATION FairSpec
CONSTANTS
    Lower = lower
    Upper = upper
    MaxSplits = 2
    MaxWrites = 2
    Retention = 0
    MaxStops = 2
INVARIANT OneOwner
INVARIANT MovedWhole
INVARIANT NoLeftovers
PROPERTY EverySplitEnds
CHECK_DEADLOCK FALSE
