SPECIFICATION Spec
CONSTANTS
    Calls = {c1, c2, c3}
    k1 = k1
    k2 = k2
    Keys = {k1, k2}
    Requests <- MCRequests
    MaxRecords = 1
    MaxCrashes = 1
INVARIANT AtMostOnce
INVARIANT ReplayIsReal
INVARIANT AckedRecorded
INVARIANT InDoubtKept
SYMMETRY MCSymmetry
CHECK_DEADLOCK FALSE
