SPECIFICATION Spec
CONSTANTS
    s1 = s1
    s2 = s2
    x = x
    y = y
    Sessions = {s1, s2}
    Items = {x, y}
    Programs <- AllPrograms
    MaxEpoch = 3
SYMMETRY SessionSymmetry
INVARIANT FirstCommitterWinsOutsideWindows
INVARIANT SerializableOutsideWindows
INVARIANT ClaimedPutsSerialize
CHECK_DEADLOCK FALSE
