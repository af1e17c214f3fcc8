SPECIFICATION Spec
CONSTANTS
    s1 = s1
    s2 = s2
    x = x
    y = y
    Sessions = {s1, s2}
    Items = {x, y}
    Programs <- WritePrograms
    MaxEpoch = 3
SYMMETRY SessionSymmetry
INVARIANT FirstCommitterWins
CHECK_DEADLOCK FALSE
