SPECIFICATION Spec
CONSTANTS
    Outlets = {o1, o2}
    Tills = {k1, k2, k3}
    Sessions = {s1, s2, s3}
    Bills = {b1, b2, b3}
    Passes = 3
    None = None
SYMMETRY Symmetry
INVARIANTS OneOpenSession ZMatchesBills ZNumbersGapless
CHECK_DEADLOCK FALSE
