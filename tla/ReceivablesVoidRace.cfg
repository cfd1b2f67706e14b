SPECIFICATION Spec
CONSTANTS
    Payers = {p1}
    NBills = 2
    Settlements = {s1, s2}
    Txns = {k1, k2}
    MaxTotal = 2
    Limits = {3}
    NoLimit = NoLimit
SYMMETRY Symmetry
INVARIANTS SettledBillsAreLive
CHECK_DEADLOCK FALSE
