SPECIFICATION Spec
CONSTANTS
    Orders = {o1}
    Payments = {p1}
    GRefunds = {g1, g2}
    Pods = {w1}
    REFUND_MAX_ATTEMPTS = 2
    MaxRefunds = 1
    MaxCrashes = 1
    NoId = NoId
INVARIANTS OldNewsIgnored
CHECK_DEADLOCK FALSE
