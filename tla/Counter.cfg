\* Two pods around one QR refund; two QR payments of one order; a till of two open bills.
SPECIFICATION CounterSpec
CONSTANTS
    Orders = {o1}
    Payments = {p1, p2}
    GRefunds = {g1, g2}
    Pods = {w1, w2}
    REFUND_MAX_ATTEMPTS = 2
    MaxRefunds = 2
    MaxCrashes = 0
    NoId = NoId
    Cashiers = {"asha", "ravi"}
    MAX_OPEN_BILLS = 2
    MaxBills = 3
    MaxLines = 1
    MaxPays = 2
SYMMETRY Symmetry
INVARIANTS KeptOrReturned RefundsAtGatewayAreOwed ProcessedIsTrue
PROPERTIES SoldOrThrownAway
CHECK_DEADLOCK FALSE
