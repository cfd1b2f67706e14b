\* One worker and its refund; one audited write and two drainers; one tab, its stream and two operators.
SPECIFICATION FeedsSpec
CONSTANTS
    Orders = {o1}
    Payments = {p1}
    GRefunds = {g1, g2}
    Pods = {w1}
    REFUND_MAX_ATTEMPTS = 1
    MaxRefunds = 1
    MaxCrashes = 1
    NoId = NoId
    AuditedWrites = {"w1"}
    Drainers = {"d1", "d2"}
    DrainBatch = 1
    MaxFaults = 2
    Who = {"asha", "ravi"}
    Reads = {1, 2}
    MaxCommits = 1
    MaxBreaks = 2
INVARIANTS  TrailIsWhole StaleOnlyUnseen
PROPERTIES  EveryRefundEnds EveryRowLeaves TabRecovers
CHECK_DEADLOCK FALSE
