\* Two requests compete for the store and for a peer outlet, beside a sale and a count.
SPECIFICATION Spec
CONSTANTS
    Outlets = {o1, o2}
    Store = store
    Kitchen = kitchen
    Items = {i1}
    RawItems = {i1}
    Requests = {r1, r2}
    Asks = {}
    Orders = {}
    Tickets = {t1, t2}
    Bills = {}
    NoDocument = none
    Counted = {o1}
    MaxQty = 1
    MaxOnHand = 1
    OTP_ATTEMPTS = 1
SYMMETRY Symmetry
INVARIANTS CancelledTicketFreesItsRequest
CHECK_DEADLOCK FALSE
