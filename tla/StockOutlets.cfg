\* A request, a shop ask and transfers compete for the shelves of outlets that open and close.
SPECIFICATION Spec
CONSTANTS
    Outlets = {o1, o2}
    Store = store
    Kitchen = kitchen
    Items = {i1}
    RawItems = {i1}
    Requests = {r1}
    Asks = {a1}
    Orders = {}
    Tickets = {t1, t2}
    Bills = {}
    NoDocument = none
    Counted = {o1}
    MaxQty = 2
    MaxOnHand = 2
    OTP_ATTEMPTS = 1
SYMMETRY Symmetry
INVARIANTS TypeOK HoldsMatchTickets NoOversell IssuedTicketsCovered OneLiveTicketPerDocument DocumentsFollowTickets ClosedOutletIdle
CHECK_DEADLOCK FALSE
