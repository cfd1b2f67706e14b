\* Kitchen orders, trays pushed out, a sale, and raw material used as it arrives.
SPECIFICATION Spec
CONSTANTS
    Outlets = {o1}
    Store = store
    Kitchen = kitchen
    Items = {fg, rm}
    RawItems = {rm}
    Requests = {r1}
    Asks = {}
    Orders = {d1}
    Tickets = {t1, t2}
    Bills = {b1}
    NoDocument = none
    Counted = {}
    MaxQty = 1
    MaxOnHand = 1
    OTP_ATTEMPTS = 1
SYMMETRY Symmetry
INVARIANT DocumentsFollowTickets
PROPERTIES ScansConserveStock ImplementsShelf
CHECK_DEADLOCK FALSE
