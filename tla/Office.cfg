\* Accounts of two payers at two tills; two writers of two rate contracts; an audit list and an export;
\* every desk at every kind of document.
SPECIFICATION OfficeSpec
CONSTANTS
    Payers = {p1, p2}
    NBills = 2
    Settlements = {s1, s2}
    Txns = {k1, k2}
    MaxTotal = 2
    Limits = {2}
    NoLimit = NoLimit
    Contracts = {"c1", "c2"}
    Rates = {1, 2, 3}
    RateWrites = {"x", "y"}
    MaxTrail = 2
    MaxEvents = 3
    MaxLoads = 2
    PageLimit = 1
    RoleEdits = 1
    Watched = {"req", "tkt", "pord", "ask", "adj", "preq", "prq", "po", "sup", "item", "contract",
               "settle", "qr", "bill", "acct", "role", "outlet", "payer", "qrcode"}
SYMMETRY Symmetry
INVARIANTS NoOverAllocation AllocationAddsUp  ReadersSeeTheLog  DeskNobodyStuck DeskTwoPeopleHandOver DeskRolesReachTheirWork
PROPERTIES OldestFirst CreditCeilingAtSale
CHECK_DEADLOCK FALSE
