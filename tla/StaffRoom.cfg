\* Sign-ins and refreshes that race; accounts and roles edited by two hands; two requisitions, two orders;
\* three requests with one key.
SPECIFICATION StaffRoomSpec
CONSTANTS
    Operators = {"ravi"}
    Counters = {"c1", "c2"}
    Calls = {call1, call2}
    MaxTokens = 3
    MaxPasswords = 2
    LOGIN_BUDGET = 1
    Outlets = {"c1"}
    StaffRoles = {"r1", "r2"}
    Desks <- TwoDesks
    StaffJobs = {"a", "b"}
    MaxUsers = 1
    MaxTerms = 2
    Requisitions = {"r1", "r2"}
    Asked <- AskedMilk
    Orders = {o1, o2}
    Vendors = {v1, v2}
    MaxBuyQty = 2
    MaxPicked = 3
    Attempts = {a1, a2, a3}
    Bodies = {b1, b2}
    MAX_ATTEMPTS = 3
    Strict = FALSE
    MayOutlive = FALSE
    MayPause = FALSE
    None = None
INVARIANTS RacesChangeNothing CopiesFollowTheRole BuyingAddsUp AtMostOnce DoneIsRemembered SuccessIsTrue
SYMMETRY StaffRoomSymmetry
CHECK_DEADLOCK FALSE
