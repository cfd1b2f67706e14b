------------------------------ MODULE Screens ------------------------------
(***************************************************************************)
(* The browser's frame: which screens a role sees (UI/src/screens.ts,      *)
(* nav.ts), what the snapshot puts in its hands                            *)
(* (snapshot/scope.ts), and the predicates its buttons are drawn with      *)
(* (lib/selectors.ts).                                                     *)
(*                                                                         *)
(* m is who is looking: a desk, what its role holds, and where it stands.  *)
(* d is the document in front of them: its kind k, status st, the place    *)
(* that raised it (at) and the other place it names (to), and flags x.     *)
(* A screen, or a stretch of one, is a Face: the reads it makes, the       *)
(* screens it links to, the drawers it opens and the writes it offers.     *)
(***************************************************************************)
EXTENDS Permissions, Transitions

Face(reads, links, opens, offers) ==
    [reads |-> reads, links |-> links, opens |-> opens, offers |-> offers]
Blank == Face({}, {}, {}, {})
Together(faces) ==
    Face(UNION {f.reads : f \in faces}, UNION {f.links : f \in faces},
         UNION {f.opens : f \in faces}, UNION {f.offers : f \in faces})
When(c, S) == IF c THEN S ELSE {}

\* The reads a face makes: at the session's own place, or at each of several.
AskAt(r, places) == {[r |-> r, on |-> l] : l \in places}
Ask(m, rs) == UNION {AskAt(r, {m.loc}) : r \in rs}

\* A write on the document in front of them, with the word it moves to; and one that makes something at a place.
Move(r, to) == [r |-> r, on |-> "doc", to |-> to]
Make(r, place) == [r |-> r, on |-> place, to |-> "new"]

\* openOutlets(): the outlets that trade.
OpenOutlets == {"c1", "c2"}

May(m, f) == Can(m.perms, f, "edit")
MayView(m, f) == Can(m.perms, f, "view")
HospitalWide(m) == Holds(m.perms, "all_outlets")
Is(d, kind, sts) == d.k = kind /\ d.st \in sts

-----------------------------------------------------------------------------
(* The sidebar.                                                            *)

AnyDesk == [needs |-> {}, desks |-> AllDesks]
Shows(fs) == [needs |-> {Need(f, "view") : f \in fs}, desks |-> AllDesks]

SCREENS ==
       [k \in {"dash", "issues", "settings"} |-> AnyDesk]
    @@ "pos" :> [needs |-> {Need("billing", "edit")}, desks |-> AllDesks]
    @@ "avail" :> [needs |-> {Need("availability", "edit")}, desks |-> {"prod"}]
    @@ "adjust" :> [needs |-> {Need("adjustments", "view")}, desks |-> {"store"}]
    @@ "register" :> Shows({"x_report", "z_report", "shift_reports"})
    @@ "credit" :> Shows({"credit", "settlements"})
    @@ "qr-orders" :> Shows({"qr_orders"}) @@ "bills" :> Shows({"billing"})
    @@ "outlet-stock" :> Shows({"outlet_stock"}) @@ "outlet-requests" :> Shows({"outlet_requests"})
    @@ "outlet-tickets" :> Shows({"outlet_tickets"}) @@ "approvals" :> Shows({"approvals"})
    @@ "items-stock" :> Shows({"items_stock"}) @@ "menu" :> Shows({"menu"}) @@ "prices" :> Shows({"prices"})
    @@ "issue" :> Shows({"issue_desk"}) @@ "store-stock" :> Shows({"store_stock"})
    @@ "procure" :> Shows({"store_requisitions"}) @@ "reports" :> Shows({"store_reports"})
    @@ "kitchen-orders" :> Shows({"kitchen_orders"}) @@ "make" :> Shows({"make_distribute"})
    @@ "kitchen-stock" :> Shows({"kitchen_stock"}) @@ "kitchen-requests" :> Shows({"kitchen_requests"})
    @@ "kitchen-tickets" :> Shows({"kitchen_tickets"}) @@ "requisitions" :> Shows({"requisitions"})
    @@ "pool" :> Shows({"procurement_list"}) @@ "purchase-orders" :> Shows({"purchase_orders"})
    @@ "contracts" :> Shows({"rate_contracts"}) @@ "inventory" :> Shows({"inventory"})
    @@ "newproducts" :> Shows({"new_products"}) @@ "vendors" :> Shows({"vendors"})

ScreenKeys == DOMAIN SCREENS

DESK_NAV ==
    [counter |-> <<"dash", "pos", "qr-orders", "bills", "register", "outlet-stock", "outlet-requests",
                   "outlet-tickets">>,
     manager |-> <<"dash", "approvals", "items-stock", "menu", "prices", "avail", "bills", "qr-orders",
                   "register", "credit">>,
     store   |-> <<"dash", "issue", "store-stock", "adjust", "procure", "reports">>,
     prod    |-> <<"dash", "kitchen-orders", "make", "kitchen-stock", "avail", "kitchen-requests",
                   "kitchen-tickets">>,
     buyer   |-> <<"dash", "requisitions", "pool", "purchase-orders", "contracts", "inventory",
                   "newproducts", "vendors">>]

DESK_HOME == [counter |-> "pos", manager |-> "approvals", store |-> "issue", prod |-> "kitchen-orders",
              buyer |-> "requisitions"]

\* A bookmark from before the keys were made unique.
LEGACY_KEYS ==
    [counter |-> "stock" :> "outlet-stock" @@ "requests" :> "outlet-requests" @@ "tickets" :> "outlet-tickets",
     manager |-> "stock" :> "items-stock",
     store   |-> "stock" :> "store-stock",
     prod    |-> "orders" :> "kitchen-orders" @@ "stock" :> "kitchen-stock"
              @@ "requests" :> "kitchen-requests" @@ "tickets" :> "kitchen-tickets",
     buyer   |-> "orders" :> "purchase-orders"]

Visible(m, s) == /\ m.desk \in s.desks
                 /\ s.needs = {} \/ \E n \in s.needs : Can(m.perms, n.f, n.l)
CanSee(m, key) == key \in ScreenKeys /\ Visible(m, SCREENS[key])

\* The sidebar: the desk's own entries in its own order, then every other screen the role holds.
NavPlaced(m) == SelectSeq(DESK_NAV[m.desk], LAMBDA k : CanSee(m, k))
NavFor(m) == ToSet(NavPlaced(m)) \cup {k \in ScreenKeys : CanSee(m, k)}

HomeFor(m) == IF CanSee(m, DESK_HOME[m.desk]) THEN DESK_HOME[m.desk] ELSE Head(NavPlaced(m))

\* A link is drawn only for a screen the role sees (useSees).
Sees(m, keys) == {k \in keys : CanSee(m, k)}

-----------------------------------------------------------------------------
(* What the snapshot, and every list behind it, puts in a browser.         *)

Cut(m, c) == ~ReadsWide(m.desk, m.perms, c)
AnyOf(m, fs) == \E f \in fs : MayView(m, f)

\* A collection cut to the caller's own place, by either end where the document has two.
Own(m, c, places) == Cut(m, c) => m.loc \in places

BUYING == {"requisitions", "procurement_list", "purchase_orders", "rate_contracts", "vendors",
           "goods_receipt", "inventory"}

ScopeBuying(m) == m.desk # "counter" \/ AnyOf(m, BUYING)
ScopeBills(m, d) == ReadsBills(m.desk, m.perms) /\ Own(m, "bills", {d.at})
ScopeRequests(m, d) == Own(m, "requests", {d.at})
ScopeSentTickets(m, d) == Own(m, "tickets", {d.at})
ScopeTickets(m, d) == Own(m, "tickets", {d.at, d.to})
ScopeShopAsks(m, d) == Own(m, "shopAsks", {d.at, d.to})
ScopeProdOrders(m, d) == Own(m, "prodOrders", {d.at})
ScopeProductRequests(m, d) == Own(m, "productReqs", {d.at})
ScopeAdjustmentRequests(m, d) == Own(m, "adjReq", {d.at})

COLLECTS == {"outlet_tickets", "kitchen_tickets", "issue_desk"}
Collects(m) == \E f \in COLLECTS : May(m, f)
ReadsAnyOtp(m, d) == d.st = "Issued" /\ Collects(m)
\* The digits travel while the ticket waits, to its destination, and to a role that collects there.
ReadsOtp(m, d) == d.st = "Issued" /\ d.to = m.loc /\ Collects(m)

\* Is this document in the caller's snapshot?
InScope(m, d) ==
    CASE d.k = "req"  -> ScopeRequests(m, d)
      [] d.k = "tkt"  -> ScopeTickets(m, d)
      [] d.k = "pord" -> ScopeProdOrders(m, d)
      [] d.k = "ask"  -> ScopeShopAsks(m, d)
      [] d.k = "adj"  -> ScopeAdjustmentRequests(m, d)
      [] d.k = "preq" -> ScopeProductRequests(m, d)
      [] d.k = "bill" -> ScopeBills(m, d)
      [] d.k \in {"prq", "po", "contract"} -> ScopeBuying(m)
      [] d.k = "qr"   -> MayView(m, "qr_orders") /\ (HospitalWide(m) \/ d.at = m.loc)
      [] d.k = "settle" -> MayView(m, "settlements")
      [] OTHER        -> TRUE

-----------------------------------------------------------------------------
(* What a button may offer: each predicate reads the shared status table.  *)

IsReqOpen(st) == "Cancelled" \in REQUEST_TRANSITIONS(st)
CanIssueTicket(st) == "Ticket issued" \in REQUEST_TRANSITIONS(st)
CanHandOver(st) == "Collected" \in TICKET_TRANSITIONS(st)
CanReceiveTicket(st) == "Received" \in TICKET_TRANSITIONS(st)
CanCancelTicket(st) == "Cancelled" \in TICKET_TRANSITIONS(st)
CanDispatch(st) == "Dispatched" \in PROD_ORDER_TRANSITIONS(st)
MoveByTheTable(st, to) == to \in PROD_ORDER_TRANSITIONS(st)
CanMoveOrder(st, to) == "Dispatched" \notin {st, to} /\ to \in PROD_ORDER_TRANSITIONS(st)
CanSendPo(st) == "Ordered" \in PO_TRANSITIONS(st)
CanCancelPo(st, anyReceived) == ~anyReceived /\ "Cancelled" \in PO_TRANSITIONS(st)
CanCloseShort(st) == st = "Partially received"
IsTicketOpen(st) == CanHandOver(st) \/ CanReceiveTicket(st)
Approved == {"Manager approved", "Partially approved"}

-----------------------------------------------------------------------------
(* The frame around every screen (ui/Shell.tsx).                           *)

\* The first of these screens the session may open.
Dest(m, keys) ==
    LET open == SelectSeq(keys, LAMBDA k : CanSee(m, k)) IN IF open = <<>> THEN {} ELSE {Head(open)}

\* What the palette finds, and the screen each hit opens.
SearchHits(m, d) ==
    Face({}, Dest(m, <<"outlet-stock", "items-stock", "store-stock", "kitchen-stock", "inventory">>)
             \cup When(d.k = "req", Dest(m, <<"outlet-requests", "kitchen-requests", "approvals", "issue">>))
             \cup When(d.k = "tkt" /\ (Cut(m, "tickets") => d.to = m.loc),
                       Dest(m, <<"outlet-tickets", "kitchen-tickets", "issue">>))
             \cup When(d.k = "bill", Sees(m, {"bills"})), {}, {})

\* The queues the sidebar counts, by the screen that clears each.
NavQueues(m, d) ==
    Sees(m, UNION {
        When(d.k = "tkt" /\ d.to = m.loc /\ IsTicketOpen(d.st), {"outlet-tickets"}),
        When(Is(d, "req", {"Request sent"}) /\ d.at = m.loc, {"outlet-requests"}),
        When(Is(d, "req", {"Request sent"}), {"approvals"}),
        When(Is(d, "qr", {"Paid"}) /\ d.at = m.loc /\ May(m, "qr_orders"), {"qr-orders"}),
        When(Is(d, "req", Approved) /\ "ticket" \notin d.x, {"issue"}),
        When(Is(d, "tkt", {"Issued"}) /\ d.at = "store", {"issue"}),
        When(Is(d, "prq", {"Sent"}), {"procure", "requisitions"}),
        When(Is(d, "prq", Approved \cup {"Approved"}), {"pool"}),
        When(Is(d, "pord", {"New"}), {"kitchen-orders"}),
        {"store-stock", "inventory"},
        When(m.desk # "counter", {"avail"}),
        When(m.desk = "prod", {"dash"})})
    \cup When(m.desk = "counter" /\ CanSee(m, "pos"), {"avail"})
    \cup When(MayView(m, "shift_reports"), {"shifts"})

GoesStraight(m, k) == k
\* Where a bell row opens: a queue with no screen of its own name goes to another.
GOES_TO(m, k) == IF k = "avail" /\ m.desk = "counter" THEN "pos"
                 ELSE IF k = "shifts" THEN "register" ELSE k
Bell(m, d) == Face({}, {GOES_TO(m, k) : k \in NavQueues(m, d)}, {}, {})

Shell(m, d) ==
    Together({Face(Ask(m, When(MayView(m, "shift_reports"), {"shifts"})
                     \cup When(MayView(m, "qr_orders"), {"qrOrders"})
                     \cup When(m.desk = "counter", {"currentShift"})),
                   NavFor(m), {},
                   When(m.desk = "counter", {Make("closeShift", m.loc)})),
              SearchHits(m, d), Bell(m, d)})
=============================================================================
