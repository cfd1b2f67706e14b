--------------------------- MODULE KitchenScreens ---------------------------
(***************************************************************************)
(* The kitchen's screens and drawers (UI/src/roles/prod).                  *)
(***************************************************************************)
EXTENDS Screens

KitchenAvailability(m, d) ==
    Face({}, {}, When(d.k = "item", {"item"}), When(May(m, "availability"), {Make("toggleAvail", "kitchen")}))

KitchenDashboardAlerts(m, d) == Face({}, Sees(m, {"avail", "kitchen-orders", "make"}), {}, {})
KitchenDashboardPass(m, d) ==
    Face({}, Sees(m, {"make"}), When(Is(d, "tkt", {"Issued"}) /\ d.at = "kitchen", {"ptkt"}), {})
KitchenDashboard(m, d) == Together({KitchenDashboardAlerts(m, d), KitchenDashboardPass(m, d)})

MakeBoard(m, d) == Face({}, {}, {}, When(May(m, "make_distribute"), {Make("makeBatch", "kitchen")}))
DistributeForm(m, d) == Face({}, {}, {}, When(May(m, "make_distribute"), {Make("distribute", "kitchen")}))
WaitingAtThePass(m, d) == Face({}, {}, When(Is(d, "tkt", {"Issued"}) /\ d.at = "kitchen", {"ptkt"}), {})
MakeDistribute(m, d) == Together({MakeBoard(m, d), DistributeForm(m, d), WaitingAtThePass(m, d)})

\* A card on the board offers the next word on the walk, or the dispatch when there is none, and a decline.
OrdersBoard(m, d) ==
    LET next == SelectSeq(<<"Accepted", "In kitchen", "Ready">>, LAMBDA st : CanMoveOrder(d.st, st))
        walk == IF next # <<>> THEN {Move("setOrderStatus", Head(next))}
                ELSE When(CanDispatch(d.st), {Move("dispatchProdOrder", "Dispatched")})
    IN  IF d.k # "pord" THEN Blank
        ELSE Face({}, {}, {"pord"},
                  When(May(m, "kitchen_orders"),
                       walk \cup When(CanMoveOrder(d.st, "Declined"), {Move("setOrderStatus", "Declined")})))
OrdersShortfall(m, d) == Face({}, {}, {}, When(May(m, "make_distribute"), {Make("makeBatch", "kitchen")}))
OrdersPast(m, d) == Face({}, {}, {"phist"} \cup When(d.k = "pord", {"pord"}), {})
KitchenOrders(m, d) == Together({OrdersBoard(m, d), OrdersShortfall(m, d), OrdersPast(m, d)})
\* The drawer offers every word the table lists from here; a dispatch is its own press.
OrderDrawer(m, d) ==
    Face({}, {}, {}, When(May(m, "kitchen_orders") /\ d.k = "pord",
                          {Move("setOrderStatus", to) : to \in {t \in PordStatus : CanMoveOrder(d.st, t)}}
                          \cup When(CanDispatch(d.st), {Move("dispatchProdOrder", "Dispatched")})))
OrderHistoryDrawer(m, d) == Face({}, {}, When(d.k = "pord", {"pord"}), {})

KitchenRequestForm(m, d) ==
    Face({}, {}, {}, When(May(m, "kitchen_requests"), {Make("createRequest", "kitchen")}))
KitchenRequestList(m, d) ==
    Face({}, {}, {}, When(May(m, "kitchen_requests") /\ d.k = "req" /\ d.at = "kitchen" /\ IsReqOpen(d.st),
                          {Move("cancelRequest", "Cancelled")}))
KitchenRequests(m, d) == Together({KitchenRequestForm(m, d), KitchenRequestList(m, d)})

WastageDrawer(m, d) == Face({}, {}, {}, When(May(m, "adjustments"), {Make("createWastage", "kitchen")}))
KitchenNewProductDrawer(m, d) == Face({}, {}, {}, When(May(m, "item_master"), {Make("createItem", "any")}))
KitchenStockShelf(m, d) ==
    Face(Ask(m, {"kitchenReport"}), {},
         When(May(m, "adjustments"), {"adjstock", "kwaste"}) \cup When(May(m, "item_master"), {"pnew"})
         \cup When(d.k = "item", {"item"}), {})
KitchenStockRaw(m, d) ==
    Face({}, {}, When(May(m, "adjustments"), {"kwaste"}),
         When(May(m, "kitchen_requests"), {Make("createRequest", "kitchen")}))
KitchenStock(m, d) == Together({KitchenStockShelf(m, d), KitchenStockRaw(m, d)})

KitchenTicketDrawer(m, d) ==
    Face({}, {}, {}, When(May(m, "kitchen_tickets") /\ d.k = "tkt" /\ d.at = "kitchen" /\ CanHandOver(d.st),
                          {Move("handover", "Collected")}))
KitchenInbound(m, d) ==
    Face({}, Sees(m, {"kitchen-requests"}), {},
         When(May(m, "kitchen_tickets") /\ d.k = "tkt" /\ d.to = "kitchen" /\ CanReceiveTicket(d.st),
              {Move("receiveTicket", "Received")}))
KitchenOutbound(m, d) ==
    IF ~(May(m, "kitchen_tickets") /\ d.k = "tkt" /\ d.at = "kitchen") THEN Face({}, Sees(m, {"kitchen-orders"}), {}, {})
    ELSE Face({}, Sees(m, {"kitchen-orders"}), When(CanHandOver(d.st), {"ptkt"}),
              When(CanCancelTicket(d.st), {Move("cancelTicket", "Cancelled")}))
KitchenTickets(m, d) == Together({KitchenInbound(m, d), KitchenOutbound(m, d)})
=============================================================================
