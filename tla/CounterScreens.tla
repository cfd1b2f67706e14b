--------------------------- MODULE CounterScreens ---------------------------
(***************************************************************************)
(* The counter's screens and drawers (UI/src/roles/counter).               *)
(***************************************************************************)
EXTENDS Screens

PosTaking(m, d) == Face(Ask(m, {"creditReport"}), {}, {"cbill"}, {})
\* The tile's menu offers the switch without asking for Product on/off, as the shelf's menu does.
PosTiles(m, d) == Face({}, {}, {"cconfig"}, {Make("toggleAvail", m.loc)})
PosTender(m, d) == Face({}, {}, {}, {Make("pay", m.loc)})
Pos(m, d) == Together({PosTaking(m, d), PosTiles(m, d), PosTender(m, d)})

\* nextQrStep (domain qr.ts): the walk of the code's own mode.
NextQrStep(d) ==
    CASE d.st = "Paid"             -> {"Preparing"}
      [] d.st = "Preparing"        -> IF "pickup" \in d.x THEN {"Ready"} ELSE {"Out for delivery"}
      [] d.st = "Ready"            -> {"Collected"}
      [] d.st = "Out for delivery" -> {"Delivered"}
      [] OTHER                     -> {}
CounterQrOrders(m, d) ==
    Face(Ask(m, {"qrOrders"}), {}, {"cbill"},
         When(May(m, "qr_orders") /\ d.k = "qr", {Move("setQrOrderStatus", to) : to \in NextQrStep(d)})
         \cup When(May(m, "qr_orders") /\ m.desk \in TillDesks, {Make("setQrPause", m.loc)}))

CounterBills(m, d) == Face({}, Sees(m, {"pos"}), When(d.k = "bill" /\ d.at = m.loc /\ "today" \in d.x, {"cbill"}), {})

VoidableToday(d) == "today" \in d.x /\ d.st # "Voided"
BillDrawer(m, d) ==
    IF d.k # "bill" \/ ~Holds(m.perms, "void_bill") THEN Blank
    ELSE Face({}, {}, {}, When(VoidableToday(d), {Move("voidBill", "Voided")})
                          \cup When("refundFailed" \in d.x, {Move("retryQrRefund", "Pending")}))

ConfigureDrawer(m, d) == Face({}, {}, {}, When(May(m, "availability"), {Make("toggleAvail", m.loc)}))

\* The shelf: what it offers on a card, and the adjustment asks under it.
CounterStockCards(m, d) ==
    Face({}, When(May(m, "outlet_requests"), {"outlet-requests"}), {"cconfig"},
         When(May(m, "availability"), {Make("toggleAvail", m.loc)}))
CounterStockAsks(m, d) == Face({}, {}, When(d.k = "adj" /\ d.at = m.loc, {"cadjreq"}), {})
CounterStock(m, d) ==
    Together({Face({}, Sees(m, {"outlet-requests"}), When(May(m, "outlet_stock"), {"creqadj"}), {}),
              CounterStockCards(m, d), CounterStockAsks(m, d)})

RequestAdjustmentDrawer(m, d) ==
    Face({}, {}, {}, When(May(m, "outlet_stock"), {Make("createAdjustmentRequest", m.loc)}))
CounterAdjustmentRequestDrawer(m, d) ==
    Face({}, {}, {}, When(May(m, "outlet_stock") /\ Is(d, "adj", {"Request sent"}),
                          {Move("cancelAdjustmentRequest", "Cancelled")}))

\* Another shop's ask, the form, and the counter's own requests and kitchen orders.
InboundAsks(m, d) ==
    Face({}, {}, {}, When(May(m, "outlet_requests") /\ Is(d, "ask", {"Asked"}) /\ d.to = m.loc,
                          {Move("answerShopAsk", "Sent"), Move("declineShopAsk", "Declined")}))
RequestForm(m, d) ==
    Face({}, {}, {}, When(May(m, "outlet_requests"),
                          {Make("createRequest", m.loc), Make("createProdOrder", m.loc)}))
KitchenOrderCard(m, d) == Face({}, {}, When(d.k = "pord" /\ d.at = m.loc, {"cpord"}), {})
MyRequests(m, d) == Face({}, {}, When(d.k = "req" /\ d.at = m.loc, {"creq"}), {})
CounterRequests(m, d) ==
    Together({InboundAsks(m, d), RequestForm(m, d), MyRequests(m, d), KitchenOrderCard(m, d)})

RequestDrawer(m, d) ==
    Face({}, {}, {}, When(May(m, "outlet_requests") /\ d.k = "req" /\ IsReqOpen(d.st),
                          {Move("cancelRequest", "Cancelled")}))
\* Read only: where the order has got to.
CounterKitchenOrderDrawer(m, d) == Blank

CounterTickets(m, d) ==
    Face({}, Sees(m, {"outlet-requests"}), When(d.k = "tkt" /\ m.loc \in {d.at, d.to}, {"ctkt"}),
         When(May(m, "outlet_tickets") /\ d.k = "tkt" /\ d.to = m.loc /\ CanReceiveTicket(d.st),
              {Move("receiveTicket", "Received")}))
CounterTicketDrawer(m, d) ==
    IF d.k # "tkt" \/ ~May(m, "outlet_tickets") THEN Blank
    ELSE Face({}, {}, {}, When(d.to = m.loc /\ CanReceiveTicket(d.st), {Move("receiveTicket", "Received")})
                          \cup When(d.at = m.loc /\ CanCancelTicket(d.st), {Move("cancelTicket", "Cancelled")}))

CounterDashboardAlerts(m, d) == Face({}, Sees(m, {"outlet-requests", "outlet-tickets"}), {}, {})
CounterDashboardLists(m, d) ==
    Face({}, Sees(m, {"outlet-requests", "pos", "bills", "register"}),
         When(d.k = "req" /\ d.at = m.loc, {"creq"}), {})
CounterDashboard(m, d) ==
    Together({Face(Ask(m, When(MayView(m, "x_report"), {"xReport"})), Sees(m, {"outlet-requests", "pos"}), {}, {}),
              CounterDashboardAlerts(m, d), CounterDashboardLists(m, d)})
=============================================================================
