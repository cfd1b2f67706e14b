---------------------------- MODULE StoreScreens ----------------------------
(***************************************************************************)
(* The central store's screens and drawers (UI/src/roles/store).           *)
(***************************************************************************)
EXTENDS Screens

StoreAdjustments(m, d) == Face({}, {}, When(May(m, "adjustments"), {"adjstock"}), {})

StoreDashboardAlerts(m, d) ==
    Face({}, Sees(m, {"issue", "procure"}), When(d.k = "prq" /\ d.st \in {"Declined", "Partially approved"}, {"sprq"}), {})
StoreDashboardShelf(m, d) == Face({}, Sees(m, {"store-stock", "procure"}), {}, {})
StoreDashboard(m, d) == Together({StoreDashboardAlerts(m, d), StoreDashboardShelf(m, d)})

\* An approved request that has no ticket yet becomes one.
Issues(m, d) ==
    When(May(m, "issue_desk") /\ d.k = "req" /\ CanIssueTicket(d.st) /\ "ticket" \notin d.x,
         {Move("issueTicket", "Ticket issued")})
IssueApproved(m, d) ==
    Face({}, {}, When(d.k = "req" /\ CanIssueTicket(d.st) /\ "ticket" \notin d.x, {"sissue"}), Issues(m, d))
IssueTickets(m, d) ==
    Face({}, {}, When(Is(d, "tkt", {"Issued"}) /\ d.at = "store", {"stkt"})
                 \cup When(Is(d, "tkt", {"Collected"}) /\ d.at = "store", {"sissue"}), {})
IssueDesk(m, d) == Together({IssueApproved(m, d), IssueTickets(m, d)})
IssueDetail(m, d) == Face({}, {}, {}, Issues(m, d))
IssueDetailTicket(m, d) ==
    Face({}, {}, When(d.k = "tkt", {"stkt"}),
         When(May(m, "issue_desk") /\ d.k = "tkt" /\ d.at = "store" /\ CanHandOver(d.st), {Move("handover", "Collected")}))
IssueDrawer(m, d) == Together({IssueDetail(m, d), IssueDetailTicket(m, d)})

StoreTicketDrawer(m, d) ==
    IF ~(May(m, "issue_desk") /\ d.k = "tkt" /\ d.at = "store") THEN Blank
    ELSE Face({}, {}, {}, When(CanHandOver(d.st), {Move("handover", "Collected")})
                          \cup When(CanCancelTicket(d.st), {Move("cancelTicket", "Cancelled")}))

StoreNewProductDrawer(m, d) == Face({}, {}, {}, When(May(m, "item_master"), {Make("createItem", "any")}))

StoreRequisitionForm(m, d) ==
    Face({}, {}, {}, When(May(m, "store_requisitions"), {Make("createRequisition", "any")}))
StoreRequisitionList(m, d) == Face({}, {}, When(d.k = "prq", {"sprq"}), {})
StoreRequisitions(m, d) == Together({StoreRequisitionForm(m, d), StoreRequisitionList(m, d)})
\* Read only: what became of each line, on which order.
RequisitionDetail(m, d) == Blank

StoreStockShelf(m, d) ==
    Face({}, Sees(m, {"procure"}) \cup When(May(m, "store_requisitions"), {"procure"}),
         When(May(m, "item_master"), {"sitem"}), {})
StoreStockRows(m, d) == Face({}, {}, When(d.k = "item", {"item"}), {})
StoreStock(m, d) == Together({StoreStockShelf(m, d), StoreStockRows(m, d)})

\* Only the ledger is a read of its own; the other reports are cut from the snapshot.
StoreReports(m, d) == Face(Ask(m, When(MayView(m, "stock_ledger"), {"stockLedger"})), {}, {}, {})
=============================================================================
