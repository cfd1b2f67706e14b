--------------------------- MODULE ManagerScreens ---------------------------
(***************************************************************************)
(* The outlet manager's screens and drawers (UI/src/roles/manager).        *)
(***************************************************************************)
EXTENDS Screens

\* The decision and its undo; a peer outlet is offered whoever raised the request.
ApprovalDecide(m, d) ==
    Face({}, {}, {}, When(May(m, "approvals") /\ Is(d, "req", {"Request sent"}),
                          {Move("approveRequest", "Manager approved"), Move("approveRequest", "Partially approved"),
                           Move("rejectRequest", "Rejected")}))
ApprovalRedirect(m, d) ==
    Face({}, {}, {}, When(May(m, "approvals") /\ Is(d, "req", {"Request sent"}) /\ OpenOutlets \ {d.at} # {},
                          {Move("redirectRequest", "Ticket issued")}))
ApprovalWithdraw(m, d) ==
    Face({}, {}, {}, When(May(m, "approvals") /\ Is(d, "req", Approved) /\ "ticket" \notin d.x,
                          {Move("cancelRequest", "Cancelled")}))
ApprovalDrawer(m, d) ==
    Together({ApprovalDecide(m, d), ApprovalRedirect(m, d), ApprovalWithdraw(m, d)})

ApprovalsWaiting(m, d) == Face({}, {}, When(Is(d, "req", {"Request sent"}), {"mreq"}), {})
ApprovalsActioned(m, d) ==
    Face({}, {}, When(d.k = "req" /\ d.st # "Request sent", {"mreq"}) \cup When(d.k = "adj", {"madjreq"}), {})
Approvals(m, d) == Together({ApprovalsWaiting(m, d), ApprovalsActioned(m, d)})

AdjustmentDecide(m, d) ==
    Face({}, {}, {}, {Move("approveAdjustmentRequest", "Approved"), Move("rejectAdjustmentRequest", "Rejected"),
                      Move("cancelAdjustmentRequest", "Cancelled")})
AdjustmentRequestDrawer(m, d) ==
    IF May(m, "approvals") /\ Is(d, "adj", {"Request sent"}) THEN AdjustmentDecide(m, d) ELSE Blank

\* Every outlet's bills, for a session whose till roll reads wide.
ManagerBills(m, d) == Face({}, {}, When(d.k = "bill", {"cbill"}), {})

CounterPricesSave(m, d) == Face({}, {}, {}, When(May(m, "prices"), {Make("saveOutletPrices", "any")}))
CounterPrices(m, d) == Together({CounterPricesSave(m, d)})

CreditOwed(m, d) == Face({}, {}, When(MayView(m, "settlements"), {"stmt"}), {})
CreditTerms(m, d) ==
    Face({}, {}, {}, When(May(m, "credit"), {Make("setClassTerms", "any"), Make("setPayerTerms", "any")}))
CreditTermsRows(m, d) == Face({}, {}, {}, When(May(m, "credit"), {Make("setPayerTerms", "any")}))
CreditSettlements(m, d) ==
    Face({}, {}, {}, When(/\ MayView(m, "settlements") /\ Holds(m.perms, "void_settlement")
                          /\ d.k = "settle" /\ "today" \in d.x /\ d.st # "Voided",
                          {Move("voidSettlement", "Voided")}))
Credit(m, d) ==
    Together({Face(Ask(m, When(MayView(m, "settlements"), {"receivables", "settlements"})), {}, {}, {}),
              CreditOwed(m, d), CreditTerms(m, d), CreditTermsRows(m, d), CreditSettlements(m, d)})

StatementRecord(m, d) == Face({}, {}, {}, When(May(m, "settlements"), {Make("recordSettlement", "any")}))
StatementDrawer(m, d) == Together({Face(Ask(m, {"statement"}), {}, {}, {}), StatementRecord(m, d)})

EveryRegisterReads(m, d) == Face(When(MayView(m, "x_report"), AskAt("xReport", OpenOutlets)), {}, {}, {})
\* The registers read on the way in: every open outlet's, or the one at home.
ManagerDashboardReads(m, d) ==
    Face(When(MayView(m, "x_report"),
              AskAt("xReport", IF HospitalWide(m) THEN OpenOutlets ELSE OpenOutlets \cap {m.loc})), {}, {}, {})
ManagerDashboardAlerts(m, d) ==
    Face({}, Sees(m, {"approvals", "prices", "items-stock"}), When(May(m, "approvals"), {"korder"}), {})
ManagerDashboardLists(m, d) ==
    Face({}, Sees(m, {"approvals"}), When(Is(d, "req", {"Request sent"}), {"mreq"}), {})
ManagerDashboard(m, d) ==
    Together({ManagerDashboardReads(m, d), ManagerDashboardAlerts(m, d), ManagerDashboardLists(m, d)})
OrderForOutlet(m, d) ==
    Face({}, {}, {}, When(May(m, "approvals"), {Make("createProdOrder", l) : l \in OpenOutlets}))

-----------------------------------------------------------------------------
(* The product drawer: which half of a product is whose (domain items.ts). *)

ITEM_FIELD_FEATURES ==
       [f \in {"mrp", "cost", "gst", "dn"} |-> {"items_stock"}]
    @@ [f \in {"n", "hsn", "rl", "grp", "sl", "src"} |-> {"item_master"}]
    @@ "onOff" :> {"make_distribute"}
    @@ "active" :> {"items_stock", "item_master"}
MayEditItemField(perms, f) == \E feature \in ITEM_FIELD_FEATURES[f] : Can(perms, feature, "edit")

\* The boxes the role owns are live and are what is saved; Retire is drawn for everybody.
ItemFields(m, d) ==
    Face({}, {}, {}, {Move("patchItem", f) :
                        f \in {f \in DOMAIN ITEM_FIELD_FEATURES \ {"active"} : MayEditItemField(m.perms, f)}})
ItemRetire(m, d) == Face({}, {}, {}, {Move("patchItem", "active")})
ItemDrawer(m, d) == IF d.k = "item" THEN Together({ItemFields(m, d), ItemRetire(m, d)}) ELSE Blank

ItemsStockMaster(m, d) == Face({}, {}, When(d.k = "item", {"item"}), {})

MenuListed(m, d) == Face({}, {}, {}, When(May(m, "menu"), {Make("removeMenuItem", "any")}))
MenuAdd(m, d) ==
    Face({}, {}, {}, When(May(m, "menu"), {Make("addMenuItem", "any"), Make("createProductRequest", "any")}))
MenuManagement(m, d) == Together({MenuListed(m, d), MenuAdd(m, d)})
=============================================================================
