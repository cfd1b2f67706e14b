---------------------------- MODULE BuyerScreens ----------------------------
(***************************************************************************)
(* Purchasing's screens and drawers (UI/src/roles/buyer).                  *)
(***************************************************************************)
EXTENDS Screens

BuyerDashboardAlerts(m, d) == Face({}, Sees(m, {"inventory", "purchase-orders", "requisitions"}), {}, {})
BuyerDashboardShelf(m, d) == Face({}, Sees(m, {"inventory", "requisitions"}), {}, {})
BuyerDashboard(m, d) == Together({BuyerDashboardAlerts(m, d), BuyerDashboardShelf(m, d)})

BuyerRequisitionQueue(m, d) == Face({}, {}, When(Is(d, "prq", {"Sent"}), {"bprq"}), {})
BuyerRequisitionPast(m, d) == Face({}, {}, When(d.k = "prq" /\ d.st # "Sent", {"bprq"}), {})
BuyerRequisitions(m, d) == Together({BuyerRequisitionQueue(m, d), BuyerRequisitionPast(m, d)})
RequisitionDecide(m, d) ==
    Face({}, {}, {}, When(May(m, "requisitions") /\ Is(d, "prq", {"Sent"}),
                          {Move("approveRequisition", "Approved"), Move("approveRequisition", "Partially approved"),
                           Move("declineRequisition", "Declined")}))
\* What has become of an approved requisition, read only.
RequisitionProgress(m, d) == Blank
RequisitionDrawer(m, d) == Together({RequisitionDecide(m, d), RequisitionProgress(m, d)})

ProcurementRaise(m, d) ==
    Face({}, Sees(m, {"purchase-orders"}), {}, When(May(m, "procurement_list"), {Make("createPo", "any")}))
ProcurementRows(m, d) == Face({}, {}, When(May(m, "procurement_list"), {"baddpool"}), {})
ProcurementList(m, d) == Together({ProcurementRaise(m, d), ProcurementRows(m, d)})
AddToListDrawer(m, d) ==
    Face({}, {}, {}, When(May(m, "procurement_list"), {Make("addToProcurementList", "any")}))

PurchaseOrdersBoard(m, d) ==
    Face({}, {}, When(d.k = "po", {"bpo"})
                 \cup When(May(m, "goods_receipt") /\ Is(d, "po", {"Ordered", "Partially received"}), {"bgrn"}), {})
PurchaseOrdersOpen(m, d) == Face({}, {}, When(d.k = "po", {"bpo"}), {})
PurchaseOrders(m, d) == Together({PurchaseOrdersBoard(m, d), PurchaseOrdersOpen(m, d)})

\* A draft's lines and terms, and the ways out of it.
PoDraft(m, d) ==
    Face({}, {}, {}, When(Is(d, "po", {"Draft"}),
                          {Move("updatePoLine", "Draft"), Move("removePoLine", "Draft"), Move("patchPo", "Draft")}))
PoSend(m, d) ==
    Face({}, {}, {}, When(Is(d, "po", {"Draft"}) /\ CanSendPo(d.st), {Move("sendPo", "Ordered")}))
PoCancel(m, d) ==
    Face({}, {}, {}, When(Is(d, "po", {"Draft"}) /\ CanCancelPo(d.st, "received" \in d.x),
                          {Move("cancelPo", "Cancelled")}))
\* Once sent, the drawer is read only.
PoSent(m, d) == Blank
PoDrawer(m, d) ==
    IF Is(d, "po", {"Draft"}) /\ May(m, "purchase_orders")
    THEN Together({PoDraft(m, d), PoSend(m, d), PoCancel(m, d)}) ELSE PoSent(m, d)

PoReceive(m, d) ==
    Face({}, {}, {"bpo"}, When(May(m, "goods_receipt") /\ d.k = "po" /\ d.st \notin {"Received", "Cancelled"},
                               {Move("receivePo", "Received"), Move("receivePo", "Partially received")}))
PoShort(m, d) ==
    Face({}, {}, {}, When(May(m, "purchase_orders") /\ d.k = "po" /\ CanCloseShort(d.st),
                          {Move("closePoShort", "Received")}))
PoReceiptDrawer(m, d) == Together({PoReceive(m, d), PoShort(m, d)})

BuyerContractRows(m, d) ==
    Face({}, {}, {}, When(May(m, "rate_contracts") /\ Is(d, "contract", {"Live"}),
                          {Move("updateContract", "Live"), Move("removeContract", "Closed")})
                     \cup When(May(m, "rate_contracts") /\ Is(d, "contract", {"Closed"}),
                               {Move("updateContract", "Live")}))
BuyerContracts(m, d) ==
    Together({Face({}, {}, When(May(m, "rate_contracts"), {"bcontract"}), {}), BuyerContractRows(m, d)})
ContractDrawer(m, d) == Face({}, {}, {}, When(May(m, "rate_contracts"), {Make("addContract", "any")}))

BuyerInventory(m, d) == Face({}, {}, When(d.k = "item", {"item"}), {})
BuyerNewProducts(m, d) ==
    Face({}, {}, When(May(m, "new_products"), {"bnewitem"}),
         When(May(m, "new_products") /\ Is(d, "preq", {"Requested"}), {Move("answerProductRequest", "Declined")}))
\* The product first, then the answer on the request it was made for.
BuyerNewProductDrawer(m, d) ==
    Face({}, {}, {}, When(May(m, "item_master"), {Make("createItem", "any")})
                     \cup When(May(m, "item_master") /\ Is(d, "preq", {"Requested"}),
                               {Move("answerProductRequest", "Created")}))
BuyerVendors(m, d) == Face({}, {}, {"bven"}, {})
VendorDrawer(m, d) ==
    Face({}, {}, {}, When(May(m, "vendors"), {Make("addVendor", "any"), Make("updateVendor", "any")}))
=============================================================================
