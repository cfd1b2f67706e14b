---------------------------- MODULE Permissions ----------------------------
(***************************************************************************)
(* What a role may do: the catalogue of features and actions, the seeded   *)
(* roles, the one reading of "may this person use this door"               *)
(* (packages/domain/src/permissions.ts) and the doors themselves, every    *)
(* desk route with its access (packages/contract/src/routes.ts).           *)
(*                                                                         *)
(* perms is what a role holds: f, a level for each feature, and a, its     *)
(* actions.  A route's sentence of refusal is its status alone.            *)
(***************************************************************************)
EXTENDS Sequences, SequencesExt, FiniteSets, TLC

AllDesks == {"counter", "manager", "store", "prod", "buyer"}
TillDesks == {"counter", "manager"}

Feature(scope, view, edit) == [scope |-> scope, view |-> view, edit |-> edit]

SalesFeatures ==
       "billing"       :> Feature("local", TillDesks, {"counter"})
    @@ "x_report"      :> Feature("local", TillDesks, {})
    @@ "z_report"      :> Feature("local", TillDesks, TillDesks)
    @@ "shift_reports" :> Feature("wide", TillDesks, {})
    @@ "credit"        :> Feature("wide", AllDesks, AllDesks)
    @@ "settlements"   :> Feature("wide", AllDesks, AllDesks)
    @@ "qr_orders"     :> Feature("local", TillDesks, TillDesks)

OutletFeatures ==
       [f \in {"approvals", "items_stock", "menu", "prices"} |-> Feature("wide", AllDesks, AllDesks)]
    @@ "availability"  :> Feature("local", {}, {"counter", "manager", "prod"})
    @@ "item_photos"   :> Feature("local", {}, TillDesks)
    @@ [f \in {"outlet_stock", "outlet_requests", "outlet_tickets"} |->
            Feature("local", {"counter"}, {"counter"})]

BackFeatures ==
       [f \in {"issue_desk", "store_requisitions"} |-> Feature("local", {"store"}, {"store"})]
    @@ [f \in {"store_stock", "store_reports"} |-> Feature("local", {"store"}, {})]
    @@ "adjustments"   :> Feature("local", {"store", "prod"}, {"store", "prod"})
    @@ "goods_receipt" :> Feature("local", {}, {"store", "buyer"})
    @@ [f \in {"kitchen_orders", "make_distribute", "kitchen_requests", "kitchen_tickets"} |->
            Feature("local", {"prod"}, {"prod"})]
    @@ "kitchen_stock" :> Feature("local", {"prod"}, {})
    @@ [f \in {"requisitions", "procurement_list", "purchase_orders", "rate_contracts", "vendors"} |->
            Feature("wide", AllDesks, AllDesks)]
    @@ "item_master"   :> Feature("local", {}, {"store", "prod", "buyer"})
    @@ "new_products"  :> Feature("wide", {"store", "buyer"}, {"store", "buyer"})
    @@ [f \in {"inventory", "stock_ledger"} |-> Feature("wide", AllDesks, {})]

FEATURES == SalesFeatures @@ OutletFeatures @@ BackFeatures
Features == DOMAIN FEATURES

\* The three powers that are not a screen: the feature each sits under, and its desks.
ActionDefs ==
       "void_bill"       :> [parent |-> "billing", desks |-> AllDesks]
    @@ "void_settlement" :> [parent |-> "settlements", desks |-> AllDesks]
    @@ "all_outlets"     :> [parent |-> "none", desks |-> TillDesks]
Actions == DOMAIN ActionDefs

Can(perms, f, l) == perms.f[f] = "edit" \/ (l = "view" /\ perms.f[f] = "view")
Holds(perms, a) == a \in perms.a

\* What is held at edit, what at view, and the actions.
Perms(edit, view, acts) ==
    [f |-> [f \in Features |-> IF f \in edit THEN "edit" ELSE IF f \in view THEN "view" ELSE "none"],
     a |-> acts]

DESK_DEFAULTS ==
    [counter |-> Perms({"billing", "availability", "item_photos", "outlet_stock", "outlet_requests",
                        "outlet_tickets", "qr_orders"}, {"x_report"}, {}),
     manager |-> Perms({"credit", "settlements", "approvals", "items_stock", "menu", "prices",
                        "availability", "item_photos"},
                       {"billing", "x_report", "shift_reports", "stock_ledger", "qr_orders"}, Actions),
     store   |-> Perms({"issue_desk", "store_requisitions", "adjustments", "goods_receipt", "item_master"},
                       {"store_stock", "store_reports", "stock_ledger"}, {}),
     prod    |-> Perms({"kitchen_orders", "make_distribute", "kitchen_requests", "kitchen_tickets",
                        "availability", "adjustments", "item_master"},
                       {"kitchen_stock", "stock_ledger"}, {}),
     buyer   |-> Perms({"requisitions", "procurement_list", "purchase_orders", "rate_contracts", "vendors",
                        "goods_receipt", "item_master", "new_products"},
                       {"inventory", "stock_ledger"}, {})]

\* grantable and actionGrantable: what the administrator could ever give this desk.
Grantable(desk, f, l) == desk \in FEATURES[f][l]
ActionGrantable(desk, a) ==
    /\ desk \in ActionDefs[a].desks
    /\ ActionDefs[a].parent # "none" => Grantable(desk, ActionDefs[a].parent, "view")

\* grantRefusal: the role editor and the server refuse a set of permissions that does not fit the desk.
GrantFits(desk, perms) ==
    /\ \A f \in Features : perms.f[f] # "none" => Grantable(desk, f, perms.f[f])
    /\ \A a \in perms.a : /\ desk \in ActionDefs[a].desks
                          /\ ActionDefs[a].parent # "none" => Can(perms, ActionDefs[a].parent, "view")

Refused == [ok |-> FALSE, wide |-> FALSE, status |-> 404]
Admitted(wide) == [ok |-> TRUE, wide |-> wide, status |-> 200]

-----------------------------------------------------------------------------
(* A route's access: needs, met by any one and read in order, or a desk.   *)

Need(f, l) == [f |-> f, l |-> l]
Act(a) == [f |-> a, l |-> "act"]
Needs(ns) == [kind |-> "needs", needs |-> ns, desks |-> {}]
Edits(f) == Needs(<<Need(f, "edit")>>)
Views(f) == Needs(<<Need(f, "view")>>)
AnyOne == [kind |-> "any", needs |-> <<>>, desks |-> AllDesks]
Desk(d) == [kind |-> "desk", needs |-> <<>>, desks |-> {d}]

Met(n, perms) == IF n.l = "act" THEN Holds(perms, n.f) ELSE Can(perms, n.f, n.l)
WideOf(n, perms) == n.l = "act" \/ FEATURES[n.f].scope = "wide" \/ Holds(perms, "all_outlets")
SeenIsAskable(n, desk, perms) == n.l # "act" /\ Can(perms, n.f, "view")
\* What is missing could be asked for: the screen is already in front of them.
Askable(n, desk, perms) ==
    IF n.l = "act"
    THEN LET p == ActionDefs[n.f].parent
         IN  p # "none" /\ Can(perms, p, "view") /\ ActionGrantable(desk, n.f)
    ELSE Can(perms, n.f, "view") /\ Grantable(desk, n.f, n.l)

\* The gate (plugins/rbac.ts) asks this of every desk's request; the client asks it before it draws.
Admits(access, desk, perms) ==
    IF access.kind \in {"any", "desk"}
    THEN IF desk \in access.desks THEN Admitted(Holds(perms, "all_outlets")) ELSE Refused
    ELSE LET met == SelectSeq(access.needs, LAMBDA n : Met(n, perms))
         IN  IF met # <<>> THEN Admitted(WideOf(Head(met), perms))
             ELSE [Refused EXCEPT !.status =
                     IF \E i \in 1..Len(access.needs) : Askable(access.needs[i], desk, perms)
                     THEN 403 ELSE 404]

-----------------------------------------------------------------------------
(* The desk routes.                                                        *)

PriceRoutes == {"savePrice", "createPriceList", "deletePriceList", "setOutletPriceList", "saveOutletPrices"}

CatalogueRoutes ==
       "priceLists" :> Views("prices")
    @@ "pay" :> Edits("billing")
    @@ "toggleAvail" :> Edits("availability")
    @@ [r \in PriceRoutes |-> Edits("prices")]
    @@ [r \in {"addMenuItem", "removeMenuItem"} |-> Edits("menu")]

MovementRoutes ==
       "createRequest" :> Needs(<<Need("outlet_requests", "edit"), Need("kitchen_requests", "edit")>>)
    @@ "cancelRequest" :> Needs(<<Need("approvals", "edit"), Need("outlet_requests", "edit"),
                                  Need("kitchen_requests", "edit")>>)
    @@ [r \in {"approveRequest", "rejectRequest", "redirectRequest"} |-> Edits("approvals")]
    @@ "issueTicket" :> Edits("issue_desk")
    @@ [r \in {"handover", "receiveTicket", "cancelTicket"} |->
            Needs(<<Need("issue_desk", "edit"), Need("kitchen_tickets", "edit"), Need("outlet_tickets", "edit")>>)]
    @@ "transfer" :> Needs(<<Need("items_stock", "edit"), Need("outlet_tickets", "edit")>>)
    @@ [r \in {"askShop", "answerShopAsk", "declineShopAsk"} |-> Edits("outlet_requests")]
    @@ [r \in {"dispatchProdOrder", "setOrderStatus"} |-> Edits("kitchen_orders")]
    @@ [r \in {"distribute", "makeBatch"} |-> Edits("make_distribute")]

BuyingRoutes ==
       "createRequisition" :> Edits("store_requisitions")
    @@ [r \in {"approveRequisition", "declineRequisition"} |-> Edits("requisitions")]
    @@ [r \in {"addToProcurementList", "createPo"} |-> Edits("procurement_list")]
    @@ [r \in {"updatePoLine", "removePoLine", "patchPo", "sendPo", "cancelPo", "closePoShort"} |->
            Edits("purchase_orders")]
    @@ "receivePo" :> Edits("goods_receipt")
    @@ [r \in {"addVendor", "updateVendor"} |-> Edits("vendors")]
    @@ [r \in {"addContract", "updateContract", "removeContract"} |-> Edits("rate_contracts")]
    @@ "createItem" :> Edits("item_master")
    @@ "createProductRequest" :> Needs(<<Need("menu", "edit"), Need("outlet_requests", "edit")>>)
    @@ "answerProductRequest" :> Needs(<<Need("new_products", "edit"), Need("store_requisitions", "edit")>>)

\* The lists behind a snapshot, and one's own support tickets.
OpenRoutes ==
    [r \in {"me", "patchMe", "snapshot", "items", "locations", "prices", "menus", "stock", "bills",
            "requests", "ticketsList", "shopAsks", "prodOrders", "batches", "requisitions",
            "purchaseOrders", "grns", "vendors", "contracts", "productRequests", "raiseTicket",
            "replyToTicket", "setTicketStatus", "rateTicket", "tickets", "shifts", "roster",
            "payerTerms", "receivables", "settlements", "adjustments", "adjustmentRequests",
            "changePassword"} |-> AnyOne]

MoneyRoutes ==
       "stockLedger" :> Views("stock_ledger")
    @@ "creditReport" :> Needs(<<Need("credit", "view"), Need("settlements", "view"), Need("billing", "edit")>>)
    @@ "xReport" :> Views("x_report")
    @@ "closeRegister" :> Edits("z_report")
    @@ "zReports" :> Views("z_report")
    @@ [r \in {"currentShift", "closeShift"} |-> Desk("counter")]
    @@ [r \in {"setClassTerms", "setPayerTerms"} |-> Edits("credit")]
    @@ "statement" :> Views("settlements")
    @@ "recordSettlement" :> Edits("settlements")
    @@ "voidSettlement" :> Needs(<<Act("void_settlement")>>)

ShelfRoutes ==
       "patchItem" :> Needs(<<Need("items_stock", "edit"), Need("item_master", "edit")>>)
    @@ [r \in {"setItemImage", "removeItemImage"} |-> Edits("item_photos")]
    @@ "voidBill" :> Needs(<<Act("void_bill")>>)
    @@ [r \in {"createAdjustment", "createWastage"} |-> Edits("adjustments")]
    @@ "kitchenReport" :> Views("kitchen_stock")
    @@ "createAdjustmentRequest" :> Edits("outlet_stock")
    @@ "cancelAdjustmentRequest" :> Needs(<<Need("approvals", "edit"), Need("outlet_stock", "edit")>>)
    @@ [r \in {"approveAdjustmentRequest", "rejectAdjustmentRequest"} |-> Edits("approvals")]
    @@ "createProdOrder" :> Needs(<<Need("approvals", "edit"), Need("outlet_requests", "edit")>>)

QrRoutes ==
       "qrOrders" :> Views("qr_orders")
    @@ [r \in {"setQrOrderStatus", "setQrPause"} |-> Edits("qr_orders")]
    @@ "retryQrRefund" :> Needs(<<Act("void_bill")>>)

\* The administrator's routes; a desk asking for one finds nothing there.
AdminRoutes ==
    {"adminUsers", "createAdminUser", "resetAdminUserPassword", "deactivateAdminUser", "reactivateAdminUser",
     "updateAdminUser", "setAdminUserPostings", "deleteAdminUser", "adminActions", "adminPayers", "createPayer",
     "updatePayer", "adminRoles", "createRole", "updateRole", "deactivateRole", "reactivateRole", "deleteRole",
     "adminLocations", "createOutlet", "updateOutlet", "closeOutlet", "reopenOutlet", "deskTickets",
     "replyAsDesk", "setDeskTicketStatus", "adminQrCodes", "createQrCode", "updateQrCode", "regenerateQrCode",
     "setOrderHours", "auditLog", "auditEntry"}
\* The register's three are the desks', and admit the administrator by name.
AdmitAdmin == {"xReport", "zReports", "closeRegister"}

Access == CatalogueRoutes @@ MovementRoutes @@ BuyingRoutes @@ OpenRoutes @@ MoneyRoutes @@ ShelfRoutes @@ QrRoutes
Routes == DOMAIN Access

\* roleGate: an administrator's token opens its own routes and those that admit it, and nothing else.
Verdict(r, desk, perms) ==
    IF desk = "admin" \/ r \in AdminRoutes
    THEN IF desk = "admin" /\ r \in AdminRoutes \cup AdmitAdmin THEN Admitted(TRUE) ELSE Refused
    ELSE Admits(Access[r], desk, perms)

-----------------------------------------------------------------------------
(* Which rows of a collection a caller reads.                              *)

LedgerWidens ==
    [c \in {"bills", "stock", "requests", "tickets", "shopAsks", "prodOrders", "adjReq", "productReqs"} |->
        IF c = "stock" THEN {"stock_ledger"} ELSE {}]
WIDENED_BY ==
       "bills" :> {}
    @@ "stock" :> {"items_stock", "stock_ledger", "inventory", "prices", "menu"}
    @@ "tickets" :> {"approvals", "items_stock"}
    @@ "productReqs" :> {"approvals", "menu"}
    @@ [c \in {"requests", "shopAsks", "prodOrders", "adjReq"} |-> {"approvals"}]

ReadsWide(desk, perms, c) ==
    \/ desk \notin TillDesks
    \/ Holds(perms, "all_outlets")
    \/ \E f \in WIDENED_BY[c] : Can(perms, f, "view")

ReadsBills(desk, perms) == desk \notin TillDesks \/ Can(perms, "billing", "view")

=============================================================================
