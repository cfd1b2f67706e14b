------------------------------- MODULE Desks -------------------------------
(***************************************************************************)
(* Seven people at their screens around one document.  Which screens and   *)
(* drawers each role is shown, what they offer on this document            *)
(* (CounterScreens ... AdminScreens), and what the server does with the    *)
(* press (Accepts): the door of the route, then the service's own location *)
(* and status rules.  The document moves only by presses; the              *)
(* administrator edits the roles meanwhile.                                *)
(***************************************************************************)
EXTENDS CounterScreens, ManagerScreens, KitchenScreens, StoreScreens, BuyerScreens, AdminScreens

CONSTANTS
    RoleEdits,  \* how many grants or refusals the administrator makes
    Watched     \* the kinds of document looked at

VARIABLES
    sits,       \* who is looking: a desk and the place it stands
    holds,      \* what that person's role holds
    paper,      \* the document
    edits       \* role edits made

deskVars == <<sits, holds, paper, edits>>

SeatsAt == [counter |-> {"c1", "c2"}, manager |-> {"c1"}, store |-> {"store"}, prod |-> {"kitchen"},
            buyer |-> {"store"}, admin |-> {"none"}]
Seats == UNION {{[desk |-> k, loc |-> l] : l \in SeatsAt[k]} : k \in DOMAIN SeatsAt}
Nothing == Perms({}, {}, {})
SeededPerms(k) == IF k = "admin" THEN Nothing ELSE DESK_DEFAULTS[k]
\* As much as this desk could ever be given.
Everything(k) ==
    Perms({f \in Features : Grantable(k, f, "edit")}, {f \in Features : Grantable(k, f, "view")},
          {a \in Actions : ActionGrantable(k, a)})

Person(seat, held) == [desk |-> seat.desk, loc |-> seat.loc, perms |-> held]
Seeded == {Person(s, SeededPerms(s.desk)) : s \in Seats}
viewer == Person(sits, holds)

Doc(k, st, at, to, x) == [k |-> k, st |-> st, at |-> at, to |-> to, x |-> x]
\* Each kind of document as it is born, at the places it can be born.
Born ==
    {Doc("req", "Request sent", l, "store", {}) : l \in {"c1", "kitchen"}}
    \cup {Doc("tkt", "Issued", "store", l, {}) : l \in {"c1", "kitchen"}}
    \cup {Doc("tkt", "Issued", "kitchen", "c1", {}), Doc("tkt", "Issued", "c1", "c2", {})}
    \cup {Doc("pord", "New", "c1", "kitchen", {}), Doc("ask", "Asked", "c1", "c2", {}),
          Doc("adj", "Request sent", "c1", "none", {}), Doc("preq", "Requested", "c1", "none", {}),
          Doc("prq", "Sent", "store", "none", {}), Doc("po", "Draft", "store", "none", {}),
          Doc("sup", "Open", "none", "none", {}), Doc("item", "Active", "none", "none", {}),
          Doc("contract", "Live", "none", "none", {}), Doc("settle", "Recorded", "none", "none", {"today"})}
    \cup {Doc("qr", "Paid", "c1", "none", {x}) : x \in {"pickup", "deliver"}}
    \cup {Doc("bill", "Paid", "c1", "none", x) : x \in {{"today"}, {"today", "refundFailed"}, {}}}
    \cup {Doc("acct", "Active", "none", "none", {}), Doc("role", "Active", "none", "none", {}),
          Doc("outlet", "Open", "c1", "none", {}), Doc("payer", "On", "none", "none", {}),
          Doc("qrcode", "On", "c1", "none", {})}

-----------------------------------------------------------------------------
(* What is in front of a person.                                           *)

\* screenFor: the component behind a key, some by the desk or by how far the till roll reads.
DashboardOf(m, d) ==
    CASE m.desk = "counter" -> CounterDashboard(m, d)
      [] m.desk = "manager" -> ManagerDashboard(m, d)
      [] m.desk = "store"   -> StoreDashboard(m, d)
      [] m.desk = "prod"    -> KitchenDashboard(m, d)
      [] OTHER              -> BuyerDashboard(m, d)
ScreenFor(m, d, k) ==
    CASE k = "dash" -> DashboardOf(m, d)
      [] k = "issues" -> Support(m, d)
      [] k = "settings" -> Settings(m, d)
      [] k = "pos" -> Pos(m, d)
      [] k = "qr-orders" -> CounterQrOrders(m, d)
      [] k = "bills" -> IF Cut(m, "bills") THEN CounterBills(m, d) ELSE ManagerBills(m, d)
      [] k = "register" -> Register(m, d)
      [] k = "credit" -> Credit(m, d)
      [] k = "approvals" -> Approvals(m, d)
      [] k = "items-stock" -> ItemsStockMaster(m, d)
      [] k = "menu" -> MenuManagement(m, d)
      [] k = "prices" -> CounterPrices(m, d)
      [] k = "avail" -> KitchenAvailability(m, d)
      [] k = "outlet-stock" -> CounterStock(m, d)
      [] k = "outlet-requests" -> CounterRequests(m, d)
      [] k = "outlet-tickets" -> CounterTickets(m, d)
      [] k = "issue" -> IssueDesk(m, d)
      [] k = "store-stock" -> StoreStock(m, d)
      [] k = "adjust" -> StoreAdjustments(m, d)
      [] k = "procure" -> StoreRequisitions(m, d)
      [] k = "reports" -> StoreReports(m, d)
      [] k = "kitchen-orders" -> KitchenOrders(m, d)
      [] k = "make" -> MakeDistribute(m, d)
      [] k = "kitchen-stock" -> KitchenStock(m, d)
      [] k = "kitchen-requests" -> KitchenRequests(m, d)
      [] k = "kitchen-tickets" -> KitchenTickets(m, d)
      [] k = "requisitions" -> BuyerRequisitions(m, d)
      [] k = "pool" -> ProcurementList(m, d)
      [] k = "purchase-orders" -> PurchaseOrders(m, d)
      [] k = "contracts" -> BuyerContracts(m, d)
      [] k = "inventory" -> BuyerInventory(m, d)
      [] k = "newproducts" -> BuyerNewProducts(m, d)
      [] k = "vendors" -> BuyerVendors(m, d)

\* Every drawer is loaded for every session and opened by its key.
DrawerFor(m, d, k) ==
    CASE k = "cbill" -> BillDrawer(m, d)
      [] k = "cconfig" -> Together({ConfigureDrawer(m, d), PhotoPicker(m, d)})
      [] k = "creqadj" -> RequestAdjustmentDrawer(m, d)
      [] k = "cadjreq" -> CounterAdjustmentRequestDrawer(m, d)
      [] k = "creq" -> RequestDrawer(m, d)
      [] k = "cpord" -> CounterKitchenOrderDrawer(m, d)
      [] k = "ctkt" -> CounterTicketDrawer(m, d)
      [] k = "mreq" -> ApprovalDrawer(m, d)
      [] k = "madjreq" -> AdjustmentRequestDrawer(m, d)
      [] k = "item" -> Together({ItemDrawer(m, d), PhotoPicker(m, d)})
      [] k = "stmt" -> StatementDrawer(m, d)
      [] k = "korder" -> OrderForOutlet(m, d)
      [] k = "stkt" -> StoreTicketDrawer(m, d)
      [] k = "sissue" -> IssueDrawer(m, d)
      [] k = "sprq" -> RequisitionDetail(m, d)
      [] k = "sitem" -> StoreNewProductDrawer(m, d)
      [] k = "pord" -> OrderDrawer(m, d)
      [] k = "phist" -> OrderHistoryDrawer(m, d)
      [] k = "ptkt" -> KitchenTicketDrawer(m, d)
      [] k = "kwaste" -> WastageDrawer(m, d)
      [] k = "pnew" -> KitchenNewProductDrawer(m, d)
      [] k = "adjstock" -> AdjustStockDrawer(m, d)
      [] k = "bprq" -> RequisitionDrawer(m, d)
      [] k = "baddpool" -> AddToListDrawer(m, d)
      [] k = "bpo" -> PoDrawer(m, d)
      [] k = "bgrn" -> PoReceiptDrawer(m, d)
      [] k = "bven" -> VendorDrawer(m, d)
      [] k = "bnewitem" -> BuyerNewProductDrawer(m, d)
      [] k = "bcontract" -> ContractDrawer(m, d)
      [] k = "sup" -> SupportDrawer(m, d)
      [] OTHER -> Blank

\* Everything within reach: the frame, the screens, their drawers, and the drawers those open.
Reachable(m, d) ==
    IF m.desk = "admin" THEN AdminDashboard(m, d)
    ELSE LET screens == Together({Shell(m, d)} \cup {ScreenFor(m, d, k) : k \in Sees(m, ScreenKeys)})
             drawers == Together({DrawerFor(m, d, k) : k \in screens.opens})
         IN  Together({screens, drawers, Together({DrawerFor(m, d, k) : k \in drawers.opens})})

\* What this person can press about this document, and what they can start.
Presses(m, d) == IF InScope(m, d) THEN {o \in Reachable(m, d).offers : o.on = "doc"} ELSE {}
Starts(m, d) == {o \in Reachable(m, d).offers : o.on # "doc"}

-----------------------------------------------------------------------------
(* What the server does with a press.                                      *)

Wide(m, r) == Verdict(r, m.desk, m.perms).wide
Here(m, r, place) == Wide(m, r) \/ m.loc = place

RequestRule(m, d, o) ==
    CASE o.r = "cancelRequest" -> /\ Here(m, o.r, d.at)
                                  /\ d.st # "Ticket issued" /\ "Cancelled" \in REQUEST_TRANSITIONS(d.st)
      [] o.r = "redirectRequest" -> d.st = "Request sent" /\ d.at \in OpenOutlets
      [] OTHER -> o.to \in REQUEST_TRANSITIONS(d.st)
IssuerRule(m, d, o) == m.loc = d.at /\ o.to \in TICKET_TRANSITIONS(d.st)
TicketRule(m, d, o) ==
    /\ m.loc = IF o.r = "receiveTicket" THEN d.to ELSE d.at
    /\ o.to \in TICKET_TRANSITIONS(d.st)
ShopAskRule(m, d, o) == m.loc = d.to /\ o.to \in SHOP_ASK_TRANSITIONS(d.st)
ProdOrderRule(m, d, o) ==
    /\ o.to \in PROD_ORDER_TRANSITIONS(d.st)
    /\ o.r = "setOrderStatus" => "Dispatched" \notin {d.st, o.to}
AdjustmentRequestRule(m, d, o) ==
    /\ o.r = "cancelAdjustmentRequest" => Here(m, o.r, d.at)
    /\ o.to \in ADJUSTMENT_REQUEST_TRANSITIONS(d.st)
RequisitionRule(m, d, o) == o.to \in REQUISITION_TRANSITIONS(d.st)
PoRule(m, d, o) ==
    CASE o.r \in {"updatePoLine", "removePoLine"} -> d.st = "Draft"
      [] o.r = "patchPo" -> d.st \notin {"Received", "Cancelled"}
      [] o.r = "cancelPo" -> "received" \notin d.x /\ o.to \in PO_TRANSITIONS(d.st)
      [] o.r = "closePoShort" -> d.st = "Partially received"
      [] OTHER -> o.to \in PO_TRANSITIONS(d.st)
ProductRequestRule(m, d, o) == d.st = "Requested"
\* The words a user and the desk may set differ; both walk the one table.
SupportRule(m, d, o) ==
    CASE o.r = "rateTicket" -> MayRate(d.st)
      [] o.r \in {"replyToTicket", "replyAsDesk"} ->
            MayReply(d.st) /\ (o.to = d.st \/ o.to \in SUPPORT_TRANSITIONS(d.st))
      [] o.r = "setTicketStatus" -> MayUserSet(o.to) /\ o.to \in SUPPORT_TRANSITIONS(d.st)
      [] OTHER -> MayDeskSet(o.to) /\ o.to \in SUPPORT_TRANSITIONS(d.st)
QrOrderRule(m, d, o) ==
    Here(m, o.r, d.at) /\ o.to \in NextQrStep(d) \cap QR_ORDER_TRANSITIONS(d.st)
BillRule(m, d, o) ==
    IF o.r = "voidBill" THEN VoidableToday(d) ELSE "refundFailed" \in d.x
\* A field is refused to a role that does not own it, whoever may save the product.
ItemRule(m, d, o) == MayEditItemField(m.perms, o.to)
\* A Z-ed, paid or busy document, and a name already taken, are the service's to refuse: not here.
Rule(m, d, o) ==
    CASE d.k = "req" -> RequestRule(m, d, o)
      [] d.k = "tkt" -> TicketRule(m, d, o)
      [] d.k = "ask" -> ShopAskRule(m, d, o)
      [] d.k = "pord" -> ProdOrderRule(m, d, o)
      [] d.k = "adj" -> AdjustmentRequestRule(m, d, o)
      [] d.k = "prq" -> RequisitionRule(m, d, o)
      [] d.k = "po" -> PoRule(m, d, o)
      [] d.k = "preq" -> ProductRequestRule(m, d, o)
      [] d.k = "sup" -> SupportRule(m, d, o)
      [] d.k = "qr" -> QrOrderRule(m, d, o)
      [] d.k = "bill" -> BillRule(m, d, o)
      [] d.k = "item" -> ItemRule(m, d, o)
      [] OTHER -> TRUE

Opens(m, r) == Verdict(r, m.desk, m.perms).ok
Accepts(m, d, o) == Opens(m, o.r) /\ Rule(m, d, o)

\* Where a new thing may be started: its own place, unless the route was met by a wide feature.
StartsHere(m, o) ==
    CASE o.r \in {"createAdjustment", "createWastage"} -> o.on \in {"store", m.loc}
      [] o.r \in {"pay", "createRequest", "createAdjustmentRequest", "closeShift"} -> o.on = m.loc
      [] o.on = "any" -> TRUE
      [] OTHER -> Here(m, o.r, o.on)
AcceptsStart(m, o) == Opens(m, o.r) /\ StartsHere(m, o)

\* A read of a register is of one's own outlet, unless the route was met wide.
ServesRead(m, q) ==
    /\ Opens(m, q.r)
    /\ q.r \in AdmitAdmin => Here(m, q.r, q.on)

-----------------------------------------------------------------------------
(* A day at the desks.                                                     *)

DesksInit ==
    /\ sits \in Seats
    /\ holds \in {SeededPerms(sits.desk)} \cup (IF sits.desk = "admin" THEN {} ELSE {Nothing, Everything(sits.desk)})
    /\ paper \in {d \in Born : d.k \in Watched}
    /\ edits = 0

\* updateRole: one feature's level or one action is changed, if the whole still fits the desk.
Edited(p) ==
    UNION {{[p EXCEPT !.f[f] = l] : l \in {"none", "view", "edit"} \ {p.f[f]}} : f \in Features}
    \cup {[p EXCEPT !.a = IF a \in p.a THEN p.a \ {a} ELSE p.a \cup {a}] : a \in Actions}
UpdateViewersRole ==
    /\ edits < RoleEdits /\ sits.desk # "admin"
    /\ \E p \in Edited(holds) : GrantFits(sits.desk, p) /\ holds' = p
    /\ edits' = edits + 1
    /\ UNCHANGED <<sits, paper>>

\* What a taken press leaves of the document.
After(d, o) ==
    [d EXCEPT !.st = IF d.k = "item" THEN d.st ELSE IF o.r = "retryQrRefund" THEN d.st ELSE o.to,
              !.x = IF o.r = "receivePo" THEN d.x \cup {"received"}
                    ELSE IF o.r = "issueTicket" THEN d.x \cup {"ticket"}
                    ELSE IF o.r = "retryQrRefund" THEN d.x \ {"refundFailed"} ELSE d.x]
TakenFrom(people, d) == UNION {{o \in Presses(m, d) : Accepts(m, d, o)} : m \in people}

\* Everything that can become of a document, in the fullest hands or the seeded ones.
Anyone == Seeded \cup {Person(s, Everything(s.desk)) : s \in Seats}
Lives[n \in Nat] ==
    IF n = 0 THEN {d \in Born : d.k \in Watched}
    ELSE UNION {{d} \cup {After(d, o) : o \in TakenFrom(Anyone, d)} : d \in Lives[n - 1]}
LifeLength == 6
SeededTakes == {<<d, TakenFrom(Seeded, d)>> : d \in Lives[LifeLength]}
\* What everybody, in the seeded roles, can do to a document.
Taken(d) == (CHOOSE t \in SeededTakes : t[1] = d)[2]

PressMine ==
    /\ \E o \in Presses(viewer, paper) : Accepts(viewer, paper, o) /\ paper' = After(paper, o)
    /\ UNCHANGED <<sits, holds, edits>>
PressTheirs ==
    /\ \E o \in Taken(paper) : paper' = After(paper, o)
    /\ UNCHANGED <<sits, holds, edits>>

DesksNext == UpdateViewersRole \/ PressMine \/ PressTheirs
DesksSpec == DesksInit /\ [][DesksNext]_deskVars

-----------------------------------------------------------------------------

\* A link, a queue in the bell and a hit in the search open a screen the role sees (nav.ts:62-66).
LinksLand(face) == sits.desk = "admin" \/ \A k \in face.links : CanSee(viewer, k)

\* A screen never asks the server for what it will be refused: whatever a role holds, every read its
\* screens make on the way in is served.
ReadsAreServed(face) == \A q \in face.reads : ServesRead(viewer, q)

\* selectors.ts:364-367, transitions.ts:3-8: a button is drawn from the table the server refuses by, so
\* a press on a fresh copy is taken, and a form's place is one the caller may write at. Three presses are
\* known to be refused and are set apart: a redirect of a kitchen's request, a product's fields, and the
\* till's on/off switch (OfferedIsAccepted).
PressesAreTaken(face) ==
    \A o \in face.offers :
        IF o.on = "doc"
        THEN InScope(viewer, paper) /\ o.r \notin {"redirectRequest", "patchItem"} => Accepts(viewer, paper, o)
        ELSE o.r # "toggleAvail" => AcceptsStart(viewer, o)

\* What is put in front of a person is what the server will do for them, whatever grants their role
\* has collected and wherever the document has got to: no dead link, no refused read, no dead button.
ScreensKeepTheirWord ==
    LET face == Reachable(viewer, paper)
    IN  LinksLand(face) /\ ReadsAreServed(face) /\ PressesAreTaken(face)

\* Where the kinds of document that wait on somebody come to rest.
AtRest ==
    [req |-> {"Ticket issued", "Rejected", "Cancelled"}, tkt |-> {"Received", "Cancelled"},
     pord |-> {"Dispatched", "Declined"}, ask |-> {"Sent", "Declined"},
     adj |-> {"Approved", "Rejected", "Cancelled"}, preq |-> {"Created", "Declined"},
     prq |-> {"Approved", "Partially approved", "Declined"}, po |-> {"Received", "Cancelled"},
     sup |-> {"Closed"}, qr |-> {"Collected", "Delivered"}]

\* No document is stranded: while it waits, some seeded person has a press that the server takes.
NobodyStuck ==
    paper.k \in DOMAIN AtRest /\ paper.st \notin AtRest[paper.k] => Taken(paper) # {}

\* The four digits and the power to hand the goods over are never in one pair of hands.
TwoPeopleHandOver ==
    paper.k = "tkt" => ~(ReadsOtp(viewer, paper) /\ Accepts(viewer, paper, Move("handover", "Collected")))

\* The person the server would let move a document is shown it: no role can be given a power over rows
\* its snapshot leaves out.
ActorsCanSee ==
    paper.k \in {"req", "tkt", "pord", "adj", "ask", "preq", "qr"} /\ ~InScope(viewer, paper) =>
        \A o \in Taken(paper) : ~Accepts(viewer, paper, o)

\* permissions.ts:223-: a 403 tells someone to ask for what is missing, so it can be given.
AskedForIsGrantable ==
    sits.desk # "admin" =>
        \A r \in Routes :
            Verdict(r, sits.desk, holds).status = 403 =>
                \E p \in Edited(holds) : GrantFits(sits.desk, p) /\ Verdict(r, sits.desk, p).ok

\* Nobody is given work they cannot reach: neither rows out of their sight nor a screen that sends
\* them to ask for what may not be given.
RolesReachTheirWork == ActorsCanSee /\ AskedForIsGrantable

\* Every button, the three set apart included.
OfferedIsAccepted ==
    /\ \A o \in Presses(viewer, paper) : Accepts(viewer, paper, o)
    /\ \A o \in Starts(viewer, paper) : AcceptsStart(viewer, o)
=============================================================================
