---------------------------- MODULE CommonScreens ----------------------------
(***************************************************************************)
(* What every desk has: support, the account, the register and its shift,  *)
(* and the forms several desks share (UI/src/pages, UI/src/ui).            *)
(***************************************************************************)
EXTENDS Screens

\* support.ts: the words that are the reporter's, the desk's, and what a reply does.
MayUserSet(st) == st \in {"Resolved", "Closed"}
MayRate(st) == st \in {"Resolved", "Closed"}
MayReply(st) == st # "Closed"
StatusAfterReply(st) == IF st \in {"Waiting on you", "Resolved"} THEN "With support" ELSE st
MayDeskSet(st) == st # "Open"
DeskStatusAfterReply(st, sentWith) ==
    IF sentWith # "none" THEN sentWith ELSE IF st = "Open" THEN "With support" ELSE st

Support(m, d) == Face({}, {}, When(d.k = "sup", {"sup"}), {Make("raiseTicket", "any")})
SupportDrawer(m, d) ==
    IF d.k # "sup" THEN Blank
    ELSE Face({}, {}, {},
              {Move("setTicketStatus", to) : to \in {t \in SUPPORT_TRANSITIONS(d.st) : MayUserSet(t)}}
              \cup When(MayReply(d.st), {Move("replyToTicket", StatusAfterReply(d.st))})
              \cup When(MayRate(d.st), {Move("rateTicket", d.st)}))

Settings(m, d) == Face({}, {}, {}, {Make("patchMe", "any"), Make("changePassword", "any")})

\* The dialog reads the open shift and closes it; both are the counter desk's alone.
CloseShift(m, d) == Face(Ask(m, {"currentShift"}), {}, {}, {Make("closeShift", m.loc)})
ShiftReports(m, d) == Face(Ask(m, {"shifts"}), {}, {}, {})
\* The panel at an outlet: the live X, the Zs, and the close.
RegisterPanel(outlets, canX, canZ, canClose) ==
    Face(When(canX, AskAt("xReport", outlets)) \cup When(canZ, AskAt("zReports", outlets)), {}, {},
         When(canClose, {Make("closeRegister", l) : l \in outlets}))
Register(m, d) ==
    Together({RegisterPanel(IF HospitalWide(m) THEN OpenOutlets ELSE {m.loc}, MayView(m, "x_report"),
                            MayView(m, "z_report"), May(m, "z_report")),
              IF MayView(m, "shift_reports") THEN ShiftReports(m, d) ELSE Blank,
              IF m.desk = "counter" THEN CloseShift(m, d) ELSE Blank})

AdjustmentForm(m, mode, place) ==
    Face({}, {}, {}, {Make(IF mode = "request" THEN "createAdjustmentRequest" ELSE "createAdjustment", place)})
\* The drawer a shelf's own button pins to that shelf.
AdjustStockDrawer(m, d) ==
    IF ~May(m, "adjustments") THEN Blank
    ELSE AdjustmentForm(m, "direct", IF m.desk = "prod" THEN "kitchen" ELSE "store")

NewProductForm(m, d) == Face({}, {}, {}, When(May(m, "item_master"), {Make("createItem", "any")}))

PhotoPicker(m, d) ==
    Face({}, {}, {}, When(May(m, "item_photos"), {Make("setItemImage", "any"), Make("removeItemImage", "any")}))
==============================================================================
