---------------------------- MODULE AdminScreens ----------------------------
(***************************************************************************)
(* The administrator's pages (UI/src/pages/Admin*, RoleDrawer).  An        *)
(* administrator holds no role: its pages stand on routes of their own,    *)
(* and the register's three admit it by name.  d is an account, a role, an *)
(* outlet, a payer, a QR code or a support ticket.                         *)
(***************************************************************************)
EXTENDS CommonScreens

AdminReads(rs) == UNION {AskAt(r, {"any"}) : r \in rs}

AccountForms(m, d) == Face({}, {}, {}, {Make("createAdminUser", "any"), Make("setAdminUserPostings", "any")})
AccountRow(m, d) ==
    IF d.k # "acct" THEN Blank
    ELSE Face({}, {}, {},
              {Move("resetAdminUserPassword", d.st), Move("updateAdminUser", d.st), Move("setAdminUserPostings", d.st),
               IF d.st = "Active" THEN Move("deactivateAdminUser", "Inactive") ELSE Move("reactivateAdminUser", "Active")}
              \cup When("unused" \in d.x, {Move("deleteAdminUser", "gone")}))
AdminUsers(m, d) ==
    Together({Face(AdminReads({"adminUsers", "adminActions", "adminLocations", "adminRoles"}), {}, {}, {}),
              AccountForms(m, d), AccountRow(m, d)})

AdminRoles(m, d) ==
    Together({Face(AdminReads({"adminRoles", "adminActions"}), {}, When(d.k = "role", {"role"}), {Make("createRole", "any")}),
              IF d.k # "role" THEN Blank
              ELSE Face({}, {}, {},
                        {IF d.st = "Active" THEN Move("deactivateRole", "Inactive") ELSE Move("reactivateRole", "Active")}
                        \cup When("unused" \in d.x, {Move("deleteRole", "gone")}))})
\* The matrix, each level greyed where the desk could never be given it.
RoleDrawer(m, d) == Face({}, {}, {}, When(d.k = "role", {Move("updateRole", d.st)}))

AdminOutlets(m, d) ==
    Face(AdminReads({"adminLocations", "adminActions"}), {}, {},
         {Make("createOutlet", "any")}
         \cup When(d.k = "outlet",
                   {Move("updateOutlet", d.st),
                    IF d.st = "Open" THEN Move("closeOutlet", "Closed") ELSE Move("reopenOutlet", "Open")}))

AdminPayers(m, d) ==
    Face(AdminReads({"adminPayers", "adminActions"}), {}, {},
         {Make("createPayer", "any")}
         \cup When(d.k = "payer", {Move("updatePayer", d.st), Move("updatePayer", IF d.st = "On" THEN "Off" ELSE "On")}))

HoursEditor(m, d) == Face({}, {}, {}, {Make("setOrderHours", "any")})
AdminQrCodes(m, d) ==
    Together({Face(AdminReads({"adminQrCodes"}), {}, {}, {Make("createQrCode", "any")}), HoursEditor(m, d)})
QrCodeRow(m, d) ==
    Face({}, {}, {}, When(d.k = "qrcode",
                          {Move("updateQrCode", IF d.st = "On" THEN "Off" ELSE "On"), Move("regenerateQrCode", d.st)}))

AdminRegisters(m, d) == RegisterPanel(OpenOutlets, TRUE, TRUE, TRUE)

DeskOffers(from, to) == MayDeskSet(to) /\ to \in SUPPORT_TRANSITIONS(from)
AdminSupport(m, d) == Blank
Conversation(m, d) ==
    IF d.k # "sup" THEN Blank
    ELSE Face({}, {}, {},
              When(MayReply(d.st),
                   {Move("replyAsDesk", DeskStatusAfterReply(d.st, "none"))}
                   \cup {Move("replyAsDesk", to) : to \in {t \in {"Waiting on you", "Resolved"} : DeskOffers(d.st, t)}})
              \cup When(d.st \in {"Open", "Resolved"} /\ DeskOffers(d.st, "With support"),
                        {Move("setDeskTicketStatus", "With support")})
              \cup {Move("setDeskTicketStatus", to) : to \in {t \in {"Resolved", "Closed"} : DeskOffers(d.st, t)}})

AdminAudit(m, d) == Face(AdminReads({"auditLog", "adminUsers"}), {}, {"auditEntry"}, {})

\* Eight tabs over what the page reads as it opens.
AdminDashboard(m, d) ==
    Together({Face(AdminReads({"deskTickets", "adminLocations", "adminPayers", "adminQrCodes"}), {}, {}, {}),
              AdminUsers(m, d), AdminRoles(m, d), RoleDrawer(m, d), AdminOutlets(m, d), AdminQrCodes(m, d),
              QrCodeRow(m, d), AdminRegisters(m, d), AdminPayers(m, d), AdminSupport(m, d), Conversation(m, d),
              AdminAudit(m, d)})
=============================================================================
