------------------------------ MODULE Sessions ------------------------------
(***************************************************************************)
(* Sign-in: the attempt budget, refresh-token families and their rotation, *)
(* everything that ends a session, and the operator's shift                *)
(* (modules/auth, lib/users-admin.ts, lib/shifts.ts, modules/shifts).      *)
(*                                                                         *)
(* A request is split at its unlocked reads.  An UPDATE of many rows is    *)
(* split too: at READ COMMITTED it picks its rows from the snapshot it     *)
(* started with, waits for the ones another transaction holds, and never   *)
(* sees a row inserted meanwhile.                                          *)
(*                                                                         *)
(* A family is named by its first token.  pw is the version of a password. *)
(* A revoked token and one past its lifetime are alike dead.  The accounts *)
(* are counter operators, so every sign-in starts a shift.  Where they are *)
(* posted is Staff's.                                                      *)
(***************************************************************************)
EXTENDS Integers, FiniteSets

CONSTANTS
    Operators,
    Counters,
    Calls,              \* bound: requests in flight at once
    MaxTokens,          \* bound: refresh tokens ever minted
    MaxPasswords,       \* bound: passwords an account ever has
    LOGIN_BUDGET        \* loginRateLimitPerEmpPerMinute

ASSUME SessionAssumption ==
    /\ "none" \notin Operators /\ "none" \notin Counters
    /\ IsFiniteSet(Calls) /\ MaxTokens \in Nat /\ LOGIN_BUDGET \in Nat

Tokens == 1..MaxTokens

VARIABLES
    acct,       \* users: password and active
    tok,        \* refresh_tokens
    shift,      \* open shifts: how many a person has at each counter
    slots,      \* Attempts: what a pod's window holds of each employee id
    wrong,      \* history: wrong passwords verified in that window
    call        \* requests in flight

sessionVars == <<acct, tok, shift, slots, wrong, call>>

NoToken == [user |-> "none", family |-> 0, heirOf |-> 0, pw |-> 0, used |-> FALSE, dead |-> FALSE]
NoCall == [at |-> "idle", user |-> "none", loc |-> "none", pw |-> 0, token |-> 0, rows |-> {},
           held |-> "none"]

Minted == {t \in Tokens : tok[t].user # "none"}
NextToken == Cardinality(Minted) + 1
Live(t) == t \in Minted /\ ~tok[t].used /\ ~tok[t].dead

-----------------------------------------------------------------------------
(* The password check, before any transaction.                             *)

BeginSpendingLater(u) == slots

\* begin: the slot is spent before the password is verified.
Begin(u) == [slots EXCEPT ![u] = @ + 1]

\* isLocked and begin run back to back; Argon2 then takes its time.
LoginBegin(c, u, l) ==
    /\ call[c].at = "idle"
    /\ slots[u] < LOGIN_BUDGET
    /\ slots' = Begin(u)
    /\ call' = [call EXCEPT ![c] = [NoCall EXCEPT !.at = "verifying", !.user = u, !.loc = l]]
    /\ UNCHANGED <<acct, tok, shift, wrong>>

\* The right password of an active account gives its slot back, and only its own.
LoginVerified(c) ==
    LET u == call[c].user
    IN  /\ call[c].at = "verifying"
        /\ acct[u].active
        /\ slots' = [slots EXCEPT ![u] = IF @ > 0 THEN @ - 1 ELSE 0]
        /\ call' = [call EXCEPT ![c].at = "verified", ![c].pw = acct[u].pw]
        /\ UNCHANGED <<acct, tok, shift, wrong>>

\* A wrong password, an unknown number or an account switched off: one refusal for all three.
LoginRefused(c) ==
    /\ call[c].at = "verifying"
    /\ wrong' = [wrong EXCEPT ![call[c].user] = @ + 1]
    /\ call' = [call EXCEPT ![c] = NoCall]
    /\ UNCHANGED <<acct, tok, shift, slots>>

\* A minute passes.  Verifying takes far less, so nothing is in flight from before it.
WindowPasses(u) ==
    /\ slots[u] > 0
    /\ \A c \in Calls : ~(call[c].at = "verifying" /\ call[c].user = u)
    /\ slots' = [slots EXCEPT ![u] = 0]
    /\ wrong' = [wrong EXCEPT ![u] = 0]
    /\ UNCHANGED <<acct, tok, shift, call>>

-----------------------------------------------------------------------------
(* The sign-in's transaction: issue, then startShift.                      *)

OpenShifts(u) == {l \in Counters : shift[u][l] > 0}

AnyShiftLock(u) == TRUE
\* lockShiftsOf: an advisory lock on the person, held to the end of the transaction.
LockShiftsOf(u) == \A d \in Calls : ~(call[d].at \in {"shift read", "closing"} /\ call[d].user = u)

\* openShiftOf under that lock.
StartShift(c) ==
    LET u == call[c].user
    IN  /\ call[c].at = "verified"
        /\ LockShiftsOf(u)
        /\ \/ OpenShifts(u) = {} /\ call' = [call EXCEPT ![c].at = "shift read"]
           \/ \E l \in OpenShifts(u) :
                call' = [call EXCEPT ![c].at = "shift read", ![c].held = l]
        /\ UNCHANGED <<acct, tok, shift, slots, wrong>>

\* A new row of `family`, on the word of password pw.
NewRow(u, family, heirOf, pw) ==
    [NoToken EXCEPT !.user = u, !.family = family, !.heirOf = heirOf, !.pw = pw]
Issue(u, family, heirOf, pw) == [tok EXCEPT ![NextToken] = NewRow(u, family, heirOf, pw)]

\* The shift open at another counter is closed, one open here is kept, and the sign-in commits.
LoginCommit(c) ==
    LET u == call[c].user
        l == call[c].loc
        h == call[c].held
    IN  /\ call[c].at = "shift read"
        /\ NextToken \in Tokens
        /\ tok' = Issue(u, NextToken, 0, call[c].pw)
        /\ shift' = IF h = l THEN shift
                    ELSE [shift EXCEPT ![u] = [x \in Counters |->
                            IF x = l THEN @[x] + 1 ELSE IF x = h THEN @[x] - 1 ELSE @[x]]]
        /\ call' = [call EXCEPT ![c] = NoCall]
        /\ UNCHANGED <<acct, slots, wrong>>

\* Close Shift: the person's lock, the row, and only from the counter it is open at.
CloseShiftTake(c, u, l) ==
    /\ call[c].at = "idle"
    /\ LockShiftsOf(u)
    /\ l \in OpenShifts(u)
    /\ call' = [call EXCEPT ![c] = [NoCall EXCEPT !.at = "closing", !.user = u, !.loc = l]]
    /\ UNCHANGED <<acct, tok, shift, slots, wrong>>

CloseShiftCommit(c) ==
    /\ call[c].at = "closing"
    /\ shift' = [shift EXCEPT ![call[c].user][call[c].loc] = @ - 1]
    /\ call' = [call EXCEPT ![c] = NoCall]
    /\ UNCHANGED <<acct, tok, slots, wrong>>

-----------------------------------------------------------------------------
(* Rotation.                                                               *)

\* refreshByHash and the account, both unlocked reads: any cookie ever handed out may be shown.
RefreshRead(c, t) ==
    /\ call[c].at = "idle"
    /\ t \in Minted
    /\ ~tok[t].dead
    /\ acct[tok[t].user].active
    /\ call' = [call EXCEPT ![c] = [NoCall EXCEPT !.at = "read", !.token = t, !.user = tok[t].user]]
    /\ UNCHANGED <<acct, tok, shift, slots, wrong>>

RowFree(t, c) == \A d \in Calls \ {c} : ~(call[d].at = "claimed" /\ call[d].token = t)

MarkUsedByTheRead(c) ==
    /\ call[c].at = "read"
    /\ call' = [call EXCEPT ![c].at = "claimed"]
    /\ UNCHANGED <<acct, tok, shift, slots, wrong>>

\* markUsed, UPDATE ... WHERE used_at IS NULL: the loser waits for the winner, claims no row and
\* goes on to revoke the family.
MarkUsed(c) ==
    LET t == call[c].token
    IN  /\ call[c].at = "read"
        /\ RowFree(t, c)
        /\ call' = IF ~tok[t].used THEN [call EXCEPT ![c].at = "claimed"]
                   ELSE [call EXCEPT ![c].at = "revoking",
                                     ![c].rows = {r \in Minted : tok[r].family = tok[t].family}]
        /\ UNCHANGED <<acct, tok, shift, slots, wrong>>

\* The rotated token is minted in the same family, and the claim commits with it.
RefreshCommit(c) ==
    LET t == call[c].token
        next == Issue(call[c].user, tok[t].family, t, tok[t].pw)
    IN  /\ call[c].at = "claimed"
        /\ NextToken \in Tokens
        /\ tok' = [next EXCEPT ![t].used = TRUE]
        /\ call' = [call EXCEPT ![c] = NoCall]
        /\ UNCHANGED <<acct, shift, slots, wrong>>

\* A family past its absolute lifetime: the token is spent and nothing is minted.
RefreshTooOld(c) ==
    /\ call[c].at = "claimed"
    /\ tok' = [t \in Tokens |->
                  IF t \in Minted /\ tok[t].family = tok[call[c].token].family
                  THEN [tok[t] EXCEPT !.used = @ \/ t = call[c].token, !.dead = TRUE] ELSE tok[t]]
    /\ call' = [call EXCEPT ![c] = NoCall]
    /\ UNCHANGED <<acct, shift, slots, wrong>>

\* A token nobody used for its idle lifetime.  purgeRefreshTokens takes such rows at night, and a
\* cookie shown for a row that is gone is refused as one shown for a dead row is.
Lapse(t) ==
    /\ Live(t)
    /\ tok' = [tok EXCEPT ![t].dead = TRUE]
    /\ UNCHANGED <<acct, shift, slots, wrong, call>>

-----------------------------------------------------------------------------
(* What ends sessions.                                                     *)

\* revokeFamily's statement starts.
Logout(c, t) ==
    /\ call[c].at = "idle"
    /\ t \in Minted
    /\ call' = [call EXCEPT ![c] = [NoCall EXCEPT !.at = "revoking", !.user = tok[t].user,
                                    !.rows = {r \in Minted : tok[r].family = tok[t].family}]]
    /\ UNCHANGED <<acct, tok, shift, slots, wrong>>

\* The users row is locked by the change that precedes the revoke.
AccountFree(u) ==
    \A d \in Calls : ~(call[d].user = u /\ call[d].at \in
        {"changing", "resetting", "deactivating", "moving"})

RowsOf(u) == {r \in Minted : tok[r].user = u}

\* changePassword: the current password was right when it was read; setPassword, then
\* revokeAllForUser's statement starts.
ChangePassword(c, u) ==
    /\ call[c].at = "idle"
    /\ acct[u].active /\ acct[u].pw < MaxPasswords
    /\ AccountFree(u)
    /\ call' = [call EXCEPT ![c] = [NoCall EXCEPT !.at = "changing", !.user = u, !.pw = acct[u].pw + 1,
                                                  !.rows = RowsOf(u)]]
    /\ UNCHANGED <<acct, tok, shift, slots, wrong>>

\* resetPasswordTx and deactivateUserTx.
ResetPassword(c, u) ==
    /\ call[c].at = "idle"
    /\ acct[u].pw < MaxPasswords
    /\ AccountFree(u)
    /\ call' = [call EXCEPT ![c] = [NoCall EXCEPT !.at = "resetting", !.user = u,
                                                  !.pw = acct[u].pw + 1, !.rows = RowsOf(u)]]
    /\ UNCHANGED <<acct, tok, shift, slots, wrong>>

DeactivateUser(c, u) ==
    /\ call[c].at = "idle"
    /\ AccountFree(u)
    /\ call' = [call EXCEPT ![c] = [NoCall EXCEPT !.at = "deactivating", !.user = u, !.rows = RowsOf(u)]]
    /\ UNCHANGED <<acct, tok, shift, slots, wrong>>

\* reactivateUserTx: nothing to revoke.
ReactivateUser(u) ==
    /\ ~acct[u].active
    /\ AccountFree(u)
    /\ acct' = [acct EXCEPT ![u].active = TRUE]
    /\ UNCHANGED <<tok, shift, slots, wrong, call>>

\* setUserPostingsTx and updateUserRoleLocTx: what the account is changes in Staff; here every
\* session of it ends.
MoveUser(c, u) ==
    /\ call[c].at = "idle"
    /\ AccountFree(u)
    /\ call' = [call EXCEPT ![c] = [NoCall EXCEPT !.at = "moving", !.user = u, !.rows = RowsOf(u)]]
    /\ UNCHANGED <<acct, tok, shift, slots, wrong>>

\* The revoke gets past the rows refreshes in flight hold, and the transaction commits.
RevokedRows(c) == [t \in Tokens |-> IF t \in call[c].rows THEN [tok[t] EXCEPT !.dead = TRUE]
                                    ELSE tok[t]]

AccountAfter(c) ==
    LET u == call[c].user
    IN  CASE call[c].at \in {"changing", "resetting"} -> [acct EXCEPT ![u].pw = call[c].pw]
          [] call[c].at = "deactivating" -> [acct EXCEPT ![u].active = FALSE]
          [] OTHER -> acct

RevokeCommit(c) ==
    /\ call[c].at \in {"revoking", "changing", "resetting", "deactivating", "moving"}
    /\ \A t \in call[c].rows : RowFree(t, c)
    /\ acct' = AccountAfter(c)
    /\ \/ call[c].at # "changing" /\ tok' = RevokedRows(c)
       \/ /\ call[c].at = "changing" /\ NextToken \in Tokens
          /\ tok' = [RevokedRows(c) EXCEPT ![NextToken] =
                        NewRow(call[c].user, NextToken, 0, call[c].pw)]
    /\ call' = [call EXCEPT ![c] = NoCall]
    /\ UNCHANGED <<shift, slots, wrong>>

\* A refusal, a dropped connection or a crash.
Abandon(c) ==
    /\ call[c].at \notin {"idle", "verifying"}
    /\ call' = [call EXCEPT ![c] = NoCall]
    /\ UNCHANGED <<acct, tok, shift, slots, wrong>>

-----------------------------------------------------------------------------
SessionsInit ==
    /\ acct = [u \in Operators |-> [pw |-> 1, active |-> TRUE]]
    /\ tok = [t \in Tokens |-> NoToken]
    /\ shift = [u \in Operators |-> [l \in Counters |-> 0]]
    /\ slots = [u \in Operators |-> 0]
    /\ wrong = [u \in Operators |-> 0]
    /\ call = [c \in Calls |-> NoCall]

SignInStep ==
    \E c \in Calls :
        \/ \E u \in Operators, l \in Counters : LoginBegin(c, u, l) \/ CloseShiftTake(c, u, l)
        \/ LoginVerified(c) \/ LoginRefused(c) \/ StartShift(c) \/ LoginCommit(c)
        \/ CloseShiftCommit(c)

RotationStep ==
    \/ \E c \in Calls :
        \/ \E t \in Tokens : RefreshRead(c, t)
        \/ MarkUsed(c) \/ RefreshCommit(c) \/ RefreshTooOld(c)
    \/ \E t \in Tokens : Lapse(t)

EndingStep ==
    \E c \in Calls :
        \/ \E t \in Tokens : Logout(c, t)
        \/ \E u \in Operators : ChangePassword(c, u) \/ ResetPassword(c, u)
                                  \/ DeactivateUser(c, u) \/ MoveUser(c, u)
        \/ RevokeCommit(c) \/ Abandon(c)

SessionsNext ==
    \/ SignInStep
    \/ RotationStep
    \/ EndingStep
    \/ \E u \in Operators : WindowPasses(u) \/ ReactivateUser(u)

SessionsSpec == SessionsInit /\ [][SessionsNext]_sessionVars

-----------------------------------------------------------------------------
(* Properties.                                                             *)

\* A refresh token is inherited once: however many refreshes of one cookie race, at most one new
\* token comes of it, and a family never has two tokens that could still be used.
OneHeirPerToken ==
    \A s, t \in Minted : s # t /\ tok[s].family = tok[t].family =>
        /\ tok[s].heirOf # tok[t].heirOf
        /\ ~(Live(s) /\ Live(t))

\* startShift and Close Shift race over one person (two tabs, two tills) and never leave two
\* shifts open, so no sign-in dies on the shifts_one_open_per_user index.
OneOpenShift ==
    \A u \in Operators :
        Cardinality(OpenShifts(u)) <= 1 /\ \A l \in Counters : shift[u][l] \in {0, 1}

\* The budget holds under concurrency: passwords found wrong in a window and those still being
\* verified are together never more than the limit, while a right one leaves it where it was.
BudgetHolds ==
    \A u \in Operators :
        wrong[u] + Cardinality({c \in Calls : call[c].at = "verifying" /\ call[c].user = u})
            <= LOGIN_BUDGET

\* auth/service.ts: when a password changes "every other token the user holds is revoked", and an
\* administrator's reset says "their sessions are ended": no usable token rests on an old password.
EndedSessionsStayEnded ==
    \A t \in Tokens : Live(t) => tok[t].pw = acct[tok[t].user].pw

\* What requests that race may not do to a person's tokens, shifts and login budget.
RacesChangeNothing == OneHeirPerToken /\ OneOpenShift /\ BudgetHolds
=============================================================================
