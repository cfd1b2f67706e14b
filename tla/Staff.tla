-------------------------------- MODULE Staff --------------------------------
(***************************************************************************)
(* Accounts, the roles they hold and where they work                       *)
(* (lib/users-admin.ts, modules/admin, modules/roles).  The cache in which *)
(* a pod keeps what an account may do is left out.                         *)
(*                                                                         *)
(* An account write locks the role it names, then the locations, and reads *)
(* the account itself without a lock: those writes take two steps, a read  *)
(* and a commit.  Role and outlet writes lock their one row FOR UPDATE and *)
(* are a single step, taken when no account write holds that row.          *)
(*                                                                         *)
(* A role's name and permissions are one version number; the account keeps *)
(* a copy of the desk and of the name.  A super admin holds no role.       *)
(***************************************************************************)
EXTENDS Integers, FiniteSets

CONSTANTS
    Outlets,
    StaffRoles,
    Desks,              \* desk -> the locations it works at
    StaffJobs,          \* bound: account writes in flight at once
    MaxUsers,           \* bound: accounts ever created
    MaxTerms            \* bound: versions of a role's name and permissions

\* The first account is there from the start.
ASSUME StaffBounds == MaxUsers \in Nat \ {0}

Users == 1..MaxUsers

VARIABLES
    person,     \* users and user_postings
    role,       \* roles
    open,       \* locations.active
    job,        \* account writes in flight, with what they read and lock
    seq,        \* sequences: the `user` row
    given       \* history: user ids ever handed out

staffVars == <<person, role, open, job, seq, given>>
db == <<person, role, open, seq, given>>

Nobody == [there |-> FALSE, active |-> FALSE, role |-> "none", desk |-> "none", label |-> 0,
           home |-> "none", postings |-> {}]
NoJob == [at |-> "idle", user |-> 0, role |-> "none", locs |-> {}, home |-> "none",
          keeps |-> FALSE]

WorksAt(desk, l) == l \in Desks[desk] /\ (l \in Outlets => open[l])

-----------------------------------------------------------------------------
(* Row locks.  A role named by a move is held FOR UPDATE, one a            *)
(* reactivation checks FOR SHARE; locations are held FOR SHARE.            *)

LocksRole(j, r) == job[j].role = r /\ job[j].at \in {"move", "reactivate"}
RoleFree(r) == \A j \in StaffJobs : ~LocksRole(j, r)
RoleShared(r) == \A j \in StaffJobs : ~(LocksRole(j, r) /\ job[j].at = "move")
OutletFree(l) == \A j \in StaffJobs : l \notin job[j].locs

-----------------------------------------------------------------------------
(* Accounts.                                                               *)

IdFromTheTable == Cardinality({u \in Users : person[u].there}) + 1

\* allocateUserNumber: the counter only moves forward, past every id on the table.
AllocateUserNumber ==
    LET top == CHOOSE n \in 0..MaxUsers :
                  /\ n = 0 \/ person[n].there
                  /\ \A u \in Users : person[u].there => u <= n
    IN  IF seq > top + 1 THEN seq ELSE top + 1

\* createUserTx.
CreateUser(r, l) ==
    LET n == AllocateUserNumber
    IN  /\ n \in Users
        /\ RoleFree(r) /\ role[r].there /\ role[r].active
        /\ WorksAt(role[r].desk, l)
        /\ person' = [person EXCEPT ![n] =
              [there |-> TRUE, active |-> TRUE, role |-> r, desk |-> role[r].desk,
               label |-> role[r].terms, home |-> l, postings |-> {l}]]
        /\ role' = [role EXCEPT ![r].ever = TRUE]
        /\ seq' = n + 1
        /\ given' = given \cup {n}
        /\ UNCHANGED <<open, job>>

\* updateUserRoleLocTx: the role and the location are locked, then the account is read.
MoveUserRead(j, u, r, l) ==
    /\ job[j].at = "idle"
    /\ person[u].there /\ person[u].role # "none"
    /\ RoleFree(r) /\ role[r].there /\ role[r].active
    /\ WorksAt(role[r].desk, l)
    /\ job' = [job EXCEPT ![j] =
          [NoJob EXCEPT !.at = "move", !.user = u, !.role = r, !.locs = {l}, !.home = l,
                        !.keeps = (role[r].desk = person[u].desk /\ l = person[u].home)]]
    /\ UNCHANGED db

\* The same desk and home keep the postings (and the sessions, in Sessions); anything else puts
\* the list back to the home.
MoveUserCommit(j) ==
    LET u == job[j].user
        r == job[j].role
    IN  /\ job[j].at = "move"
        /\ person' = IF ~person[u].there THEN person
                     ELSE [person EXCEPT ![u] =
                        [@ EXCEPT !.role = r, !.desk = role[r].desk, !.label = role[r].terms,
                                  !.home = job[j].home,
                                  !.postings = IF job[j].keeps THEN person[u].postings ELSE job[j].locs]]
        /\ role' = [role EXCEPT ![r].ever = TRUE]
        /\ job' = [job EXCEPT ![j] = NoJob]
        /\ UNCHANGED <<open, seq, given>>

\* setUserPostingsTx: the account is read, then each location is locked and checked against it.
SetPostingsRead(j, u, locs) ==
    /\ job[j].at = "idle"
    /\ person[u].there /\ person[u].role # "none"
    /\ person[u].home \in locs
    /\ \A l \in locs : WorksAt(person[u].desk, l)
    /\ job' = [job EXCEPT ![j] = [NoJob EXCEPT !.at = "post", !.user = u, !.locs = locs]]
    /\ UNCHANGED db

\* Nothing a pod caches names a posting, so nothing is announced.
SetPostingsCommit(j) ==
    LET u == job[j].user
    IN  /\ job[j].at = "post"
        /\ person' = IF person[u].there THEN [person EXCEPT ![u].postings = job[j].locs] ELSE person
        /\ job' = [job EXCEPT ![j] = NoJob]
        /\ UNCHANGED <<role, open, seq, given>>

\* deactivateUserTx.
DeactivateAccount(u) ==
    /\ person[u].there /\ person[u].active
    /\ person' = [person EXCEPT ![u].active = FALSE]
    /\ UNCHANGED <<role, open, job, seq, given>>

\* reactivateUserTx: the account is read, then its role and its home are locked and checked; a
\* super admin's are placeholders.
ReactivateRead(j, u) ==
    /\ job[j].at = "idle"
    /\ person[u].there /\ ~person[u].active
    /\ person[u].role # "none" =>
          /\ RoleShared(person[u].role) /\ role[person[u].role].active
          /\ WorksAt(person[u].desk, person[u].home)
    /\ job' = [job EXCEPT ![j] =
          [NoJob EXCEPT !.at = "reactivate", !.user = u, !.role = person[u].role,
                        !.locs = IF person[u].role = "none" THEN {} ELSE {person[u].home}]]
    /\ UNCHANGED db

ReactivateCommit(j) ==
    LET u == job[j].user
    IN  /\ job[j].at = "reactivate"
        /\ person' = IF person[u].there THEN [person EXCEPT ![u].active = TRUE] ELSE person
        /\ job' = [job EXCEPT ![j] = NoJob]
        /\ UNCHANGED <<role, open, seq, given>>

\* deleteUserTx, for an account with no history: deactivated, not a super admin.  Its row is held
\* by nobody, or the delete would have waited; nothing is announced.
DeleteUser(u) ==
    /\ person[u].there /\ ~person[u].active /\ person[u].role # "none"
    /\ person' = [person EXCEPT ![u] = Nobody]
    /\ UNCHANGED <<role, open, seq, given, job>>

\* setAdmin, from the command line only.
SetAdmin(u, on) ==
    /\ person[u].there
    /\ \/ /\ on /\ person[u].role # "none"
          /\ person' = [person EXCEPT ![u].role = "none"]
          /\ role' = role
       \/ /\ ~on /\ person[u].role = "none"
          /\ \E r \in StaffRoles :
               /\ role[r].there /\ role[r].active /\ role[r].desk = person[u].desk /\ RoleFree(r)
               /\ person' = [person EXCEPT ![u].role = r, ![u].label = role[r].terms]
               /\ role' = [role EXCEPT ![r].ever = TRUE]
    /\ UNCHANGED <<open, job, seq, given>>

-----------------------------------------------------------------------------
(* Roles.  Each write locks the role FOR UPDATE and announces `roles`.     *)

Holders(r) == {u \in Users : person[u].there /\ person[u].active /\ person[u].role = r}

CreateRole(r, d) ==
    /\ ~role[r].there
    /\ role' = [role EXCEPT ![r] = [there |-> TRUE, active |-> TRUE, desk |-> d, terms |-> 1, ever |-> FALSE]]
    /\ UNCHANGED <<person, open, job, seq, given>>

DeskAlwaysMoves(r, d) == TRUE
\* The desk moves only while nobody has ever held the role.
DeskMayMove(r, d) == d = role[r].desk \/ ~role[r].ever

\* update: relabel reaches every account on the role, active or not.
UpdateRole(r, d, t) ==
    /\ role[r].there /\ RoleFree(r)
    /\ DeskMayMove(r, d)
    /\ d # role[r].desk \/ t # role[r].terms
    /\ role' = [role EXCEPT ![r].desk = d, ![r].terms = t]
    /\ person' = [u \in Users |-> IF person[u].there /\ person[u].role = r
                                  THEN [person[u] EXCEPT !.label = t] ELSE person[u]]
    /\ UNCHANGED <<open, job, seq, given>>

DeactivateRole(r) ==
    /\ role[r].there /\ role[r].active /\ RoleFree(r)
    /\ Holders(r) = {}
    /\ role' = [role EXCEPT ![r].active = FALSE]
    /\ UNCHANGED <<person, open, job, seq, given>>

ReactivateRole(r) ==
    /\ role[r].there /\ ~role[r].active /\ RoleFree(r)
    /\ role' = [role EXCEPT ![r].active = TRUE]
    /\ UNCHANGED <<person, open, job, seq, given>>

RemoveRole(r) ==
    /\ role[r].there /\ ~role[r].ever /\ RoleFree(r)
    /\ role' = [role EXCEPT ![r].there = FALSE]
    /\ UNCHANGED <<person, open, job, seq, given>>

\* closeOutlet counts the active staff based there (StockMovement has its other blockers).
CloseOutlet(l) ==
    /\ open[l] /\ OutletFree(l)
    /\ \A u \in Users : ~(person[u].there /\ person[u].active /\ person[u].role # "none" /\ person[u].home = l)
    /\ open' = [open EXCEPT ![l] = FALSE]
    /\ UNCHANGED <<person, role, seq, given, job>>

ReopenOutlet(l) ==
    /\ ~open[l] /\ OutletFree(l)
    /\ open' = [open EXCEPT ![l] = TRUE]
    /\ UNCHANGED <<person, role, seq, given, job>>

-----------------------------------------------------------------------------
\* One operator of a seeded role at one outlet; the other roles are there and nobody's.
StaffInit ==
    \E d \in DOMAIN Desks, r \in StaffRoles, l \in Outlets :
        /\ l \in Desks[d]
        /\ role = [x \in StaffRoles |-> [there |-> TRUE, active |-> TRUE, desk |-> d, terms |-> 1,
                                         ever |-> x = r]]
        /\ person = [u \in Users |->
              IF u = 1 THEN [there |-> TRUE, active |-> TRUE, role |-> r, desk |-> d, label |-> 1,
                             home |-> l, postings |-> {l}] ELSE Nobody]
        /\ open = [x \in Outlets |-> TRUE]
        /\ job = [j \in StaffJobs |-> NoJob]
        /\ seq = 2          \* account 1 was created through the sequence
        /\ given = {1}

Places == UNION {Desks[d] : d \in DOMAIN Desks}

AccountStep ==
    \/ \E r \in StaffRoles, l \in Places : CreateUser(r, l)
    \/ \E j \in StaffJobs :
        \/ MoveUserCommit(j) \/ ReactivateCommit(j) \/ SetPostingsCommit(j)
        \/ \E u \in Users :
            \/ ReactivateRead(j, u)
            \/ \E r \in StaffRoles, l \in Places : MoveUserRead(j, u, r, l)
            \/ \E locs \in SUBSET Places \ {{}} : SetPostingsRead(j, u, locs)
    \/ \E u \in Users : DeactivateAccount(u) \/ DeleteUser(u) \/ \E on \in BOOLEAN : SetAdmin(u, on)

RoleStep ==
    \E r \in StaffRoles :
        \/ \E d \in DOMAIN Desks : CreateRole(r, d) \/ \E t \in 1..MaxTerms : UpdateRole(r, d, t)
        \/ DeactivateRole(r) \/ ReactivateRole(r) \/ RemoveRole(r)

StaffNext ==
    \/ AccountStep
    \/ RoleStep
    \/ \E l \in Outlets : CloseOutlet(l) \/ ReopenOutlet(l)

StaffSpec == StaffInit /\ [][StaffNext]_staffVars

-----------------------------------------------------------------------------
(* Properties.                                                             *)

\* users.role and role_label are copies: renames, moves and desk changes may race, and an account
\* still carries the desk and the name of the role it holds.
CopiesFollowTheRole ==
    \A u \in Users : person[u].there /\ person[u].role # "none" =>
        /\ role[person[u].role].there
        /\ person[u].desk = role[person[u].role].desk
        /\ person[u].label = role[person[u].role].terms

\* An id is never given out twice, even after the account that held the highest one is deleted.
NoIdTwice == [][\A u \in Users : ~person[u].there /\ person'[u].there => u \notin given]_staffVars

\* users-admin.ts: "the home row is always on the list".
HomeIsPosted ==
    \A u \in Users : person[u].there => person[u].home \in person[u].postings

\* users-admin.ts: an account comes back "only somewhere it can work", "nor does it come back onto
\* a role that has since been switched off".
ActiveAccountsCanWork ==
    \A u \in Users : person[u].there /\ person[u].active /\ person[u].role # "none" =>
        /\ role[person[u].role].active
        /\ WorksAt(person[u].desk, person[u].home)
=============================================================================
