------------------------------ MODULE StaffProofs ------------------------------
(***************************************************************************)
(* Proofs about Staff and Sessions, for every number of accounts, roles,   *)
(* writes, sign-ins and tokens: an account's copies of its role are never  *)
(* stale, an id is never given out twice, and requests that race leave a   *)
(* person's tokens, shifts and login budget as they should be.             *)
(***************************************************************************)
EXTENDS Sessions, Staff, FiniteSetTheorems, NaturalsInduction, WellFoundedInduction, TLAPS

-----------------------------------------------------------------------------
(* Staff: the inductive invariant.                                         *)

Anywhere == Places \cup {"none"}
RoleRow == [there : BOOLEAN, active : BOOLEAN, desk : DOMAIN Desks, terms : Nat, ever : BOOLEAN]
PersonRow == [there : BOOLEAN, active : BOOLEAN, role : StaffRoles \cup {"none"},
              desk : DOMAIN Desks \cup {"none"}, label : Nat, home : Anywhere,
              postings : SUBSET Anywhere]
JobRow == [at : {"idle", "move", "post", "reactivate"}, user : Users \cup {0},
           role : StaffRoles \cup {"none"}, locs : SUBSET Anywhere, home : Anywhere, keeps : BOOLEAN]

StaffTypes ==
    /\ role \in [StaffRoles -> RoleRow]
    /\ person \in [Users -> PersonRow]
    /\ job \in [StaffJobs -> JobRow]
    /\ seq \in Nat /\ given \in SUBSET Users

\* An account on a role carries what the role says; the role was held, so its desk is fixed.
CarriesItsRole(u) ==
    person[u].there /\ person[u].role # "none" =>
        /\ role[person[u].role].there /\ role[person[u].role].ever
        /\ person[u].desk = role[person[u].role].desk
        /\ person[u].label = role[person[u].role].terms

\* A move holds the role it names, which so cannot go.
MoveHoldsRole(j) ==
    job[j].at = "move" =>
        job[j].role \in StaffRoles /\ role[job[j].role].there /\ job[j].user \in Users

\* The counter has passed every id ever given, and an account has one of those.
IdsGiven ==
    /\ \A n \in given : n < seq
    /\ \A u \in Users : person[u].there => u \in given

StaffInv ==
    /\ StaffTypes
    /\ \A u \in Users : CarriesItsRole(u)
    /\ \A j \in StaffJobs : MoveHoldsRole(j)
    /\ IdsGiven

-----------------------------------------------------------------------------
(* The highest id on the table.                                            *)

\* A number n such that nobody has a higher id.
NoneAbove(n) == \A u \in Users : person[u].there => u <= n

LEMMA HighestId ==
    ASSUME MaxUsers \in Nat
    PROVE  \E n \in 0..MaxUsers : (n = 0 \/ person[n].there) /\ NoneAbove(n)
<1> DEFINE Tops == {n \in Nat : NoneAbove(n)}
           Below == {p \in Nat \X Nat : p[1] < p[2]}
<1>1. IsWellFoundedOn(Below, Nat)
  <2>1. IsWellFoundedOn(OpToRel(<, Nat), Nat)
    BY NatLessThanWellFounded
  <2>2. Below = OpToRel(<, Nat)
    BY DEF OpToRel
  <2> QED
    BY <2>1, <2>2
<1>2. MaxUsers \in Tops
  BY DEF NoneAbove, Users
<1>3. PICK x \in Tops : \A y \in Tops : ~(<<y, x>> \in Below)
  <2>1. Tops \subseteq Nat /\ Tops # {}
    BY <1>2
  <2> HIDE DEF Tops, Below
  <2> QED
    BY <1>1, <2>1, WFMin
<1>4. x \in Nat /\ NoneAbove(x)
  OBVIOUS
<1>5. x <= MaxUsers
  <2> SUFFICES ASSUME MaxUsers < x PROVE FALSE
    BY <1>4
  <2>1. <<MaxUsers, x>> \in Below
    BY <1>4
  <2> QED
    BY <1>2, <1>3, <2>1
<1>6. x = 0 \/ person[x].there
  <2> SUFFICES ASSUME x # 0, ~person[x].there PROVE FALSE
    OBVIOUS
  <2>1. x - 1 \in Nat /\ x - 1 < x
    BY <1>4
  <2>2. NoneAbove(x - 1)
    BY <1>4, <2>1 DEF NoneAbove, Users
  <2>3. <<x - 1, x>> \in Below /\ x - 1 \in Tops
    BY <1>4, <2>1, <2>2
  <2> QED
    BY <1>3, <2>3
<1> QED
  BY <1>4, <1>5, <1>6

\* allocateUserNumber's number is past the counter and past the table.
LEMMA NumberIsNew ==
    ASSUME MaxUsers \in Nat, seq \in Nat
    PROVE  AllocateUserNumber \in Nat /\ AllocateUserNumber >= seq
<1> DEFINE top == CHOOSE n \in 0..MaxUsers :
                     /\ n = 0 \/ person[n].there
                     /\ \A u \in Users : person[u].there => u <= n
<1>1. top \in 0..MaxUsers
  <2>1. \E n \in 0..MaxUsers : (n = 0 \/ person[n].there)
                              /\ \A u \in Users : person[u].there => u <= n
    BY HighestId DEF NoneAbove
  <2> QED
    BY <2>1
<1>2. AllocateUserNumber = IF seq > top + 1 THEN seq ELSE top + 1
  BY DEF AllocateUserNumber
<1> HIDE DEF top
<1> QED
  BY <1>1, <1>2

-----------------------------------------------------------------------------
(* A step of Staff keeps it.                                               *)

LEMMA StaffTyped ==
    ASSUME StaffInv, StaffNext, MaxUsers \in Nat
    PROVE  StaffTypes'
<1>0. /\ role \in [StaffRoles -> RoleRow] /\ person \in [Users -> PersonRow]
      /\ job \in [StaffJobs -> JobRow] /\ seq \in Nat /\ given \in SUBSET Users
  BY DEF StaffInv, StaffTypes
<1>00. NoJob \in JobRow /\ Nobody \in PersonRow
  BY DEF NoJob, JobRow, Nobody, PersonRow, Anywhere
<1>1. ASSUME NEW r \in StaffRoles, NEW l \in Places, CreateUser(r, l) PROVE StaffTypes'
  <2>1. PICK n : n = AllocateUserNumber
    OBVIOUS
  <2>2. n \in Users /\ n \in Nat /\ seq' = n + 1 /\ given' = given \cup {n} /\ job' = job
    BY <1>1, <2>1 DEF CreateUser, Users
  <2>3. role[r] \in RoleRow
    BY <1>0
  <2>4. [there |-> TRUE, active |-> TRUE, role |-> r, desk |-> role[r].desk,
         label |-> role[r].terms, home |-> l, postings |-> {l}] \in PersonRow
    BY <2>3 DEF PersonRow, RoleRow, Anywhere
  <2>5. person' \in [Users -> PersonRow]
    BY <1>0, <1>1, <2>1, <2>4 DEF CreateUser
  <2>6. role' \in [StaffRoles -> RoleRow]
    BY <1>0, <1>1 DEF CreateUser, RoleRow
  <2>7. seq' \in Nat /\ given' \in SUBSET Users
    BY <1>0, <2>2
  <2> QED
    BY <1>0, <2>2, <2>5, <2>6, <2>7 DEF StaffTypes
<1>2. ASSUME NEW j \in StaffJobs, MoveUserCommit(j) PROVE StaffTypes'
  <2>1. job[j] \in JobRow /\ job[j].role \in StaffRoles /\ job[j].user \in Users
    BY <1>0, <1>2 DEF StaffInv, MoveHoldsRole, MoveUserCommit
  <2>2. role[job[j].role] \in RoleRow
    BY <1>0, <2>1
  <2>3. person' \in [Users -> PersonRow]
    <3>1. CASE person' = person
      BY <1>0, <3>1
    <3>2. CASE person' = [person EXCEPT ![job[j].user] =
               [person[job[j].user] EXCEPT
                          !.role = job[j].role, !.desk = role[job[j].role].desk,
                          !.label = role[job[j].role].terms, !.home = job[j].home,
                          !.postings = IF job[j].keeps THEN person[job[j].user].postings
                                       ELSE job[j].locs]]
      <4>1. person[job[j].user] \in PersonRow
        BY <1>0, <2>1
      <4>2. [person[job[j].user] EXCEPT
                !.role = job[j].role, !.desk = role[job[j].role].desk,
                !.label = role[job[j].role].terms, !.home = job[j].home,
                !.postings = IF job[j].keeps THEN person[job[j].user].postings
                             ELSE job[j].locs] \in PersonRow
        BY <2>1, <2>2, <4>1 DEF PersonRow, JobRow, RoleRow
      <4> QED
        BY <1>0, <3>2, <4>2
    <3> QED
      BY <1>0, <1>2, <2>1, <3>1, <3>2 DEF MoveUserCommit
  <2>4. role' \in [StaffRoles -> RoleRow] /\ job' \in [StaffJobs -> JobRow]
    BY <1>0, <1>00, <1>2 DEF MoveUserCommit, RoleRow
  <2> QED
    BY <1>0, <1>2, <2>3, <2>4 DEF MoveUserCommit, StaffTypes
<1>3. ASSUME NEW j \in StaffJobs, ReactivateCommit(j) PROVE StaffTypes'
  BY <1>0, <1>00, <1>3 DEF ReactivateCommit, StaffTypes, PersonRow
<1>4. ASSUME NEW j \in StaffJobs, SetPostingsCommit(j) PROVE StaffTypes'
  <2>1. job[j].locs \in SUBSET Anywhere
    <3>1. job[j] \in JobRow
      BY <1>0
    <3> QED
      BY <3>1 DEF JobRow
  <2> QED
    BY <1>0, <1>00, <1>4, <2>1 DEF SetPostingsCommit, StaffTypes, PersonRow
<1>5. ASSUME NEW j \in StaffJobs, NEW row \in JobRow, job' = [job EXCEPT ![j] = row], UNCHANGED db
      PROVE  StaffTypes'
  BY <1>0, <1>5 DEF db, StaffTypes
<1>6. ASSUME NEW j \in StaffJobs, NEW u \in Users, ReactivateRead(j, u) PROVE StaffTypes'
  <2> DEFINE row == [NoJob EXCEPT !.at = "reactivate", !.user = u, !.role = person[u].role,
                        !.locs = IF person[u].role = "none" THEN {} ELSE {person[u].home}]
  <2>1. person[u] \in PersonRow
    BY <1>0
  <2>2. row \in JobRow
    BY <1>00, <2>1 DEF JobRow, PersonRow
  <2> QED
    BY <1>5, <1>6, <2>2 DEF ReactivateRead
<1>7. ASSUME NEW j \in StaffJobs, NEW u \in Users, NEW r \in StaffRoles, NEW l \in Places,
             MoveUserRead(j, u, r, l)
      PROVE  StaffTypes'
  <2> DEFINE row == [NoJob EXCEPT !.at = "move", !.user = u, !.role = r, !.locs = {l}, !.home = l,
                        !.keeps = (role[r].desk = person[u].desk /\ l = person[u].home)]
  <2>1. row \in JobRow
    BY <1>00 DEF JobRow, Anywhere
  <2> QED
    BY <1>5, <1>7, <2>1 DEF MoveUserRead
<1>8. ASSUME NEW j \in StaffJobs, NEW u \in Users, NEW locs \in SUBSET Places \ {{}},
             SetPostingsRead(j, u, locs)
      PROVE  StaffTypes'
  <2> DEFINE row == [NoJob EXCEPT !.at = "post", !.user = u, !.locs = locs]
  <2>1. row \in JobRow
    BY <1>00 DEF JobRow, Anywhere
  <2> QED
    BY <1>5, <1>8, <2>1 DEF SetPostingsRead
<1>9. ASSUME NEW u \in Users, DeactivateAccount(u) PROVE StaffTypes'
  BY <1>0, <1>9 DEF DeactivateAccount, StaffTypes, PersonRow
<1>10. ASSUME NEW u \in Users, DeleteUser(u) PROVE StaffTypes'
  BY <1>0, <1>00, <1>10 DEF DeleteUser, StaffTypes
<1>11. ASSUME NEW u \in Users, NEW on \in BOOLEAN, SetAdmin(u, on) PROVE StaffTypes'
  <2>1. ASSUME person' = [person EXCEPT ![u].role = "none"], role' = role PROVE StaffTypes'
    <3>1. person' = [person EXCEPT ![u] = [person[u] EXCEPT !.role = "none"]]
      BY <1>0, <2>1
    <3>2. [person[u] EXCEPT !.role = "none"] \in PersonRow
      BY <1>0 DEF PersonRow
    <3>3. person' \in [Users -> PersonRow]
      BY <1>0, <3>1, <3>2
    <3> QED
      BY <1>0, <1>11, <2>1, <3>3 DEF SetAdmin, StaffTypes
  <2>2. ASSUME NEW r \in StaffRoles,
               person' = [person EXCEPT ![u].role = r, ![u].label = role[r].terms],
               role' = [role EXCEPT ![r].ever = TRUE]
        PROVE  StaffTypes'
    <3>1. role[r].terms \in Nat
      BY <1>0 DEF RoleRow
    <3>2. person' = [person EXCEPT ![u] = [person[u] EXCEPT !.role = r, !.label = role[r].terms]]
      BY <1>0, <2>2
    <3>3. [person[u] EXCEPT !.role = r, !.label = role[r].terms] \in PersonRow
      BY <1>0, <3>1 DEF PersonRow
    <3>4. person' \in [Users -> PersonRow]
      BY <1>0, <3>2, <3>3
    <3>5. role' \in [StaffRoles -> RoleRow]
      BY <1>0, <2>2 DEF RoleRow
    <3> QED
      BY <1>0, <1>11, <3>4, <3>5 DEF SetAdmin, StaffTypes
  <2> QED
    BY <1>11, <2>1, <2>2 DEF SetAdmin
<1>12. ASSUME NEW r \in StaffRoles, NEW d \in DOMAIN Desks, CreateRole(r, d) PROVE StaffTypes'
  <2>1. [there |-> TRUE, active |-> TRUE, desk |-> d, terms |-> 1, ever |-> FALSE] \in RoleRow
    BY DEF RoleRow
  <2> QED
    BY <1>0, <1>12, <2>1 DEF CreateRole, StaffTypes
<1>13. ASSUME NEW r \in StaffRoles, NEW d \in DOMAIN Desks, NEW t \in 1..MaxTerms, UpdateRole(r, d, t)
      PROVE  StaffTypes'
  <2>1. t \in Nat
    BY <1>13
  <2>2. role' = [role EXCEPT ![r] = [role[r] EXCEPT !.desk = d, !.terms = t]]
    BY <1>0, <1>13 DEF UpdateRole
  <2>3. role[r] \in RoleRow
    BY <1>0
  <2>4. [role[r] EXCEPT !.desk = d, !.terms = t] \in RoleRow
    BY <2>1, <2>3 DEF RoleRow
  <2>5. \A u \in Users : [person[u] EXCEPT !.label = t] \in PersonRow
    BY <1>0, <2>1 DEF PersonRow
  <2>6. person' \in [Users -> PersonRow]
    BY <1>0, <1>13, <2>5 DEF UpdateRole
  <2> QED
    BY <1>0, <1>13, <2>2, <2>4, <2>6 DEF UpdateRole, StaffTypes
<1>14. ASSUME NEW r \in StaffRoles, DeactivateRole(r) \/ ReactivateRole(r) \/ RemoveRole(r)
      PROVE  StaffTypes'
  BY <1>0, <1>14 DEF DeactivateRole, ReactivateRole, RemoveRole, StaffTypes, RoleRow
<1>15. ASSUME NEW l \in Outlets, CloseOutlet(l) \/ ReopenOutlet(l) PROVE StaffTypes'
  BY <1>0, <1>15 DEF CloseOutlet, ReopenOutlet, StaffTypes
<1> QED
  BY <1>1, <1>2, <1>3, <1>4, <1>6, <1>7, <1>8, <1>9, <1>10, <1>11, <1>12, <1>13, <1>14, <1>15
     DEF StaffNext, AccountStep, RoleStep

\* A step that leaves every role that is there as it says, and a person as they are.
RoleStands(r) ==
    role[r].there => /\ role'[r].there /\ role'[r].desk = role[r].desk /\ role'[r].terms = role[r].terms
                     /\ role[r].ever => role'[r].ever
SamePlace(u) ==
    person'[u].there => /\ person[u].there /\ person'[u].role = person[u].role
                        /\ person'[u].desk = person[u].desk /\ person'[u].label = person[u].label

LEMMA StillCarries ==
    ASSUME NEW u \in Users, CarriesItsRole(u), SamePlace(u), person \in [Users -> PersonRow],
           \A r \in StaffRoles : RoleStands(r)
    PROVE  CarriesItsRole(u)'
<1>1. person[u].role \in StaffRoles \cup {"none"}
  BY DEF PersonRow
<1> QED
  BY <1>1 DEF CarriesItsRole, SamePlace, RoleStands

LEMMA StaffCarries ==
    ASSUME StaffInv, StaffNext, MaxUsers \in Nat, NEW u \in Users
    PROVE  CarriesItsRole(u)'
<1>0. /\ role \in [StaffRoles -> RoleRow] /\ person \in [Users -> PersonRow]
      /\ job \in [StaffJobs -> JobRow] /\ CarriesItsRole(u)
  BY DEF StaffInv, StaffTypes
<1>1. ASSUME UNCHANGED <<person, role>> PROVE CarriesItsRole(u)'
  BY <1>0, <1>1 DEF CarriesItsRole
<1>2. ASSUME NEW r \in StaffRoles, role' = [role EXCEPT ![r].ever = TRUE]
      PROVE  \A x \in StaffRoles : RoleStands(x)
  BY <1>0, <1>2 DEF RoleStands, RoleRow
<1>3. ASSUME NEW r \in StaffRoles, NEW l \in Places, CreateUser(r, l) PROVE CarriesItsRole(u)'
  <2>1. PICK n : n = AllocateUserNumber
    OBVIOUS
  <2>2. /\ n \in Users /\ role[r].there
        /\ person' = [person EXCEPT ![n] =
              [there |-> TRUE, active |-> TRUE, role |-> r, desk |-> role[r].desk,
               label |-> role[r].terms, home |-> l, postings |-> {l}]]
        /\ role' = [role EXCEPT ![r].ever = TRUE]
    BY <1>3, <2>1 DEF CreateUser
  <2>3. CASE u = n
    BY <1>0, <2>2, <2>3 DEF CarriesItsRole, RoleRow
  <2>4. CASE u # n
    <3>1. SamePlace(u)
      BY <1>0, <2>2, <2>4 DEF SamePlace
    <3> QED
      BY <1>0, <1>2, <2>2, <3>1, StillCarries
  <2> QED
    BY <2>3, <2>4
<1>4. ASSUME NEW j \in StaffJobs, MoveUserCommit(j) PROVE CarriesItsRole(u)'
  <2>1. job[j].role \in StaffRoles /\ role[job[j].role].there
    BY <1>4 DEF StaffInv, MoveHoldsRole, MoveUserCommit
  <2>2. role' = [role EXCEPT ![job[j].role].ever = TRUE]
    BY <1>4 DEF MoveUserCommit
  <2>3. CASE person'[u] = person[u]
    <3>1. SamePlace(u)
      BY <2>3 DEF SamePlace
    <3> QED
      BY <1>0, <1>2, <2>1, <2>2, <3>1, StillCarries
  <2>4. CASE person'[u] # person[u]
    <3>1. /\ person'[u].role = job[j].role /\ person'[u].desk = role[job[j].role].desk
          /\ person'[u].label = role[job[j].role].terms
      <4>1. person' = [person EXCEPT ![job[j].user] =
                [person[job[j].user] EXCEPT
                    !.role = job[j].role, !.desk = role[job[j].role].desk,
                    !.label = role[job[j].role].terms, !.home = job[j].home,
                    !.postings = IF job[j].keeps THEN person[job[j].user].postings
                                 ELSE job[j].locs]]
        BY <1>4, <2>4 DEF MoveUserCommit
      <4>2. u = job[j].user
        BY <1>0, <2>4, <4>1
      <4> QED
        BY <1>0, <4>1, <4>2 DEF PersonRow
    <3> QED
      BY <1>0, <2>1, <2>2, <3>1 DEF CarriesItsRole, RoleRow
  <2> QED
    BY <2>3, <2>4
<1>5. ASSUME NEW v \in Users, DeactivateAccount(v) PROVE CarriesItsRole(u)'
  <2>1. SamePlace(u)
    BY <1>0, <1>5 DEF DeactivateAccount, SamePlace, PersonRow
  <2>2. \A r \in StaffRoles : RoleStands(r)
    BY <1>5 DEF DeactivateAccount, RoleStands
  <2> QED
    BY <1>0, <2>1, <2>2, StillCarries
<1>6. ASSUME NEW v \in Users, DeleteUser(v) PROVE CarriesItsRole(u)'
  <2>1. SamePlace(u)
    BY <1>0, <1>6 DEF DeleteUser, SamePlace, Nobody
  <2>2. \A r \in StaffRoles : RoleStands(r)
    BY <1>6 DEF DeleteUser, RoleStands
  <2> QED
    BY <1>0, <2>1, <2>2, StillCarries
<1>7. ASSUME NEW j \in StaffJobs, ReactivateCommit(j) \/ SetPostingsCommit(j) PROVE CarriesItsRole(u)'
  <2>1. SamePlace(u)
    BY <1>0, <1>7 DEF ReactivateCommit, SetPostingsCommit, SamePlace, PersonRow
  <2>2. \A r \in StaffRoles : RoleStands(r)
    BY <1>7 DEF ReactivateCommit, SetPostingsCommit, RoleStands
  <2> QED
    BY <1>0, <2>1, <2>2, StillCarries
<1>8. ASSUME NEW v \in Users, NEW on \in BOOLEAN, SetAdmin(v, on) PROVE CarriesItsRole(u)'
  <2>1. CASE person' = [person EXCEPT ![v].role = "none"] /\ role' = role
    <3>1. CASE u = v
      BY <1>0, <2>1, <3>1 DEF CarriesItsRole, PersonRow
    <3>2. CASE u # v
      BY <1>0, <2>1, <3>2 DEF CarriesItsRole
    <3> QED
      BY <3>1, <3>2
  <2>2. ASSUME NEW r \in StaffRoles, role[r].there, role[r].desk = person[v].desk,
               person' = [person EXCEPT ![v].role = r, ![v].label = role[r].terms],
               role' = [role EXCEPT ![r].ever = TRUE]
        PROVE  CarriesItsRole(u)'
    <3>1. CASE u = v
      <4>1. /\ person'[u].role = r /\ person'[u].label = role[r].terms
            /\ person'[u].desk = role[r].desk
        BY <1>0, <2>2, <3>1 DEF PersonRow
      <4> QED
        BY <1>0, <2>2, <4>1 DEF CarriesItsRole, RoleRow
    <3>2. CASE u # v
      <4>1. SamePlace(u)
        BY <1>0, <2>2, <3>2 DEF SamePlace
      <4> QED
        BY <1>0, <1>2, <2>2, <4>1, StillCarries
    <3> QED
      BY <3>1, <3>2
  <2> QED
    BY <1>8, <2>1, <2>2 DEF SetAdmin
<1>9. ASSUME NEW r \in StaffRoles, NEW d \in DOMAIN Desks, CreateRole(r, d) PROVE CarriesItsRole(u)'
  <2>1. SamePlace(u)
    BY <1>9 DEF CreateRole, SamePlace
  <2>2. \A x \in StaffRoles : RoleStands(x)
    BY <1>0, <1>9 DEF CreateRole, RoleStands
  <2> QED
    BY <1>0, <2>1, <2>2, StillCarries
<1>10. ASSUME NEW r \in StaffRoles, NEW d \in DOMAIN Desks, NEW t \in 1..MaxTerms, UpdateRole(r, d, t)
       PROVE  CarriesItsRole(u)'
  <2>1. role' = [role EXCEPT ![r] = [role[r] EXCEPT !.desk = d, !.terms = t]]
    BY <1>0, <1>10 DEF UpdateRole
  <2>2. CASE person[u].there /\ person[u].role = r
    <3>1. person'[u] = [person[u] EXCEPT !.label = t]
      BY <1>10, <2>2 DEF UpdateRole
    <3>2. CASE r = "none"
      BY <1>0, <2>2, <3>1, <3>2 DEF CarriesItsRole, PersonRow
    <3>3. CASE r # "none"
      <4>1. /\ role[r].there /\ role[r].ever /\ person[u].desk = role[r].desk
        BY <1>0, <2>2, <3>3 DEF CarriesItsRole
      <4>2. d = role[r].desk
        BY <1>10, <4>1 DEF UpdateRole, DeskMayMove
      <4>3. /\ person'[u].role = r /\ person'[u].desk = d /\ person'[u].label = t
        BY <1>0, <2>2, <3>1, <4>1, <4>2 DEF PersonRow
      <4>4. role'[r].there /\ role'[r].ever /\ role'[r].desk = d /\ role'[r].terms = t
        BY <1>0, <2>1, <4>1 DEF RoleRow
      <4> QED
        BY <4>3, <4>4 DEF CarriesItsRole
    <3> QED
      BY <3>2, <3>3
  <2>3. CASE ~(person[u].there /\ person[u].role = r)
    <3>1. person'[u] = person[u]
      BY <1>10, <2>3 DEF UpdateRole
    <3>2. person[u].there => role'[person[u].role] = role[person[u].role]
      BY <1>0, <2>1, <2>3
    <3> QED
      BY <1>0, <3>1, <3>2 DEF CarriesItsRole
  <2> QED
    BY <2>2, <2>3
<1>11. ASSUME NEW r \in StaffRoles, DeactivateRole(r) \/ ReactivateRole(r) PROVE CarriesItsRole(u)'
  <2>1. SamePlace(u)
    BY <1>11 DEF DeactivateRole, ReactivateRole, SamePlace
  <2>2. \A x \in StaffRoles : RoleStands(x)
    BY <1>0, <1>11 DEF DeactivateRole, ReactivateRole, RoleStands, RoleRow
  <2> QED
    BY <1>0, <2>1, <2>2, StillCarries
<1>12. ASSUME NEW r \in StaffRoles, RemoveRole(r) PROVE CarriesItsRole(u)'
  <2>1. person' = person /\ role' = [role EXCEPT ![r].there = FALSE] /\ ~role[r].ever
    BY <1>12 DEF RemoveRole
  <2> SUFFICES ASSUME person[u].there, person[u].role # "none"
               PROVE  /\ role'[person[u].role].there /\ role'[person[u].role].ever
                      /\ person[u].desk = role'[person[u].role].desk
                      /\ person[u].label = role'[person[u].role].terms
    BY <2>1 DEF CarriesItsRole
  <2>2. person[u].role # r
    BY <1>0, <2>1 DEF CarriesItsRole
  <2>3. role'[person[u].role] = role[person[u].role]
    BY <1>0, <2>1, <2>2
  <2> QED
    BY <1>0, <2>3 DEF CarriesItsRole
<1>13. ASSUME NEW l \in Outlets, CloseOutlet(l) \/ ReopenOutlet(l) PROVE CarriesItsRole(u)'
  BY <1>1, <1>13 DEF CloseOutlet, ReopenOutlet
<1>14. ASSUME NEW j \in StaffJobs, NEW v \in Users, ReactivateRead(j, v) PROVE CarriesItsRole(u)'
  BY <1>1, <1>14 DEF ReactivateRead, db
<1>15. ASSUME NEW j \in StaffJobs, NEW v \in Users, NEW r \in StaffRoles, NEW l \in Places,
              MoveUserRead(j, v, r, l)
       PROVE  CarriesItsRole(u)'
  BY <1>1, <1>15 DEF MoveUserRead, db
<1>16. ASSUME NEW j \in StaffJobs, NEW v \in Users, NEW locs \in SUBSET Places \ {{}},
              SetPostingsRead(j, v, locs)
       PROVE  CarriesItsRole(u)'
  BY <1>1, <1>16 DEF SetPostingsRead, db
<1> QED
  BY <1>3, <1>4, <1>5, <1>6, <1>7, <1>8, <1>9, <1>10, <1>11, <1>12, <1>13, <1>14, <1>15, <1>16
     DEF StaffNext, AccountStep, RoleStep

\* A step that leaves a request alone, or sets it aside.
LEMMA StaffMovesHold ==
    ASSUME StaffInv, StaffNext, NEW j \in StaffJobs
    PROVE  MoveHoldsRole(j)'
<1>0. /\ role \in [StaffRoles -> RoleRow] /\ job \in [StaffJobs -> JobRow] /\ MoveHoldsRole(j)
  BY DEF StaffInv, StaffTypes
<1>1. ASSUME job'[j] = job[j], \A r \in StaffRoles : role[r].there => role'[r].there
      PROVE  MoveHoldsRole(j)'
  BY <1>0, <1>1 DEF MoveHoldsRole
<1>2. ASSUME job'[j].at # "move" PROVE MoveHoldsRole(j)'
  BY <1>2 DEF MoveHoldsRole
<1>3. ASSUME NEW r \in StaffRoles, NEW l \in Places, CreateUser(r, l) PROVE MoveHoldsRole(j)'
  <2>1. job' = job /\ role' = [role EXCEPT ![r].ever = TRUE]
    BY <1>3 DEF CreateUser
  <2> QED
    BY <1>0, <1>1, <2>1 DEF RoleRow
<1>4. ASSUME NEW i \in StaffJobs, MoveUserCommit(i) PROVE MoveHoldsRole(j)'
  <2>1. job' = [job EXCEPT ![i] = NoJob] /\ role' = [role EXCEPT ![job[i].role].ever = TRUE]
    BY <1>4 DEF MoveUserCommit
  <2>2. \A r \in StaffRoles : role[r].there => role'[r].there
    BY <1>0, <2>1 DEF RoleRow
  <2>3. CASE i = j
    BY <1>0, <1>2, <2>1, <2>3 DEF NoJob
  <2>4. CASE i # j
    BY <1>0, <1>1, <2>1, <2>2, <2>4
  <2> QED
    BY <2>3, <2>4
<1>5. ASSUME NEW i \in StaffJobs, ReactivateCommit(i) \/ SetPostingsCommit(i) PROVE MoveHoldsRole(j)'
  <2>1. job' = [job EXCEPT ![i] = NoJob] /\ role' = role
    BY <1>5 DEF ReactivateCommit, SetPostingsCommit
  <2>2. CASE i = j
    BY <1>0, <1>2, <2>1, <2>2 DEF NoJob
  <2>3. CASE i # j
    BY <1>0, <1>1, <2>1, <2>3
  <2> QED
    BY <2>2, <2>3
<1>6. ASSUME NEW u \in Users, DeactivateAccount(u) \/ DeleteUser(u) PROVE MoveHoldsRole(j)'
  BY <1>1, <1>6 DEF DeactivateAccount, DeleteUser
<1>7. ASSUME NEW u \in Users, NEW on \in BOOLEAN, SetAdmin(u, on) PROVE MoveHoldsRole(j)'
  <2>1. job' = job /\ (role' = role \/ \E r \in StaffRoles : role' = [role EXCEPT ![r].ever = TRUE])
    BY <1>7 DEF SetAdmin
  <2> QED
    BY <1>0, <1>1, <2>1 DEF RoleRow
<1>8. ASSUME NEW r \in StaffRoles, NEW d \in DOMAIN Desks, CreateRole(r, d) PROVE MoveHoldsRole(j)'
  BY <1>0, <1>1, <1>8 DEF CreateRole
<1>9. ASSUME NEW r \in StaffRoles, NEW d \in DOMAIN Desks, NEW t \in 1..MaxTerms, UpdateRole(r, d, t)
      PROVE  MoveHoldsRole(j)'
  BY <1>0, <1>1, <1>9 DEF UpdateRole, RoleRow
<1>10. ASSUME NEW r \in StaffRoles, DeactivateRole(r) \/ ReactivateRole(r) PROVE MoveHoldsRole(j)'
  BY <1>0, <1>1, <1>10 DEF DeactivateRole, ReactivateRole, RoleRow
<1>11. ASSUME NEW r \in StaffRoles, RemoveRole(r) PROVE MoveHoldsRole(j)'
  <2>1. job' = job /\ role' = [role EXCEPT ![r].there = FALSE] /\ RoleFree(r)
    BY <1>11 DEF RemoveRole
  <2>2. job[j].at = "move" => job[j].role # r
    BY <2>1 DEF RoleFree, LocksRole
  <2> QED
    BY <1>0, <2>1, <2>2 DEF MoveHoldsRole
<1>12. ASSUME NEW l \in Outlets, CloseOutlet(l) \/ ReopenOutlet(l) PROVE MoveHoldsRole(j)'
  BY <1>1, <1>12 DEF CloseOutlet, ReopenOutlet
<1>13. ASSUME NEW i \in StaffJobs, NEW u \in Users, ReactivateRead(i, u) PROVE MoveHoldsRole(j)'
  <2>1. role' = role /\ (job'[j] = job[j] \/ job'[j].at # "move")
    BY <1>0, <1>13 DEF ReactivateRead, db, NoJob
  <2> QED
    BY <1>1, <1>2, <2>1
<1>14. ASSUME NEW i \in StaffJobs, NEW u \in Users, NEW locs \in SUBSET Places \ {{}},
              SetPostingsRead(i, u, locs)
       PROVE  MoveHoldsRole(j)'
  <2>1. role' = role /\ (job'[j] = job[j] \/ job'[j].at # "move")
    BY <1>0, <1>14 DEF SetPostingsRead, db, NoJob
  <2> QED
    BY <1>1, <1>2, <2>1
<1>15. ASSUME NEW i \in StaffJobs, NEW u \in Users, NEW r \in StaffRoles, NEW l \in Places,
              MoveUserRead(i, u, r, l)
       PROVE  MoveHoldsRole(j)'
  <2>1. role' = role /\ role[r].there
    BY <1>15 DEF MoveUserRead, db
  <2>2. job'[j] = job[j] \/ (job'[j].role = r /\ job'[j].user = u)
    BY <1>0, <1>15 DEF MoveUserRead, NoJob
  <2> QED
    BY <1>1, <2>1, <2>2 DEF MoveHoldsRole
<1> QED
  BY <1>3, <1>4, <1>5, <1>6, <1>7, <1>8, <1>9, <1>10, <1>11, <1>12, <1>13, <1>14, <1>15
     DEF StaffNext, AccountStep, RoleStep

\* Nobody comes to the table but by createUserTx, with the number it allocated.
Arrives(u) == ~person[u].there /\ person'[u].there

LEMMA ArrivalsAreCreated ==
    ASSUME StaffInv, StaffNext
    PROVE  \/ UNCHANGED <<seq, given>> /\ \A u \in Users : ~Arrives(u)
           \/ /\ AllocateUserNumber \in Users
              /\ seq' = AllocateUserNumber + 1 /\ given' = given \cup {AllocateUserNumber}
              /\ \A u \in Users : Arrives(u) => u = AllocateUserNumber
<1>0. person \in [Users -> PersonRow]
  BY DEF StaffInv, StaffTypes
<1>1. ASSUME UNCHANGED person PROVE \A u \in Users : ~Arrives(u)
  BY <1>1 DEF Arrives
<1>2. ASSUME NEW r \in StaffRoles, NEW l \in Places, CreateUser(r, l)
      PROVE  /\ AllocateUserNumber \in Users
             /\ seq' = AllocateUserNumber + 1 /\ given' = given \cup {AllocateUserNumber}
             /\ \A u \in Users : Arrives(u) => u = AllocateUserNumber
  <2>1. PICK n : n = AllocateUserNumber
    OBVIOUS
  <2>2. /\ n \in Users /\ seq' = n + 1 /\ given' = given \cup {n}
        /\ \A u \in Users : u # n => person'[u] = person[u]
    BY <1>0, <1>2, <2>1 DEF CreateUser
  <2> QED
    BY <2>1, <2>2 DEF Arrives
<1>3. ASSUME NEW j \in StaffJobs, MoveUserCommit(j)
      PROVE  UNCHANGED <<seq, given>> /\ \A u \in Users : ~Arrives(u)
  <2>1. \A u \in Users : person'[u] = person[u] \/ person[u].there
    BY <1>0, <1>3 DEF MoveUserCommit
  <2> QED
    BY <1>3, <2>1 DEF MoveUserCommit, Arrives
<1>4. ASSUME NEW j \in StaffJobs, ReactivateCommit(j) \/ SetPostingsCommit(j)
      PROVE  UNCHANGED <<seq, given>> /\ \A u \in Users : ~Arrives(u)
  <2>1. \A u \in Users : person'[u] = person[u] \/ person[u].there
    BY <1>0, <1>4 DEF ReactivateCommit, SetPostingsCommit
  <2> QED
    BY <1>4, <2>1 DEF ReactivateCommit, SetPostingsCommit, Arrives
<1>5. ASSUME NEW v \in Users, DeactivateAccount(v) \/ DeleteUser(v)
      PROVE  UNCHANGED <<seq, given>> /\ \A u \in Users : ~Arrives(u)
  <2>1. \A u \in Users : person'[u] = person[u] \/ person[u].there
    BY <1>0, <1>5 DEF DeactivateAccount, DeleteUser
  <2> QED
    BY <1>5, <2>1 DEF DeactivateAccount, DeleteUser, Arrives
<1>6. ASSUME NEW v \in Users, NEW on \in BOOLEAN, SetAdmin(v, on)
      PROVE  UNCHANGED <<seq, given>> /\ \A u \in Users : ~Arrives(u)
  <2>1. \A u \in Users : person'[u] = person[u] \/ person[u].there
    BY <1>0, <1>6 DEF SetAdmin
  <2> QED
    BY <1>6, <2>1 DEF SetAdmin, Arrives
<1>7. ASSUME NEW r \in StaffRoles, NEW d \in DOMAIN Desks, NEW t \in 1..MaxTerms, UpdateRole(r, d, t)
      PROVE  UNCHANGED <<seq, given>> /\ \A u \in Users : ~Arrives(u)
  <2>1. \A u \in Users : person'[u] = person[u] \/ person[u].there
    BY <1>0, <1>7 DEF UpdateRole
  <2> QED
    BY <1>7, <2>1 DEF UpdateRole, Arrives
<1>8. ASSUME NEW r \in StaffRoles, NEW d \in DOMAIN Desks, CreateRole(r, d)
      PROVE  UNCHANGED <<seq, given, person>>
  BY <1>8 DEF CreateRole
<1>9. ASSUME NEW r \in StaffRoles, DeactivateRole(r) \/ ReactivateRole(r) \/ RemoveRole(r)
      PROVE  UNCHANGED <<seq, given, person>>
  BY <1>9 DEF DeactivateRole, ReactivateRole, RemoveRole
<1>10. ASSUME NEW l \in Outlets, CloseOutlet(l) \/ ReopenOutlet(l)
       PROVE  UNCHANGED <<seq, given, person>>
  BY <1>10 DEF CloseOutlet, ReopenOutlet
<1>11. ASSUME NEW j \in StaffJobs, NEW v \in Users, ReactivateRead(j, v)
       PROVE  UNCHANGED <<seq, given, person>>
  BY <1>11 DEF ReactivateRead, db
<1>12. ASSUME NEW j \in StaffJobs, NEW v \in Users, NEW r \in StaffRoles, NEW l \in Places,
              MoveUserRead(j, v, r, l)
       PROVE  UNCHANGED <<seq, given, person>>
  BY <1>12 DEF MoveUserRead, db
<1>13. ASSUME NEW j \in StaffJobs, NEW v \in Users, NEW locs \in SUBSET Places \ {{}},
              SetPostingsRead(j, v, locs)
       PROVE  UNCHANGED <<seq, given, person>>
  BY <1>13 DEF SetPostingsRead, db
<1> QED
  BY <1>1, <1>2, <1>3, <1>4, <1>5, <1>6, <1>7, <1>8, <1>9, <1>10, <1>11, <1>12, <1>13
     DEF StaffNext, AccountStep, RoleStep

\* Such a number was never given.
LEMMA NewIdIsNotGiven ==
    ASSUME StaffInv, StaffNext, MaxUsers \in Nat, NEW u \in Users, Arrives(u)
    PROVE  u \notin given
<1>1. u = AllocateUserNumber
  BY ArrivalsAreCreated
<1>2. u \in Nat /\ u >= seq /\ seq \in Nat /\ given \in SUBSET Nat
  BY <1>1, NumberIsNew DEF StaffInv, StaffTypes, Users
<1>3. u \in given => u < seq
  BY DEF StaffInv, IdsGiven
<1> QED
  BY <1>2, <1>3

LEMMA StaffIds ==
    ASSUME StaffInv, StaffNext, MaxUsers \in Nat
    PROVE  IdsGiven'
<1>0. /\ seq \in Nat /\ given \in SUBSET Users /\ IdsGiven
  BY DEF StaffInv, StaffTypes
<1>1. CASE UNCHANGED <<seq, given>> /\ \A u \in Users : ~Arrives(u)
  <2>1. \A n \in given' : n < seq'
    BY <1>0, <1>1 DEF IdsGiven
  <2>2. \A u \in Users : person'[u].there => u \in given'
    BY <1>0, <1>1 DEF IdsGiven, Arrives
  <2> QED
    BY <2>1, <2>2 DEF IdsGiven
<1>2. ASSUME NEW n \in Users, n >= seq, seq' = n + 1, given' = given \cup {n},
             \A u \in Users : Arrives(u) => u = n
      PROVE  IdsGiven'
  <2>1. \A m \in given' : m < seq'
    <3>1. \A m \in given : m < seq /\ m \in Nat
      BY <1>0 DEF IdsGiven, Users
    <3> QED
      BY <1>0, <1>2, <3>1 DEF Users
  <2>2. \A u \in Users : person'[u].there => u \in given'
    BY <1>0, <1>2 DEF IdsGiven, Arrives
  <2> QED
    BY <2>1, <2>2 DEF IdsGiven
<1> QED
  BY <1>0, <1>1, <1>2, ArrivalsAreCreated, NumberIsNew

-----------------------------------------------------------------------------
(* The theorems.                                                           *)

\* Whatever account and role writes overlap, the inductive invariant holds.
THEOREM StaffInvariant == StaffSpec => []StaffInv
<1>0. MaxUsers \in Nat /\ 1 \in Users
  BY StaffBounds DEF Users
<1>1. StaffInit => StaffInv
  <2> SUFFICES ASSUME StaffInit PROVE StaffInv
    OBVIOUS
  <2>1. PICK d \in DOMAIN Desks, r \in StaffRoles, l \in Outlets :
            /\ l \in Desks[d]
            /\ role = [x \in StaffRoles |-> [there |-> TRUE, active |-> TRUE, desk |-> d, terms |-> 1,
                                             ever |-> x = r]]
            /\ person = [u \in Users |->
                  IF u = 1 THEN [there |-> TRUE, active |-> TRUE, role |-> r, desk |-> d, label |-> 1,
                                 home |-> l, postings |-> {l}] ELSE Nobody]
            /\ open = [x \in Outlets |-> TRUE]
            /\ job = [j \in StaffJobs |-> NoJob]
            /\ seq = 2
            /\ given = {1}
    BY Zenon DEF StaffInit
  <2>2. NoJob \in JobRow /\ Nobody \in PersonRow
    BY DEF NoJob, JobRow, Nobody, PersonRow, Anywhere
  <2>3. [there |-> TRUE, active |-> TRUE, role |-> r, desk |-> d, label |-> 1,
         home |-> l, postings |-> {l}] \in PersonRow
    <3>1. l \in Anywhere
      BY <2>1 DEF Anywhere, Places
    <3> QED
      BY <2>1, <3>1 DEF PersonRow
  <2>4. person \in [Users -> PersonRow] /\ job \in [StaffJobs -> JobRow]
    BY <2>1, <2>2, <2>3
  <2>5. role \in [StaffRoles -> RoleRow]
    BY <2>1 DEF RoleRow
  <2>6. StaffTypes
    BY <1>0, <2>1, <2>4, <2>5 DEF StaffTypes
  <2>7. \A u \in Users : CarriesItsRole(u)
    BY <2>1 DEF CarriesItsRole, Nobody
  <2>8. \A j \in StaffJobs : MoveHoldsRole(j)
    BY <2>1 DEF MoveHoldsRole, NoJob
  <2>9. IdsGiven
    BY <2>1 DEF IdsGiven, Nobody
  <2> QED
    BY <2>6, <2>7, <2>8, <2>9 DEF StaffInv
<1>2. StaffInv /\ [StaffNext]_staffVars => StaffInv'
  <2>1. ASSUME StaffInv, StaffNext PROVE StaffInv'
    BY <1>0, <2>1, StaffTyped, StaffCarries, StaffMovesHold, StaffIds DEF StaffInv
  <2>2. ASSUME StaffInv, UNCHANGED staffVars PROVE StaffInv'
    BY <2>2 DEF StaffInv, staffVars, StaffTypes, CarriesItsRole, MoveHoldsRole, IdsGiven
  <2> QED
    BY <2>1, <2>2
<1> QED
  BY <1>1, <1>2, PTL DEF StaffSpec

\* users.role, role_desk and role_label never disagree with the role an account holds, whatever
\* moves, renames, desk changes and removals of roles overlap.
THEOREM CopiesFollow == StaffSpec => []CopiesFollowTheRole
<1>1. StaffInv => CopiesFollowTheRole
  BY DEF StaffInv, CarriesItsRole, CopiesFollowTheRole
<1> QED
  BY <1>1, StaffInvariant, PTL

\* allocateUserNumber never hands out an id a second time, whoever was deleted since.
THEOREM IdsAreNotReused == StaffSpec => NoIdTwice
<1>1. StaffInv /\ [StaffNext]_staffVars
      => [\A u \in Users : ~person[u].there /\ person'[u].there => u \notin given]_staffVars
  <2>1. MaxUsers \in Nat
    BY StaffBounds
  <2> QED
    BY <2>1, NewIdIsNotGiven DEF Arrives
<1> QED
  BY <1>1, StaffInvariant, PTL DEF StaffSpec, NoIdTwice

-----------------------------------------------------------------------------
(* Sessions: types.  What the parts of the invariant rest on.              *)

CallPlaces == {"idle", "verifying", "verified", "shift read", "closing", "read", "claimed",
               "revoking", "changing", "resetting", "deactivating", "moving"}
AccountRow == [pw : Nat, active : BOOLEAN]
TokenRow == [user : Operators \cup {"none"}, family : Nat, heirOf : Nat,
             pw : Nat, used : BOOLEAN, dead : BOOLEAN]
CallRow == [at : CallPlaces, user : Operators \cup {"none"}, loc : Counters \cup {"none"},
            pw : Nat, token : Tokens \cup {0}, rows : SUBSET Tokens, held : Counters \cup {"none"}]

\* A request at work is somebody's.
HasUser(c) == call[c].at # "idle" => call[c].user \in Operators

SessionTypes ==
    /\ acct \in [Operators -> AccountRow]
    /\ tok \in [Tokens -> TokenRow]
    /\ call \in [Calls -> CallRow]
    /\ \A c \in Calls : HasUser(c)
    /\ slots \in [Operators -> Nat] /\ wrong \in [Operators -> Nat]

\* The next row of one request; the others stay where they are.
Becomes(c, row) == call' = [call EXCEPT ![c] = row]

LEMMA CallTyped ==
    ASSUME SessionTypes, NEW c \in Calls, NEW row \in CallRow, Becomes(c, row),
           row.at # "idle" => row.user \in Operators
    PROVE  call' \in [Calls -> CallRow] /\ \A d \in Calls : HasUser(d)'
BY DEF SessionTypes, Becomes, HasUser

LEMMA IdleTyped ==
    ASSUME SessionTypes, NEW c \in Calls, Becomes(c, NoCall)
    PROVE  call' \in [Calls -> CallRow] /\ \A d \in Calls : HasUser(d)'
<1>1. NoCall \in CallRow /\ NoCall.at = "idle"
  BY DEF NoCall, CallRow, CallPlaces
<1> QED
  BY <1>1, CallTyped

LEMMA CallsTyped ==
    ASSUME SessionTypes, SessionsNext
    PROVE  call' \in [Calls -> CallRow] /\ \A d \in Calls : HasUser(d)'
<1>0. /\ acct \in [Operators -> AccountRow] /\ tok \in [Tokens -> TokenRow]
      /\ call \in [Calls -> CallRow] /\ \A c \in Calls : HasUser(c)
  BY DEF SessionTypes
<1>00. \A t \in Minted : t \in Tokens /\ tok[t].user \in Operators
  BY <1>0 DEF Minted, TokenRow
<1> DEFINE Goal == call' \in [Calls -> CallRow] /\ \A d \in Calls : HasUser(d)'
<1>1. ASSUME NEW c \in Calls, NEW u \in Operators, NEW l \in Counters,
             LoginBegin(c, u, l) \/ CloseShiftTake(c, u, l)
      PROVE  Goal
  <2>1. ASSUME NEW p \in {"verifying", "closing"},
               Becomes(c, [NoCall EXCEPT !.at = p, !.user = u, !.loc = l])
        PROVE  Goal
    <3>1. [NoCall EXCEPT !.at = p, !.user = u, !.loc = l] \in CallRow
      BY DEF NoCall, CallRow, CallPlaces
    <3>2. [NoCall EXCEPT !.at = p, !.user = u, !.loc = l].user \in Operators
      BY DEF NoCall
    <3> QED
      BY <2>1, <3>1, <3>2, CallTyped
  <2> QED
    BY <1>1, <2>1 DEF LoginBegin, CloseShiftTake, Becomes
<1>2. ASSUME NEW c \in Calls, LoginRefused(c) \/ LoginCommit(c) \/ CloseShiftCommit(c)
             \/ RefreshCommit(c) \/ RefreshTooOld(c) \/ RevokeCommit(c) \/ Abandon(c)
      PROVE  Goal
  <2>1. Becomes(c, NoCall)
    BY <1>2 DEF LoginRefused, LoginCommit, CloseShiftCommit, RefreshCommit, RefreshTooOld,
                RevokeCommit, Abandon, Becomes
  <2> QED
    BY <2>1, IdleTyped
<1>3. ASSUME NEW c \in Calls, call[c].at # "idle", NEW p \in CallPlaces, NEW pw \in Nat,
             NEW rows \in SUBSET Tokens, NEW h \in Counters \cup {"none"},
             Becomes(c, [call[c] EXCEPT !.at = p, !.pw = pw, !.rows = rows, !.held = h])
      PROVE  Goal
  <2>1. [call[c] EXCEPT !.at = p, !.pw = pw, !.rows = rows, !.held = h] \in CallRow
    BY <1>0 DEF CallRow
  <2>2. [call[c] EXCEPT !.at = p, !.pw = pw, !.rows = rows, !.held = h].user \in Operators
    BY <1>0, <1>3 DEF CallRow, HasUser
  <2> QED
    BY <1>3, <2>1, <2>2, CallTyped
<1>33. \A c \in Calls : /\ call[c].pw \in Nat /\ call[c].rows \in SUBSET Tokens
                        /\ call[c].held \in Counters \cup {"none"}
  BY <1>0 DEF CallRow
<1>4. ASSUME NEW c \in Calls, LoginVerified(c) PROVE Goal
  <2>1. call[c].at # "idle" /\ acct[call[c].user].pw \in Nat
    BY <1>0, <1>4 DEF LoginVerified, HasUser, AccountRow
  <2>2. Becomes(c, [call[c] EXCEPT !.at = "verified", !.pw = acct[call[c].user].pw,
                        !.rows = call[c].rows, !.held = call[c].held])
    BY <1>0, <1>4 DEF LoginVerified, Becomes, CallRow
  <2> QED
    BY <1>3, <1>33, <2>1, <2>2 DEF CallPlaces
<1>5. ASSUME NEW c \in Calls, StartShift(c) PROVE Goal
  <2>1. PICK h \in Counters \cup {"none"} :
            Becomes(c, [call[c] EXCEPT !.at = "shift read", !.pw = call[c].pw,
                            !.rows = call[c].rows, !.held = h])
    <3>1. CASE call' = [call EXCEPT ![c].at = "shift read"]
      BY <1>0, <1>33, <3>1 DEF Becomes, CallRow
    <3>2. ASSUME NEW l \in Counters, call' = [call EXCEPT ![c].at = "shift read", ![c].held = l]
          PROVE  Becomes(c, [call[c] EXCEPT !.at = "shift read", !.pw = call[c].pw,
                                 !.rows = call[c].rows, !.held = l])
      BY <1>0, <3>2 DEF Becomes, CallRow
    <3> QED
      BY <1>5, <3>1, <3>2 DEF StartShift, OpenShifts
  <2>2. call[c].at # "idle"
    BY <1>5 DEF StartShift
  <2> QED
    BY <1>3, <1>33, <2>1, <2>2 DEF CallPlaces
<1>6. ASSUME NEW c \in Calls, NEW t \in Tokens, RefreshRead(c, t) PROVE Goal
  <2> DEFINE row == [NoCall EXCEPT !.at = "read", !.token = t, !.user = tok[t].user]
  <2>1. tok[t].user \in Operators
    BY <1>00, <1>6 DEF RefreshRead
  <2>2. row \in CallRow /\ row.user \in Operators
    BY <2>1 DEF NoCall, CallRow, CallPlaces
  <2> QED
    BY <1>6, <2>2, CallTyped DEF RefreshRead, Becomes
<1>7. ASSUME NEW c \in Calls, MarkUsed(c) PROVE Goal
  <2>1. PICK p \in CallPlaces, rows \in SUBSET Tokens :
            Becomes(c, [call[c] EXCEPT !.at = p, !.pw = call[c].pw, !.rows = rows,
                            !.held = call[c].held])
    <3>1. ASSUME call' = [call EXCEPT ![c].at = "claimed"]
          PROVE  Becomes(c, [call[c] EXCEPT !.at = "claimed", !.pw = call[c].pw,
                                 !.rows = call[c].rows, !.held = call[c].held])
      BY <1>0, <3>1 DEF Becomes, CallRow
    <3>2. ASSUME NEW rows \in SUBSET Tokens,
                 call' = [call EXCEPT ![c].at = "revoking", ![c].rows = rows]
          PROVE  Becomes(c, [call[c] EXCEPT !.at = "revoking", !.pw = call[c].pw, !.rows = rows,
                                 !.held = call[c].held])
      BY <1>0, <3>2 DEF Becomes, CallRow
    <3>3. {r \in Minted : tok[r].family = tok[call[c].token].family} \in SUBSET Tokens
      BY DEF Minted
    <3>4. "claimed" \in CallPlaces /\ "revoking" \in CallPlaces
      BY DEF CallPlaces
    <3>5. \/ call' = [call EXCEPT ![c].at = "claimed"]
          \/ call' = [call EXCEPT ![c].at = "revoking",
                         ![c].rows = {r \in Minted : tok[r].family = tok[call[c].token].family}]
      BY <1>7 DEF MarkUsed
    <3>6. CASE call' = [call EXCEPT ![c].at = "claimed"]
      BY <3>1, <3>4, <3>6, <1>33
    <3>7. CASE call' = [call EXCEPT ![c].at = "revoking",
                          ![c].rows = {r \in Minted : tok[r].family = tok[call[c].token].family}]
      BY <3>2, <3>3, <3>4, <3>7
    <3> QED
      BY <3>5, <3>6, <3>7
  <2>2. call[c].at # "idle"
    BY <1>7 DEF MarkUsed
  <2> QED
    BY <1>3, <1>33, <2>1, <2>2
<1>8. ASSUME NEW c \in Calls, NEW t \in Tokens, Logout(c, t) PROVE Goal
  <2> DEFINE row == [NoCall EXCEPT !.at = "revoking", !.user = tok[t].user,
                                    !.rows = {r \in Minted : tok[r].family = tok[t].family}]
  <2>1. tok[t].user \in Operators
    BY <1>00, <1>8 DEF Logout
  <2>2. row \in CallRow /\ row.user \in Operators
    BY <2>1 DEF NoCall, CallRow, CallPlaces, Minted
  <2> QED
    BY <1>8, <2>2, CallTyped DEF Logout, Becomes
<1>9. ASSUME NEW c \in Calls, NEW u \in Operators,
             ChangePassword(c, u) \/ ResetPassword(c, u) \/ DeactivateUser(c, u) \/ MoveUser(c, u)
      PROVE  Goal
  <2>1. ASSUME NEW p \in {"changing", "resetting"}, NEW pw \in Nat,
               Becomes(c, [NoCall EXCEPT !.at = p, !.user = u, !.pw = pw, !.rows = RowsOf(u)])
        PROVE  Goal
    <3>1. [NoCall EXCEPT !.at = p, !.user = u, !.pw = pw, !.rows = RowsOf(u)] \in CallRow
      BY DEF NoCall, CallRow, CallPlaces, RowsOf, Minted
    <3>2. [NoCall EXCEPT !.at = p, !.user = u, !.pw = pw, !.rows = RowsOf(u)].user \in Operators
      BY DEF NoCall
    <3> QED
      BY <2>1, <3>1, <3>2, CallTyped
  <2>0. ASSUME NEW p \in {"deactivating", "moving"},
               Becomes(c, [NoCall EXCEPT !.at = p, !.user = u, !.rows = RowsOf(u)])
        PROVE  Goal
    <3>1. [NoCall EXCEPT !.at = p, !.user = u, !.rows = RowsOf(u)] \in CallRow
      BY DEF NoCall, CallRow, CallPlaces, RowsOf, Minted
    <3>2. [NoCall EXCEPT !.at = p, !.user = u, !.rows = RowsOf(u)].user \in Operators
      BY DEF NoCall
    <3> QED
      BY <2>0, <3>1, <3>2, CallTyped
  <2>2. acct[u].pw \in Nat
    BY <1>0 DEF AccountRow
  <2>3. acct[u].pw + 1 \in Nat
    BY <2>2
  <2>4. CASE ChangePassword(c, u)
    BY <2>1, <2>3, <2>4 DEF ChangePassword, Becomes
  <2>5. CASE ResetPassword(c, u)
    BY <2>1, <2>3, <2>5 DEF ResetPassword, Becomes
  <2>6. CASE DeactivateUser(c, u)
    BY <2>0, <2>6 DEF DeactivateUser, Becomes
  <2>7. CASE MoveUser(c, u)
    BY <2>0, <2>7 DEF MoveUser, Becomes
  <2> QED
    BY <1>9, <2>4, <2>5, <2>6, <2>7
<1>10. ASSUME UNCHANGED call PROVE Goal
  BY <1>0, <1>10 DEF HasUser
<1>11. ASSUME NEW u \in Operators, WindowPasses(u) \/ ReactivateUser(u) PROVE Goal
  BY <1>10, <1>11 DEF WindowPasses, ReactivateUser
<1>12. ASSUME NEW t \in Tokens, Lapse(t) PROVE Goal
  BY <1>10, <1>12 DEF Lapse
<1> QED
  BY <1>1, <1>2, <1>4, <1>5, <1>6, <1>7, <1>8, <1>9, <1>11, <1>12
     DEF SessionsNext, SignInStep, RotationStep, EndingStep

-----------------------------------------------------------------------------
(* Sessions: refresh tokens.  Tokens are numbered as they are minted, and  *)
(* their rows are a forest: a family grows from its first token, a token   *)
(* is inherited by one other, and never before it is used.                 *)

MintedInOrder == \E n \in Nat : Minted = 1..n

RowFollows(t) ==
    /\ tok[t].family \in Minted
    /\ tok[t].heirOf = 0 => tok[t].family = t
    /\ tok[t].heirOf # 0 =>
          /\ tok[t].heirOf \in Minted /\ tok[tok[t].heirOf].used
          /\ tok[tok[t].heirOf].family = tok[t].family

\* Two tokens have two parents; two of one family are not both unused.
RowsDiffer(s, t) ==
    s # t => /\ tok[s].heirOf # 0 => tok[s].heirOf # tok[t].heirOf
             /\ tok[s].family = tok[t].family => tok[s].used \/ tok[t].used

Forest ==
    /\ MintedInOrder
    /\ \A t \in Minted : RowFollows(t)
    /\ \A s, t \in Minted : RowsDiffer(s, t)

\* A refresh shows a token of its own account; a claim is of an unused one, and nobody else's.
ShowsOwn(c) ==
    call[c].at \in {"read", "claimed"} =>
        call[c].token \in Minted /\ call[c].user = tok[call[c].token].user
HasClaim(c) == call[c].at = "claimed"
ClaimsUnused(c) == HasClaim(c) => ~tok[call[c].token].used
ClaimsAlone(c, d) == HasClaim(c) /\ HasClaim(d) /\ call[c].token = call[d].token => c = d

TokensInv ==
    /\ Forest
    /\ \A c \in Calls : ShowsOwn(c) /\ ClaimsUnused(c)
    /\ \A c, d \in Calls : ClaimsAlone(c, d)

\* A row a step leaves in its place; it may be used up.
SameRow(t) ==
    /\ tok'[t].user = tok[t].user /\ tok'[t].family = tok[t].family /\ tok'[t].heirOf = tok[t].heirOf
    /\ tok[t].used => tok'[t].used

LEMMA NextIsNew ==
    ASSUME MintedInOrder
    PROVE  NextToken \notin Minted /\ NextToken \in Nat \ {0}
           /\ \E n \in Nat : Minted = 1..n /\ NextToken = n + 1
<1>1. PICK n \in Nat : Minted = 1..n
  BY DEF MintedInOrder
<1>2. Cardinality(1..n) = n
  BY FS_Interval
<1>3. NextToken = n + 1
  BY <1>1, <1>2 DEF NextToken
<1> QED
  BY <1>1, <1>3

LEMMA MintedStays ==
    ASSUME \A t \in Tokens : SameRow(t)
    PROVE  Minted' = Minted
BY DEF SameRow, Minted, Tokens

LEMMA ForestKept ==
    ASSUME Forest, \A t \in Tokens : SameRow(t)
    PROVE  Forest'
<1>1. Minted' = Minted /\ Minted \subseteq Tokens
  BY MintedStays DEF Minted
<1>2. MintedInOrder'
  BY <1>1 DEF Forest, MintedInOrder
<1>3. ASSUME NEW t \in Minted PROVE RowFollows(t)'
  BY <1>1, <1>3 DEF Forest, RowFollows, SameRow
<1>4. ASSUME NEW s \in Minted, NEW t \in Minted PROVE RowsDiffer(s, t)'
  BY <1>1, <1>4 DEF Forest, RowsDiffer, SameRow
<1> QED
  BY <1>1, <1>2, <1>3, <1>4 DEF Forest

LEMMA ForestGrows ==
    ASSUME Forest, NEW n \in Tokens, n = NextToken,
           tok'[n].user \in Operators, ~tok'[n].used,
           \A t \in Tokens : t # n => SameRow(t),
           \/ tok'[n].heirOf = 0 /\ tok'[n].family = n
           \/ /\ tok'[n].heirOf \in Minted
              /\ ~tok[tok'[n].heirOf].used /\ tok'[tok'[n].heirOf].used
              /\ tok'[n].family = tok[tok'[n].heirOf].family
    PROVE  Forest' /\ Minted' = Minted \cup {n}
<1>1. /\ n \notin Minted /\ n # 0
  BY NextIsNew DEF Forest
<1>2. Minted \subseteq Tokens /\ 0 \notin Minted
  BY DEF Minted, Tokens
<1>3. Minted' = Minted \cup {n}
  BY SessionAssumption DEF Minted, SameRow, Tokens
<1>4. MintedInOrder'
  <2>1. PICK m \in Nat : Minted = 1..m /\ n = m + 1
    BY NextIsNew DEF Forest
  <2>2. Minted' = 1..(m + 1)
    BY <1>3, <2>1
  <2> QED
    BY <2>1, <2>2 DEF MintedInOrder
<1>5. \A t \in Minted : SameRow(t) /\ RowFollows(t) /\ t # n
  BY <1>1, <1>2 DEF Forest
<1>6. ASSUME NEW t \in Minted PROVE RowFollows(t)'
  BY <1>2, <1>3, <1>5, <1>6 DEF RowFollows, SameRow
<1>7. RowFollows(n)'
  <2>1. CASE tok'[n].heirOf = 0 /\ tok'[n].family = n
    BY <1>3, <2>1 DEF RowFollows
  <2>2. CASE /\ tok'[n].heirOf \in Minted
             /\ ~tok[tok'[n].heirOf].used /\ tok'[tok'[n].heirOf].used
             /\ tok'[n].family = tok[tok'[n].heirOf].family
    BY <1>2, <1>3, <1>5, <2>2 DEF RowFollows, SameRow
  <2> QED
    BY <2>1, <2>2
<1>8. ASSUME NEW s \in Minted, NEW t \in Minted PROVE RowsDiffer(s, t)'
  BY <1>5, <1>8 DEF Forest, RowsDiffer, SameRow
<1>9. ASSUME NEW s \in Minted PROVE RowsDiffer(s, n)' /\ RowsDiffer(n, s)'
  <2>1. /\ s # n /\ tok'[s].family = tok[s].family /\ tok'[s].heirOf = tok[s].heirOf
        /\ tok[s].used => tok'[s].used
    BY <1>5, <1>9 DEF SameRow
  <2>2. tok[s].family \in Minted /\ (tok[s].heirOf # 0 => tok[tok[s].heirOf].used)
    BY <1>5, <1>9 DEF RowFollows
  <2>3. CASE tok'[n].heirOf = 0 /\ tok'[n].family = n
    BY <1>1, <2>1, <2>2, <2>3 DEF RowsDiffer
  <2>4. CASE /\ tok'[n].heirOf \in Minted
             /\ ~tok[tok'[n].heirOf].used /\ tok'[tok'[n].heirOf].used
             /\ tok'[n].family = tok[tok'[n].heirOf].family
    <3>1. PICK h \in Minted : h = tok'[n].heirOf
      BY <2>4
    <3>2. RowsDiffer(s, h) /\ h # 0
      BY <1>2, <1>9, <3>1 DEF Forest
    <3>3. tok[s].heirOf # h
      BY <2>2, <2>4, <3>1, <3>2
    <3>4. tok[s].family = tok[h].family => tok'[s].used
      BY <2>1, <2>4, <3>1, <3>2 DEF RowsDiffer
    <3> QED
      BY <2>1, <2>4, <3>1, <3>2, <3>3, <3>4 DEF RowsDiffer
  <2> QED
    BY <2>3, <2>4
<1>10. RowsDiffer(n, n)'
  BY DEF RowsDiffer
<1> QED
  BY <1>3, <1>4, <1>6, <1>7, <1>8, <1>9, <1>10 DEF Forest

\* A step after which nobody shows or claims a token who did not before.
ClaimsFromBefore == \A d \in Calls : call'[d].at \in {"read", "claimed"} => call'[d] = call[d]

LEMMA ClaimsKept ==
    ASSUME TokensInv, ClaimsFromBefore, Minted \subseteq Minted',
           \A t \in Minted : tok'[t].user = tok[t].user,
           \A d \in Calls : HasClaim(d) /\ call'[d] = call[d] => ~tok'[call[d].token].used
    PROVE  /\ \A c \in Calls : ShowsOwn(c)' /\ ClaimsUnused(c)'
           /\ \A c, d \in Calls : ClaimsAlone(c, d)'
<1>1. ASSUME NEW c \in Calls PROVE ShowsOwn(c)'
  BY <1>1 DEF TokensInv, ClaimsFromBefore, ShowsOwn
<1>2. ASSUME NEW c \in Calls PROVE HasClaim(c)' => HasClaim(c) /\ call'[c] = call[c]
  BY <1>2 DEF ClaimsFromBefore, HasClaim
<1>3. ASSUME NEW c \in Calls PROVE ClaimsUnused(c)'
  BY <1>2, <1>3 DEF ClaimsUnused
<1>4. ASSUME NEW c \in Calls, NEW d \in Calls PROVE ClaimsAlone(c, d)'
  BY <1>2, <1>4 DEF TokensInv, ClaimsAlone
<1> QED
  BY <1>1, <1>3, <1>4

LEMMA TokensUntouched ==
    ASSUME TokensInv, ClaimsFromBefore, UNCHANGED tok
    PROVE  TokensInv'
<1>1. Forest' /\ Minted' = Minted
  <2>1. \A t \in Tokens : SameRow(t)
    BY DEF SameRow
  <2> QED
    BY <2>1, ForestKept, MintedStays DEF TokensInv
<1>2. \A d \in Calls : HasClaim(d) /\ call'[d] = call[d] => ~tok'[call[d].token].used
  BY DEF TokensInv, ClaimsUnused
<1> QED
  BY <1>1, <1>2, ClaimsKept DEF TokensInv

LEMMA TokensAside ==
    ASSUME SessionTypes, TokensInv, NEW c \in Calls,
           \/ \E u \in Operators, l \in Counters : LoginBegin(c, u, l) \/ CloseShiftTake(c, u, l)
           \/ LoginVerified(c) \/ LoginRefused(c) \/ StartShift(c) \/ CloseShiftCommit(c)
           \/ \E t \in Tokens : Logout(c, t)
           \/ \E u \in Operators : ChangePassword(c, u) \/ ResetPassword(c, u)
                                     \/ DeactivateUser(c, u) \/ MoveUser(c, u)
           \/ Abandon(c)
    PROVE  TokensInv'
<1>0. call \in [Calls -> CallRow]
  BY DEF SessionTypes
<1> DEFINE Aside == ClaimsFromBefore /\ UNCHANGED tok
<1>01. ASSUME NEW row, Becomes(c, row), row.at \notin {"read", "claimed"}, UNCHANGED tok PROVE Aside
  <2>1. ASSUME NEW d \in Calls, d # c PROVE call'[d] = call[d]
    BY <1>0, <1>01, <2>1 DEF Becomes
  <2>2. call'[c] = row
    BY <1>0, <1>01 DEF Becomes
  <2> QED
    BY <1>01, <2>1, <2>2 DEF ClaimsFromBefore
<1>1. ASSUME NEW u \in Operators, NEW l \in Counters, LoginBegin(c, u, l) \/ CloseShiftTake(c, u, l)
      PROVE  Aside
  <2>1. ASSUME NEW p \in {"verifying", "closing"}
        PROVE  [NoCall EXCEPT !.at = p, !.user = u, !.loc = l].at \notin {"read", "claimed"}
    BY DEF NoCall
  <2>2. CASE LoginBegin(c, u, l)
    BY <1>01, <2>1, <2>2 DEF LoginBegin, Becomes
  <2>3. CASE CloseShiftTake(c, u, l)
    BY <1>01, <2>1, <2>3 DEF CloseShiftTake, Becomes
  <2> QED
    BY <1>1, <2>2, <2>3
<1>2. ASSUME LoginVerified(c) PROVE Aside
  <2>1. call'[c].at = "verified" /\ UNCHANGED tok /\ \A d \in Calls : d # c => call'[d] = call[d]
    BY <1>0, <1>2 DEF LoginVerified, CallRow
  <2> QED
    BY <2>1 DEF ClaimsFromBefore
<1>3. ASSUME LoginRefused(c) \/ CloseShiftCommit(c) \/ Abandon(c) PROVE Aside
  <2>1. NoCall.at \notin {"read", "claimed"}
    BY DEF NoCall
  <2>2. Becomes(c, NoCall) /\ UNCHANGED tok
    BY <1>3 DEF LoginRefused, CloseShiftCommit, Abandon, Becomes
  <2> QED
    BY <1>01, <2>1, <2>2
<1>4. ASSUME StartShift(c) PROVE Aside
  <2>1. \/ call' = [call EXCEPT ![c].at = "shift read"]
        \/ \E l \in Counters : call' = [call EXCEPT ![c].at = "shift read", ![c].held = l]
    BY <1>4 DEF StartShift, OpenShifts
  <2>2. \/ Becomes(c, [call[c] EXCEPT !.at = "shift read"])
        \/ \E l \in Counters : Becomes(c, [call[c] EXCEPT !.at = "shift read", !.held = l])
    BY <1>0, <2>1 DEF Becomes
  <2>3. [call[c] EXCEPT !.at = "shift read"].at = "shift read"
        /\ \A l : [call[c] EXCEPT !.at = "shift read", !.held = l].at = "shift read"
    BY <1>0 DEF CallRow
  <2>4. UNCHANGED tok
    BY <1>4 DEF StartShift
  <2> QED
    BY <1>01, <2>2, <2>3, <2>4
<1>5. ASSUME NEW t \in Tokens, Logout(c, t) PROVE Aside
  <2>1. \A rows : [NoCall EXCEPT !.at = "revoking", !.user = tok[t].user, !.rows = rows].at
                  \notin {"read", "claimed"}
    BY DEF NoCall
  <2> QED
    BY <1>01, <1>5, <2>1 DEF Logout, Becomes
<1>6. ASSUME NEW u \in Operators,
             ChangePassword(c, u) \/ ResetPassword(c, u) \/ DeactivateUser(c, u) \/ MoveUser(c, u)
      PROVE  Aside
  <2>1. \A pw, rows : \A p \in {"changing", "resetting"} :
            [NoCall EXCEPT !.at = p, !.user = u, !.pw = pw, !.rows = rows].at \notin {"read", "claimed"}
    BY DEF NoCall
  <2>2. \A rows : \A p \in {"deactivating", "moving"} :
            [NoCall EXCEPT !.at = p, !.user = u, !.rows = rows].at \notin {"read", "claimed"}
    BY DEF NoCall
  <2>3. CASE ChangePassword(c, u)
    BY <1>01, <2>1, <2>3 DEF ChangePassword, Becomes
  <2>4. CASE ResetPassword(c, u)
    BY <1>01, <2>1, <2>4 DEF ResetPassword, Becomes
  <2>5. CASE DeactivateUser(c, u)
    BY <1>01, <2>2, <2>5 DEF DeactivateUser, Becomes
  <2>6. CASE MoveUser(c, u)
    BY <1>01, <2>2, <2>6 DEF MoveUser, Becomes
  <2> QED
    BY <1>6, <2>3, <2>4, <2>5, <2>6
<1>7. Aside
  BY <1>1, <1>2, <1>3, <1>4, <1>5, <1>6
<1> QED
  BY <1>7, TokensUntouched

\* The unlocked reads of a refresh, and the claim.
LEMMA TokensShown ==
    ASSUME SessionTypes, TokensInv, NEW c \in Calls, (\E t \in Tokens : RefreshRead(c, t)) \/ MarkUsed(c)
    PROVE  TokensInv'
<1>0. call \in [Calls -> CallRow]
  BY DEF SessionTypes
<1>1. UNCHANGED tok /\ \A d \in Calls : d # c => call'[d] = call[d]
  BY <1>0 DEF RefreshRead, MarkUsed
<1>2. Forest' /\ Minted' = Minted
  <2>1. \A t \in Tokens : SameRow(t)
    BY <1>1 DEF SameRow
  <2> QED
    BY <2>1, ForestKept, MintedStays DEF TokensInv
<1>3. ASSUME NEW d \in Calls, d # c PROVE ShowsOwn(d)' /\ ClaimsUnused(d)'
  BY <1>1, <1>2, <1>3 DEF TokensInv, ShowsOwn, ClaimsUnused, HasClaim
<1>4. ASSUME NEW d \in Calls, NEW e \in Calls, d # c, e # c PROVE ClaimsAlone(d, e)'
  BY <1>1, <1>4 DEF TokensInv, ClaimsAlone, HasClaim
<1>5. ASSUME ShowsOwn(c)', ClaimsUnused(c)', \A d \in Calls : ClaimsAlone(c, d)' /\ ClaimsAlone(d, c)'
      PROVE  TokensInv'
  BY <1>2, <1>3, <1>4, <1>5 DEF TokensInv
<1>6. ASSUME ~HasClaim(c)' PROVE ClaimsUnused(c)' /\ \A d \in Calls : ClaimsAlone(c, d)' /\ ClaimsAlone(d, c)'
  BY <1>6 DEF ClaimsUnused, ClaimsAlone
<1>7. ASSUME NEW t \in Tokens, RefreshRead(c, t) PROVE TokensInv'
  <2>1. /\ t \in Minted /\ call'[c].at = "read" /\ call'[c].token = t
        /\ call'[c].user = tok[t].user
    BY <1>0, <1>7 DEF RefreshRead, NoCall
  <2>2. ShowsOwn(c)' /\ ~HasClaim(c)'
    BY <1>1, <1>2, <2>1 DEF ShowsOwn, HasClaim
  <2> QED
    BY <1>5, <1>6, <2>2
<1>8. CASE MarkUsed(c)
  <2>1. call'[c].token = call[c].token /\ call'[c].user = call[c].user
    BY <1>0, <1>8 DEF MarkUsed, CallRow
  <2>2. ShowsOwn(c)'
    BY <1>1, <1>2, <1>8, <2>1 DEF TokensInv, ShowsOwn, MarkUsed
  <2>3. HasClaim(c)' => ~tok[call[c].token].used
    BY <1>0, <1>8 DEF MarkUsed, HasClaim, CallRow
  <2>4. \A d \in Calls : d # c => ~(HasClaim(d) /\ call[d].token = call[c].token)
    BY <1>8 DEF MarkUsed, RowFree, HasClaim
  <2>5. \A d \in Calls : ClaimsAlone(c, d)' /\ ClaimsAlone(d, c)'
    BY <1>1, <2>1, <2>4 DEF ClaimsAlone, HasClaim
  <2> QED
    BY <1>1, <1>5, <2>1, <2>2, <2>3, <2>5 DEF ClaimsUnused
<1> QED
  BY <1>7, <1>8

\* Rows that only die, or are used up by the claim that ends with the step.
LEMMA TokensDie ==
    ASSUME TokensInv, ClaimsFromBefore, \A t \in Tokens : SameRow(t),
           \A d \in Calls : HasClaim(d) /\ call'[d] = call[d] => ~tok'[call[d].token].used
    PROVE  TokensInv'
<1>1. Forest' /\ Minted' = Minted
  BY ForestKept, MintedStays DEF TokensInv
<1>2. \A t \in Minted : tok'[t].user = tok[t].user
  BY DEF SameRow, Minted
<1> QED
  BY <1>1, <1>2, ClaimsKept DEF TokensInv

\* Others stay where they are while one request comes to its end.
Ends(c) == call'[c].at = "idle" /\ \A d \in Calls : d # c => call'[d] = call[d]

LEMMA EndsFromBefore ==
    ASSUME NEW c \in Calls, Ends(c)
    PROVE  ClaimsFromBefore /\ \A d \in Calls : HasClaim(d) /\ call'[d] = call[d] => d # c
BY DEF Ends, ClaimsFromBefore, HasClaim

LEMMA NoCallEnds ==
    ASSUME SessionTypes, NEW c \in Calls, call' = [call EXCEPT ![c] = NoCall]
    PROVE  Ends(c)
<1>1. call \in [Calls -> CallRow] /\ NoCall.at = "idle"
  BY DEF SessionTypes, NoCall
<1>2. call'[c] = NoCall
  BY <1>1
<1>3. ASSUME NEW d \in Calls, d # c PROVE call'[d] = call[d]
  BY <1>1, <1>3
<1> QED
  BY <1>1, <1>2, <1>3 DEF Ends

LEMMA NewRowSays ==
    ASSUME NEW u \in Operators, NEW f \in Nat, NEW h \in Nat, NEW pw \in Nat
    PROVE  /\ NewRow(u, f, h, pw) \in TokenRow
           /\ NewRow(u, f, h, pw).user = u /\ NewRow(u, f, h, pw).family = f
           /\ NewRow(u, f, h, pw).heirOf = h
BY DEF NewRow, NoToken, TokenRow

Unused(row) == row.used = FALSE

LEMMA NewRowUnused ==
    ASSUME NEW u, NEW f, NEW h, NEW pw
    PROVE  Unused(NewRow(u, f, h, pw))
BY DEF NewRow, NoToken, Unused

\* Rows that at most died.
OnlyDies(rest) ==
    \A t \in Tokens : rest[t].user = tok[t].user /\ rest[t].family = tok[t].family
                      /\ rest[t].heirOf = tok[t].heirOf /\ rest[t].used = tok[t].used

\* A new family: by a sign-in, or by a password change on the heels of its revoke.
LEMMA FamilyStarts ==
    ASSUME SessionTypes, TokensInv,
           NEW c \in Calls, Ends(c), NEW n \in Tokens, n = NextToken,
           NEW row \in TokenRow, row.user \in Operators, row.family = n, row.heirOf = 0, Unused(row),
           NEW rest \in [Tokens -> TokenRow], OnlyDies(rest),
           tok' = [rest EXCEPT ![n] = row]
    PROVE  TokensInv' /\ tok' \in [Tokens -> TokenRow]
<1>2. tok'[n] = row /\ \A t \in Tokens : t # n => tok'[t] = rest[t]
  OBVIOUS
<1>3. \A t \in Tokens : t # n => SameRow(t) /\ tok'[t].used = tok[t].used
  BY <1>2 DEF SameRow, OnlyDies
<1>4. Forest' /\ Minted' = Minted \cup {n}
  BY <1>2, <1>3, ForestGrows DEF TokensInv, Unused
<1>5. n \notin Minted /\ Minted \subseteq Tokens
  BY NextIsNew DEF TokensInv, Forest, Minted
<1>6. \A d \in Calls : HasClaim(d) => ~tok'[call[d].token].used
  <2> SUFFICES ASSUME NEW d \in Calls, HasClaim(d) PROVE ~tok'[call[d].token].used
    OBVIOUS
  <2>1. call[d].token \in Minted /\ ~tok[call[d].token].used
    BY DEF TokensInv, ShowsOwn, ClaimsUnused, HasClaim
  <2> QED
    BY <1>3, <1>5, <2>1
<1>7. \A t \in Minted : tok'[t].user = tok[t].user
  BY <1>3, <1>5 DEF SameRow
<1>8. tok' \in [Tokens -> TokenRow]
  OBVIOUS
<1>9. (\A e \in Calls : ShowsOwn(e)' /\ ClaimsUnused(e)') /\ \A e, d \in Calls : ClaimsAlone(e, d)'
  BY <1>4, <1>6, <1>7, EndsFromBefore, ClaimsKept
<1> QED
  BY <1>4, <1>8, <1>9 DEF TokensInv

LEMMA TokensBySignIn ==
    ASSUME SessionTypes, TokensInv, NEW c \in Calls, LoginCommit(c)
    PROVE  TokensInv' /\ tok' \in [Tokens -> TokenRow]
<1>1. PICK n \in Tokens : n = NextToken
  BY DEF LoginCommit
<1>2. call[c].user \in Operators /\ call[c].pw \in Nat /\ tok \in [Tokens -> TokenRow]
  BY DEF SessionTypes, HasUser, LoginCommit, CallRow
<1>3. PICK row \in TokenRow :
          /\ row = NewRow(call[c].user, n, 0, call[c].pw)
          /\ row.user = call[c].user /\ row.family = n /\ row.heirOf = 0 /\ Unused(row)
  <2>1. n \in Nat /\ 0 \in Nat
    BY DEF Tokens
  <2>2. /\ NewRow(call[c].user, n, 0, call[c].pw) \in TokenRow
        /\ NewRow(call[c].user, n, 0, call[c].pw).user = call[c].user
        /\ NewRow(call[c].user, n, 0, call[c].pw).family = n
        /\ NewRow(call[c].user, n, 0, call[c].pw).heirOf = 0
    BY <1>2, <2>1, NewRowSays
  <2> QED
    BY <2>2, NewRowUnused
<1>4. tok' = [tok EXCEPT ![n] = row]
  BY <1>1, <1>3 DEF LoginCommit, Issue
<1>5. Ends(c)
  BY NoCallEnds DEF LoginCommit
<1>6. OnlyDies(tok)
  BY DEF OnlyDies
<1> QED
  BY <1>1, <1>2, <1>3, <1>4, <1>5, <1>6, FamilyStarts

LEMMA TokensByRevoke ==
    ASSUME SessionTypes, TokensInv, NEW c \in Calls, RevokeCommit(c)
    PROVE  TokensInv' /\ tok' \in [Tokens -> TokenRow]
<1>1. call[c].user \in Operators /\ call[c].pw \in Nat /\ tok \in [Tokens -> TokenRow]
  BY DEF SessionTypes, HasUser, RevokeCommit, CallRow
<1>2. Ends(c)
  BY NoCallEnds DEF RevokeCommit
<1>3. /\ RevokedRows(c) \in [Tokens -> TokenRow]
      /\ \A t \in Tokens : /\ RevokedRows(c)[t].user = tok[t].user
                           /\ RevokedRows(c)[t].family = tok[t].family
                           /\ RevokedRows(c)[t].heirOf = tok[t].heirOf
                           /\ RevokedRows(c)[t].used = tok[t].used
  BY <1>1 DEF RevokedRows, TokenRow
<1>4. CASE tok' = RevokedRows(c)
  <2>1. \A t \in Tokens : SameRow(t)
    BY <1>3, <1>4 DEF SameRow
  <2>2. \A d \in Calls : HasClaim(d) => ~tok'[call[d].token].used
    BY <1>3, <1>4 DEF TokensInv, ShowsOwn, ClaimsUnused, HasClaim, Minted
  <2> QED
    BY <1>2, <1>3, <1>4, <2>1, <2>2, EndsFromBefore, TokensDie
<1>5. CASE NextToken \in Tokens /\ tok' = [RevokedRows(c) EXCEPT ![NextToken] =
                                            NewRow(call[c].user, NextToken, 0, call[c].pw)]
  <2>1. PICK n \in Tokens : n = NextToken
    BY <1>5
  <2>2. PICK rest \in [Tokens -> TokenRow] : rest = RevokedRows(c) /\ OnlyDies(rest)
    BY <1>3 DEF OnlyDies
  <2>3. PICK row \in TokenRow :
            /\ row = NewRow(call[c].user, n, 0, call[c].pw)
            /\ row.user = call[c].user /\ row.family = n /\ row.heirOf = 0 /\ Unused(row)
    <3>1. n \in Nat /\ 0 \in Nat
      BY DEF Tokens
    <3>2. /\ NewRow(call[c].user, n, 0, call[c].pw) \in TokenRow
          /\ NewRow(call[c].user, n, 0, call[c].pw).user = call[c].user
          /\ NewRow(call[c].user, n, 0, call[c].pw).family = n
          /\ NewRow(call[c].user, n, 0, call[c].pw).heirOf = 0
      BY <1>1, <3>1, NewRowSays
    <3> QED
      BY <3>2, NewRowUnused
  <2>4. tok' = [rest EXCEPT ![n] = row]
    BY <1>5, <2>1, <2>2, <2>3
  <2> QED
    BY <1>1, <1>2, <2>1, <2>2, <2>3, <2>4, FamilyStarts
<1> QED
  BY <1>4, <1>5 DEF RevokeCommit

\* The claim commits: the token shown is used up, and its heir is minted in its family.
LEMMA TokensByRefresh ==
    ASSUME SessionTypes, TokensInv, NEW c \in Calls, RefreshCommit(c)
    PROVE  TokensInv' /\ tok' \in [Tokens -> TokenRow]
<1>1. PICK n \in Tokens : n = NextToken
  BY DEF RefreshCommit
<1>2. PICK t \in Minted : t = call[c].token
  BY DEF RefreshCommit, TokensInv, ShowsOwn
<1>3. tok \in [Tokens -> TokenRow] /\ Minted \subseteq Tokens /\ n \notin Minted
  BY <1>1, NextIsNew DEF SessionTypes, Minted, TokensInv, Forest
<1>4. t # n /\ t \in Tokens /\ ~tok[t].used /\ HasClaim(c)
  BY <1>2, <1>3 DEF RefreshCommit, TokensInv, ClaimsUnused, HasClaim
<1>5. call[c].user \in Operators /\ tok[t].family \in Nat /\ tok[t].pw \in Nat /\ n \in Nat /\ t \in Nat
  BY <1>3, <1>4 DEF SessionTypes, HasUser, RefreshCommit, TokenRow, Tokens
<1>6. PICK row \in TokenRow :
          /\ row = NewRow(call[c].user, tok[t].family, t, tok[t].pw)
          /\ row.user = call[c].user /\ row.family = tok[t].family /\ row.heirOf = t /\ Unused(row)
  <2>1. PICK u \in Operators, f \in Nat, h \in Nat, pw \in Nat :
            u = call[c].user /\ f = tok[t].family /\ h = t /\ pw = tok[t].pw
    BY <1>5
  <2>2. /\ NewRow(u, f, h, pw) \in TokenRow
        /\ NewRow(u, f, h, pw).user = u /\ NewRow(u, f, h, pw).family = f
        /\ NewRow(u, f, h, pw).heirOf = h
    BY NewRowSays
  <2>3. Unused(NewRow(u, f, h, pw))
    BY NewRowUnused
  <2> QED
    BY <2>1, <2>2, <2>3
<1>7. tok' = [[tok EXCEPT ![n] = row] EXCEPT ![t].used = TRUE]
  BY <1>1, <1>2, <1>6 DEF RefreshCommit, Issue
<1>8. /\ tok'[n] = row /\ tok'[t] = [tok[t] EXCEPT !.used = TRUE]
      /\ \A s \in Tokens : s # n /\ s # t => tok'[s] = tok[s]
  BY <1>3, <1>4, <1>7
<1>9. [tok[t] EXCEPT !.used = TRUE] \in TokenRow
  BY <1>3, <1>4 DEF TokenRow
<1>10. tok' \in [Tokens -> TokenRow]
  BY <1>3, <1>4, <1>7, <1>9
<1>11. SameRow(t) /\ tok'[t].used
  BY <1>3, <1>4, <1>8 DEF SameRow, TokenRow
<1>12. \A s \in Tokens : s # n => SameRow(s)
  BY <1>8, <1>11 DEF SameRow
<1>13. ~tok'[n].used /\ tok'[n].user \in Operators
  BY <1>5, <1>6, <1>8 DEF Unused
<1>14. Forest' /\ Minted' = Minted \cup {n}
  <2>1. tok'[n].heirOf = t /\ tok'[n].family = tok[t].family
    BY <1>6, <1>8
  <2> QED
    BY <1>1, <1>2, <1>4, <1>11, <1>12, <1>13, <2>1, ForestGrows DEF TokensInv
<1>15. Ends(c)
  BY NoCallEnds DEF RefreshCommit
<1>16. \A d \in Calls : HasClaim(d) /\ call'[d] = call[d] => ~tok'[call[d].token].used
  <2> SUFFICES ASSUME NEW d \in Calls, HasClaim(d), call'[d] = call[d] PROVE ~tok'[call[d].token].used
    OBVIOUS
  <2>1. d # c
    BY <1>15, EndsFromBefore
  <2>2. call[d].token # t
    BY <1>2, <1>4, <2>1 DEF TokensInv, ClaimsAlone
  <2>3. call[d].token \in Minted /\ ~tok[call[d].token].used
    BY DEF TokensInv, ShowsOwn, ClaimsUnused, HasClaim
  <2> QED
    BY <1>3, <1>8, <2>2, <2>3
<1>17. \A s \in Minted : tok'[s].user = tok[s].user
  BY <1>3, <1>12 DEF SameRow
<1>18. (\A e \in Calls : ShowsOwn(e)' /\ ClaimsUnused(e)') /\ \A e, d \in Calls : ClaimsAlone(e, d)'
  BY <1>14, <1>15, <1>16, <1>17, EndsFromBefore, ClaimsKept
<1> QED
  BY <1>10, <1>14, <1>18 DEF TokensInv

LEMMA TokensByAge ==
    ASSUME SessionTypes, TokensInv, (\E c \in Calls : RefreshTooOld(c)) \/ \E t \in Tokens : Lapse(t)
    PROVE  TokensInv' /\ tok' \in [Tokens -> TokenRow]
<1>1. tok \in [Tokens -> TokenRow]
  BY DEF SessionTypes
<1>2. ASSUME NEW c \in Calls, RefreshTooOld(c)
      PROVE  TokensInv' /\ tok' \in [Tokens -> TokenRow]
  <2>1. PICK t \in Minted : t = call[c].token
    BY <1>2 DEF RefreshTooOld, TokensInv, ShowsOwn
  <2>2. tok' = [s \in Tokens |->
                   IF s \in Minted /\ tok[s].family = tok[t].family
                   THEN [tok[s] EXCEPT !.used = tok[s].used \/ s = t, !.dead = TRUE] ELSE tok[s]]
    BY <1>2, <2>1 DEF RefreshTooOld
  <2>3. \A s \in Tokens : [tok[s] EXCEPT !.used = tok[s].used \/ s = t, !.dead = TRUE] \in TokenRow
    BY <1>1 DEF TokenRow
  <2>4. tok' \in [Tokens -> TokenRow]
    BY <1>1, <2>2, <2>3
  <2>5. \A s \in Tokens : SameRow(s) /\ (s # t => tok'[s].used = tok[s].used)
    BY <1>1, <2>2 DEF SameRow, TokenRow
  <2>6. Ends(c)
    BY <1>2, NoCallEnds DEF RefreshTooOld
  <2>7. \A d \in Calls : HasClaim(d) /\ call'[d] = call[d] => ~tok'[call[d].token].used
    <3> SUFFICES ASSUME NEW d \in Calls, HasClaim(d), call'[d] = call[d]
                 PROVE  ~tok'[call[d].token].used
      OBVIOUS
    <3>1. d # c /\ HasClaim(c)
      BY <1>2, <2>6, EndsFromBefore DEF RefreshTooOld, HasClaim
    <3>2. call[d].token # t
      BY <2>1, <3>1 DEF TokensInv, ClaimsAlone
    <3>3. call[d].token \in Minted /\ ~tok[call[d].token].used
      BY DEF TokensInv, ShowsOwn, ClaimsUnused, HasClaim
    <3> QED
      BY <2>5, <3>2, <3>3 DEF Minted
  <2> QED
    BY <2>4, <2>5, <2>6, <2>7, EndsFromBefore, TokensDie
<1>3. ASSUME NEW t \in Tokens, Lapse(t)
      PROVE  TokensInv' /\ tok' \in [Tokens -> TokenRow]
  <2>1. tok' = [tok EXCEPT ![t] = [tok[t] EXCEPT !.dead = TRUE]] /\ UNCHANGED call
    BY <1>3 DEF Lapse
  <2>2. [tok[t] EXCEPT !.dead = TRUE] \in TokenRow
    BY <1>1 DEF TokenRow
  <2>3. tok' \in [Tokens -> TokenRow]
    BY <1>1, <2>1, <2>2
  <2>4. \A s \in Tokens : SameRow(s) /\ tok'[s].used = tok[s].used
    BY <1>1, <2>1 DEF SameRow, TokenRow
  <2>5. ClaimsFromBefore
    BY <2>1 DEF ClaimsFromBefore
  <2>6. \A d \in Calls : HasClaim(d) => ~tok'[call[d].token].used
    BY <2>4 DEF TokensInv, ShowsOwn, ClaimsUnused, HasClaim, Minted
  <2> QED
    BY <2>3, <2>4, <2>5, <2>6, TokensDie
<1> QED
  BY <1>2, <1>3

LEMMA TokensStep ==
    ASSUME SessionTypes, TokensInv, SessionsNext
    PROVE  TokensInv' /\ tok' \in [Tokens -> TokenRow]
<1>1. tok \in [Tokens -> TokenRow]
  BY DEF SessionTypes
<1>2. ASSUME NEW u \in Operators, WindowPasses(u) \/ ReactivateUser(u)
      PROVE  TokensInv' /\ tok' \in [Tokens -> TokenRow]
  <2>1. UNCHANGED tok /\ ClaimsFromBefore
    BY <1>2 DEF WindowPasses, ReactivateUser, ClaimsFromBefore
  <2> QED
    BY <1>1, <2>1, TokensUntouched
<1>3. ASSUME NEW c \in Calls,
             \/ \E u \in Operators, l \in Counters : LoginBegin(c, u, l) \/ CloseShiftTake(c, u, l)
             \/ LoginVerified(c) \/ LoginRefused(c) \/ StartShift(c) \/ CloseShiftCommit(c)
             \/ \E t \in Tokens : Logout(c, t)
             \/ \E u \in Operators : ChangePassword(c, u) \/ ResetPassword(c, u)
                                       \/ DeactivateUser(c, u) \/ MoveUser(c, u)
             \/ Abandon(c)
      PROVE  TokensInv' /\ tok' \in [Tokens -> TokenRow]
  <2>1. UNCHANGED tok
    BY <1>3 DEF LoginBegin, CloseShiftTake, LoginVerified, LoginRefused, StartShift,
                CloseShiftCommit, Logout, ChangePassword, ResetPassword, DeactivateUser, MoveUser,
                Abandon
  <2> QED
    BY <1>1, <1>3, <2>1, TokensAside
<1>4. ASSUME NEW c \in Calls, (\E t \in Tokens : RefreshRead(c, t)) \/ MarkUsed(c)
      PROVE  TokensInv' /\ tok' \in [Tokens -> TokenRow]
  <2>1. UNCHANGED tok
    BY <1>4 DEF RefreshRead, MarkUsed
  <2> QED
    BY <1>1, <1>4, <2>1, TokensShown
<1> QED
  BY <1>2, <1>3, <1>4, TokensBySignIn, TokensByRevoke, TokensByRefresh, TokensByAge
     DEF SessionsNext, SignInStep, RotationStep, EndingStep

-----------------------------------------------------------------------------
(* Sessions: shifts.  What a sign-in or a Close Shift read under the       *)
(* person's lock is still so when it commits.                              *)

ShiftPlaces == {"verifying", "verified", "shift read", "closing"}
AtShift(c) == call[c].at \in ShiftPlaces
HoldsShiftLock(c) == call[c].at \in {"shift read", "closing"}
IsOpen(u, l) == shift[u][l] = 1
NoneOpen(u) == \A l \in Counters : ~IsOpen(u, l)

BeforeShift(c) ==
    call[c].at \in {"verifying", "verified"} => call[c].loc \in Counters /\ call[c].held = "none"
KnowsShift(c) ==
    call[c].at = "shift read" =>
        /\ call[c].loc \in Counters
        /\ \/ call[c].held = "none" /\ NoneOpen(call[c].user)
           \/ call[c].held \in Counters /\ IsOpen(call[c].user, call[c].held)
KnowsClosing(c) ==
    call[c].at = "closing" => call[c].loc \in Counters /\ IsOpen(call[c].user, call[c].loc)
LocksAlone(c, d) ==
    HoldsShiftLock(c) /\ HoldsShiftLock(d) /\ call[c].user = call[d].user => c = d

OpenAlone(u) == \A l, m \in Counters : IsOpen(u, l) /\ IsOpen(u, m) => l = m
ShiftTypes == shift \in [Operators -> [Counters -> {0, 1}]]

ShiftsInv ==
    /\ ShiftTypes
    /\ \A u \in Operators : OpenAlone(u)
    /\ \A c \in Calls : BeforeShift(c) /\ KnowsShift(c) /\ KnowsClosing(c)
    /\ \A c, d \in Calls : LocksAlone(c, d)

LEMMA OpenIsOpen ==
    ASSUME ShiftTypes, NEW u \in Operators
    PROVE  \A l : l \in OpenShifts(u) <=> l \in Counters /\ IsOpen(u, l)
<1>1. \A l \in Counters : shift[u][l] \in {0, 1}
  BY DEF ShiftTypes
<1>2. \A l \in Counters : shift[u][l] > 0 <=> shift[u][l] = 1
  BY <1>1
<1> QED
  BY <1>2 DEF OpenShifts, IsOpen

\* A step of one request that leaves the shifts alone.
LEMMA ShiftsRead ==
    ASSUME ShiftsInv, NEW c \in Calls, UNCHANGED shift, \A d \in Calls : d # c => call'[d] = call[d],
           BeforeShift(c)', KnowsShift(c)', KnowsClosing(c)',
           HoldsShiftLock(c)' =>
               \A d \in Calls : d # c => ~(HoldsShiftLock(d) /\ call[d].user = call'[c].user)
    PROVE  ShiftsInv'
<1>1. ShiftTypes'
  BY DEF ShiftsInv, ShiftTypes
<1>2. \A u \in Operators : OpenAlone(u)'
  BY DEF ShiftsInv, OpenAlone, IsOpen
<1>3. ASSUME NEW d \in Calls PROVE BeforeShift(d)' /\ KnowsShift(d)' /\ KnowsClosing(d)'
  <2>1. CASE d = c
    BY <2>1
  <2>2. CASE d # c
    BY <2>2 DEF ShiftsInv, BeforeShift, KnowsShift, KnowsClosing, NoneOpen, IsOpen
  <2> QED
    BY <2>1, <2>2
<1>4. ASSUME NEW d \in Calls, NEW e \in Calls PROVE LocksAlone(d, e)'
  <2>1. CASE d # c /\ e # c
    BY <2>1 DEF ShiftsInv, LocksAlone, HoldsShiftLock
  <2>2. CASE d = c \/ e = c
    BY <2>2 DEF LocksAlone, HoldsShiftLock
  <2> QED
    BY <2>1, <2>2
<1> QED
  BY <1>1, <1>2, <1>3, <1>4 DEF ShiftsInv

LEMMA ShiftsAside ==
    ASSUME ShiftsInv, NEW c \in Calls, UNCHANGED shift, \A d \in Calls : d # c => call'[d] = call[d],
           ~AtShift(c)'
    PROVE  ShiftsInv'
<1>1. BeforeShift(c)' /\ KnowsShift(c)' /\ KnowsClosing(c)' /\ ~HoldsShiftLock(c)'
  BY DEF AtShift, ShiftPlaces, BeforeShift, KnowsShift, KnowsClosing, HoldsShiftLock
<1> QED
  BY <1>1, ShiftsRead

\* Requests that have nothing to do with a shift, or are done with it.
LEMMA ShiftsUntouched ==
    ASSUME SessionTypes, ShiftsInv, NEW c \in Calls,
           \/ LoginRefused(c) \/ Abandon(c) \/ RefreshCommit(c) \/ RefreshTooOld(c) \/ RevokeCommit(c)
           \/ \E t \in Tokens : RefreshRead(c, t) \/ Logout(c, t)
           \/ MarkUsed(c)
           \/ \E u \in Operators : ChangePassword(c, u) \/ ResetPassword(c, u)
                                     \/ DeactivateUser(c, u) \/ MoveUser(c, u)
    PROVE  ShiftsInv'
<1>0. call \in [Calls -> CallRow]
  BY DEF SessionTypes
<1>01. ASSUME NEW row, Becomes(c, row), row.at \notin ShiftPlaces, UNCHANGED shift PROVE ShiftsInv'
  <2>1. ASSUME NEW d \in Calls, d # c PROVE call'[d] = call[d]
    BY <1>0, <1>01, <2>1 DEF Becomes
  <2>2. call'[c] = row
    BY <1>0, <1>01 DEF Becomes
  <2> QED
    BY <1>01, <2>1, <2>2, ShiftsAside DEF AtShift
<1>1. CASE LoginRefused(c) \/ Abandon(c) \/ RefreshCommit(c) \/ RefreshTooOld(c) \/ RevokeCommit(c)
  <2>1. Becomes(c, NoCall) /\ UNCHANGED shift
    BY <1>1 DEF LoginRefused, Abandon, RefreshCommit, RefreshTooOld, RevokeCommit, Becomes
  <2>2. NoCall.at \notin ShiftPlaces
    BY DEF NoCall, ShiftPlaces
  <2> QED
    BY <1>01, <2>1, <2>2
<1>2. ASSUME NEW t \in Tokens, RefreshRead(c, t) PROVE ShiftsInv'
  <2>1. [NoCall EXCEPT !.at = "read", !.token = t, !.user = tok[t].user].at \notin ShiftPlaces
    BY DEF NoCall, ShiftPlaces
  <2> QED
    BY <1>01, <1>2, <2>1 DEF RefreshRead, Becomes
<1>3. ASSUME NEW t \in Tokens, Logout(c, t) PROVE ShiftsInv'
  <2>1. \A rows : [NoCall EXCEPT !.at = "revoking", !.user = tok[t].user, !.rows = rows].at
                  \notin ShiftPlaces
    BY DEF NoCall, ShiftPlaces
  <2> QED
    BY <1>01, <1>3, <2>1 DEF Logout, Becomes
<1>4. ASSUME MarkUsed(c) PROVE ShiftsInv'
  <2>1. UNCHANGED shift
    BY <1>4 DEF MarkUsed
  <2>2. /\ \A d \in Calls : d # c => call'[d] = call[d]
        /\ call'[c].at \in {"claimed", "revoking"}
    BY <1>0, <1>4 DEF MarkUsed, CallRow
  <2> QED
    BY <2>1, <2>2, ShiftsAside DEF AtShift, ShiftPlaces
<1>5. ASSUME NEW u \in Operators,
             ChangePassword(c, u) \/ ResetPassword(c, u) \/ DeactivateUser(c, u) \/ MoveUser(c, u)
      PROVE  ShiftsInv'
  <2>1. \A pw, rows : \A p \in {"changing", "resetting"} :
            [NoCall EXCEPT !.at = p, !.user = u, !.pw = pw, !.rows = rows].at \notin ShiftPlaces
    BY DEF NoCall, ShiftPlaces
  <2>2. \A rows : \A p \in {"deactivating", "moving"} :
            [NoCall EXCEPT !.at = p, !.user = u, !.rows = rows].at \notin ShiftPlaces
    BY DEF NoCall, ShiftPlaces
  <2>3. CASE ChangePassword(c, u)
    BY <1>01, <2>1, <2>3 DEF ChangePassword, Becomes
  <2>4. CASE ResetPassword(c, u)
    BY <1>01, <2>1, <2>4 DEF ResetPassword, Becomes
  <2>5. CASE DeactivateUser(c, u)
    BY <1>01, <2>2, <2>5 DEF DeactivateUser, Becomes
  <2>6. CASE MoveUser(c, u)
    BY <1>01, <2>2, <2>6 DEF MoveUser, Becomes
  <2> QED
    BY <1>5, <2>3, <2>4, <2>5, <2>6
<1> QED
  BY <1>1, <1>2, <1>3, <1>4, <1>5

\* A sign-in up to what it reads, and Close Shift up to its lock.
LEMMA ShiftsApproached ==
    ASSUME SessionTypes, ShiftsInv, NEW c \in Calls,
           \/ \E u \in Operators, l \in Counters : LoginBegin(c, u, l) \/ CloseShiftTake(c, u, l)
           \/ LoginVerified(c) \/ StartShift(c)
    PROVE  ShiftsInv'
<1>0. call \in [Calls -> CallRow]
  BY DEF SessionTypes
<1>1. UNCHANGED shift
  BY DEF LoginBegin, CloseShiftTake, LoginVerified, StartShift
<1>2. ASSUME NEW u \in Operators, NEW l \in Counters, LoginBegin(c, u, l) PROVE ShiftsInv'
  <2>1. /\ call'[c].at = "verifying" /\ call'[c].loc = l /\ call'[c].held = "none"
        /\ \A d \in Calls : d # c => call'[d] = call[d]
    BY <1>0, <1>2 DEF LoginBegin, NoCall
  <2>2. BeforeShift(c)' /\ KnowsShift(c)' /\ KnowsClosing(c)' /\ ~HoldsShiftLock(c)'
    BY <2>1 DEF BeforeShift, KnowsShift, KnowsClosing, HoldsShiftLock
  <2> QED
    BY <1>1, <2>1, <2>2, ShiftsRead
<1>3. ASSUME NEW u \in Operators, NEW l \in Counters, CloseShiftTake(c, u, l) PROVE ShiftsInv'
  <2>1. /\ call'[c].at = "closing" /\ call'[c].loc = l /\ call'[c].user = u
        /\ \A d \in Calls : d # c => call'[d] = call[d]
    BY <1>0, <1>3 DEF CloseShiftTake, NoCall
  <2>2. IsOpen(u, l)'
    BY <1>1, <1>3, OpenIsOpen DEF CloseShiftTake, ShiftsInv, IsOpen
  <2>3. BeforeShift(c)' /\ KnowsShift(c)' /\ KnowsClosing(c)'
    BY <2>1, <2>2 DEF BeforeShift, KnowsShift, KnowsClosing, IsOpen
  <2>4. \A d \in Calls : d # c => ~(HoldsShiftLock(d) /\ call[d].user = call'[c].user)
    BY <1>3, <2>1 DEF CloseShiftTake, LockShiftsOf, HoldsShiftLock
  <2> QED
    BY <1>1, <2>1, <2>3, <2>4, ShiftsRead
<1>4. ASSUME LoginVerified(c) PROVE ShiftsInv'
  <2>1. /\ call'[c].at = "verified" /\ call'[c].loc = call[c].loc /\ call'[c].held = call[c].held
        /\ \A d \in Calls : d # c => call'[d] = call[d]
    BY <1>0, <1>4 DEF LoginVerified, CallRow
  <2>2. call[c].loc \in Counters /\ call[c].held = "none"
    BY <1>4 DEF LoginVerified, ShiftsInv, BeforeShift
  <2>3. BeforeShift(c)' /\ KnowsShift(c)' /\ KnowsClosing(c)' /\ ~HoldsShiftLock(c)'
    BY <2>1, <2>2 DEF BeforeShift, KnowsShift, KnowsClosing, HoldsShiftLock
  <2> QED
    BY <1>1, <2>1, <2>3, ShiftsRead
<1>5. ASSUME StartShift(c) PROVE ShiftsInv'
  <2>1. call[c].loc \in Counters /\ call[c].held = "none" /\ call[c].user \in Operators
    BY <1>5 DEF StartShift, ShiftsInv, BeforeShift, SessionTypes, HasUser
  <2>2. PICK row \in {[call[c] EXCEPT !.at = "shift read"]}
                \cup {[call[c] EXCEPT !.at = "shift read", !.held = l] : l \in Counters} :
            Becomes(c, row)
    <3>1. \/ call' = [call EXCEPT ![c].at = "shift read"]
          \/ \E l \in Counters : call' = [call EXCEPT ![c].at = "shift read", ![c].held = l]
      BY <1>5 DEF StartShift, OpenShifts
    <3>2. \/ Becomes(c, [call[c] EXCEPT !.at = "shift read"])
          \/ \E l \in Counters : Becomes(c, [call[c] EXCEPT !.at = "shift read", !.held = l])
      BY <1>0, <3>1 DEF Becomes
    <3> QED
      BY <3>2
  <2>3. call'[c] = row /\ \A d \in Calls : d # c => call'[d] = call[d]
    BY <1>0, <2>2 DEF Becomes
  <2>4. call'[c].at = "shift read" /\ call'[c].loc = call[c].loc /\ call'[c].user = call[c].user
    BY <1>0, <2>2, <2>3 DEF CallRow
  <2>5. \/ call'[c].held = "none" /\ NoneOpen(call[c].user)
        \/ call'[c].held \in Counters /\ IsOpen(call[c].user, call'[c].held)
    <3>1. CASE OpenShifts(call[c].user) = {} /\ call' = [call EXCEPT ![c].at = "shift read"]
      <4>1. call'[c].held = "none"
        BY <1>0, <2>1, <3>1 DEF CallRow
      <4>2. NoneOpen(call[c].user)
        BY <2>1, <3>1, OpenIsOpen DEF ShiftsInv, NoneOpen
      <4> QED
        BY <4>1, <4>2
    <3>2. ASSUME NEW l \in OpenShifts(call[c].user),
                 call' = [call EXCEPT ![c].at = "shift read", ![c].held = l]
          PROVE  call'[c].held \in Counters /\ IsOpen(call[c].user, call'[c].held)
      <4>1. call'[c].held = l
        BY <1>0, <3>2 DEF CallRow
      <4>2. l \in Counters /\ IsOpen(call[c].user, l)
        BY <2>1, OpenIsOpen DEF ShiftsInv
      <4> QED
        BY <4>1, <4>2
    <3> QED
      BY <1>5, <3>1, <3>2 DEF StartShift
  <2>6. BeforeShift(c)' /\ KnowsShift(c)' /\ KnowsClosing(c)'
    BY <1>1, <2>1, <2>4, <2>5 DEF BeforeShift, KnowsShift, KnowsClosing, NoneOpen, IsOpen
  <2>7. \A d \in Calls : d # c => ~(HoldsShiftLock(d) /\ call[d].user = call'[c].user)
    BY <1>5, <2>4 DEF StartShift, LockShiftsOf, HoldsShiftLock
  <2> QED
    BY <1>1, <2>3, <2>6, <2>7, ShiftsRead
<1> QED
  BY <1>2, <1>3, <1>4, <1>5

\* The commit of one who holds the lock: other people's shifts are as they were, and nobody else
\* has read this person's.
LEMMA ShiftsCommit ==
    ASSUME ShiftsInv, NEW c \in Calls, HoldsShiftLock(c), ShiftTypes', Ends(c),
           \A v \in Operators, l \in Counters : v # call[c].user => (IsOpen(v, l)' <=> IsOpen(v, l)),
           \A v \in Operators : v = call[c].user => OpenAlone(v)',
           \A d \in Calls : HasUser(d)
    PROVE  ShiftsInv'
<1>1. ASSUME NEW v \in Operators PROVE OpenAlone(v)'
  <2>1. CASE v = call[c].user
    BY <2>1
  <2>2. CASE v # call[c].user
    BY <2>2 DEF ShiftsInv, OpenAlone
  <2> QED
    BY <2>1, <2>2
<1>2. ASSUME NEW d \in Calls PROVE BeforeShift(d)' /\ KnowsShift(d)' /\ KnowsClosing(d)'
  <2>1. CASE d = c
    BY <2>1 DEF Ends, BeforeShift, KnowsShift, KnowsClosing
  <2>2. CASE d # c
    <3>1. call'[d] = call[d]
      BY <2>2 DEF Ends
    <3>2. BeforeShift(d)'
      BY <3>1 DEF ShiftsInv, BeforeShift
    <3>3. HoldsShiftLock(d) => call[d].user # call[c].user /\ call[d].user \in Operators
      BY <2>2 DEF ShiftsInv, LocksAlone, HasUser, HoldsShiftLock
    <3>4. HoldsShiftLock(d) =>
              \A l \in Counters : IsOpen(call[d].user, l)' <=> IsOpen(call[d].user, l)
      <4> SUFFICES ASSUME HoldsShiftLock(d), NEW l \in Counters
                   PROVE  IsOpen(call[d].user, l)' <=> IsOpen(call[d].user, l)
        OBVIOUS
      <4>1. PICK v \in Operators : v = call[d].user /\ v # call[c].user
        BY <3>3
      <4>2. IsOpen(v, l)' <=> IsOpen(v, l)
        BY <4>1
      <4> QED
        BY <3>1, <4>1, <4>2 DEF IsOpen
    <3>5. KnowsShift(d)'
      BY <3>1, <3>4 DEF ShiftsInv, KnowsShift, HoldsShiftLock, NoneOpen, IsOpen
    <3>6. KnowsClosing(d)'
      BY <3>1, <3>4 DEF ShiftsInv, KnowsClosing, HoldsShiftLock, IsOpen
    <3> QED
      BY <3>2, <3>5, <3>6
  <2> QED
    BY <2>1, <2>2
<1>3. ASSUME NEW d \in Calls, NEW e \in Calls PROVE LocksAlone(d, e)'
  BY DEF ShiftsInv, LocksAlone, HoldsShiftLock, Ends
<1> QED
  BY <1>1, <1>2, <1>3 DEF ShiftsInv

LEMMA ShiftsBySignIn ==
    ASSUME SessionTypes, ShiftsInv, NEW c \in Calls, LoginCommit(c)
    PROVE  ShiftsInv'
<1>1. Ends(c) /\ HoldsShiftLock(c)
  BY NoCallEnds DEF LoginCommit, HoldsShiftLock
<1>2. PICK u \in Operators : u = call[c].user
  BY DEF SessionTypes, HasUser, LoginCommit
<1>3. PICK l \in Counters : l = call[c].loc
  BY DEF LoginCommit, ShiftsInv, KnowsShift
<1>4. PICK h : h = call[c].held
  OBVIOUS
<1>5. \/ h \notin Counters /\ NoneOpen(u)
      \/ h \in Counters /\ IsOpen(u, h)
  BY <1>2, <1>4, SessionAssumption DEF LoginCommit, ShiftsInv, KnowsShift
<1>6. shift \in [Operators -> [Counters -> {0, 1}]] /\ OpenAlone(u)
  BY <1>2 DEF ShiftsInv, ShiftTypes
<1>7. CASE h = l
  <2>1. UNCHANGED shift
    BY <1>3, <1>4, <1>7 DEF LoginCommit
  <2>2. ShiftTypes' /\ \A v \in Operators : OpenAlone(v)'
    BY <2>1 DEF ShiftsInv, ShiftTypes, OpenAlone, IsOpen
  <2>3. \A v \in Operators, m \in Counters : IsOpen(v, m)' <=> IsOpen(v, m)
    BY <2>1 DEF IsOpen
  <2> QED
    BY <1>1, <2>2, <2>3, ShiftsCommit DEF SessionTypes
<1>8. CASE h # l
  <2>1. shift' = [shift EXCEPT ![u] = [x \in Counters |->
                     IF x = l THEN shift[u][x] + 1 ELSE IF x = h THEN shift[u][x] - 1 ELSE shift[u][x]]]
    BY <1>2, <1>3, <1>4, <1>8 DEF LoginCommit
  <2>2. \A x \in Counters : x # h => shift[u][x] = 0
    BY <1>5, <1>6 DEF NoneOpen, OpenAlone, IsOpen
  <2>3. h \in Counters => shift[u][h] = 1
    BY <1>5 DEF IsOpen
  <2>4. shift'[u] = [x \in Counters |-> IF x = l THEN 1 ELSE 0]
    <3>1. shift'[u] = [x \in Counters |->
                     IF x = l THEN shift[u][x] + 1 ELSE IF x = h THEN shift[u][x] - 1 ELSE shift[u][x]]
      BY <1>6, <2>1
    <3>2. ASSUME NEW x \in Counters
          PROVE  (IF x = l THEN shift[u][x] + 1 ELSE IF x = h THEN shift[u][x] - 1 ELSE shift[u][x])
                 = IF x = l THEN 1 ELSE 0
      BY <1>8, <2>2, <2>3, <3>2
    <3> QED
      BY <3>1, <3>2
  <2>5. \A v \in Operators : v # u => shift'[v] = shift[v]
    BY <1>6, <2>1
  <2>6. ShiftTypes'
    <3>1. shift'[u] \in [Counters -> {0, 1}]
      BY <2>4
    <3>2. \A v \in Operators : shift'[v] \in [Counters -> {0, 1}]
      BY <1>6, <2>5, <3>1
    <3>3. shift' = [v \in Operators |-> shift'[v]]
      BY <1>6, <2>1
    <3> QED
      BY <3>2, <3>3 DEF ShiftTypes
  <2>7. OpenAlone(u)'
    BY <2>4 DEF OpenAlone, IsOpen
  <2>8. \A v \in Operators, m \in Counters : v # u => (IsOpen(v, m)' <=> IsOpen(v, m))
    BY <2>5 DEF IsOpen
  <2> QED
    BY <1>1, <1>2, <2>6, <2>7, <2>8, ShiftsCommit DEF SessionTypes
<1> QED
  BY <1>7, <1>8

LEMMA ShiftsByClose ==
    ASSUME SessionTypes, ShiftsInv, NEW c \in Calls, CloseShiftCommit(c)
    PROVE  ShiftsInv'
<1>1. Ends(c) /\ HoldsShiftLock(c)
  BY NoCallEnds DEF CloseShiftCommit, HoldsShiftLock
<1>2. PICK u \in Operators : u = call[c].user
  BY DEF SessionTypes, HasUser, CloseShiftCommit
<1>3. PICK l \in Counters : l = call[c].loc /\ shift[u][l] = 1
  BY <1>2 DEF CloseShiftCommit, ShiftsInv, KnowsClosing, IsOpen
<1>4. shift \in [Operators -> [Counters -> {0, 1}]] /\ OpenAlone(u)
  BY <1>2 DEF ShiftsInv, ShiftTypes
<1>5. shift' = [shift EXCEPT ![u] = [shift[u] EXCEPT ![l] = shift[u][l] - 1]]
  BY <1>2, <1>3, <1>4 DEF CloseShiftCommit
<1>6. shift[u][l] - 1 = 0
  BY <1>3
<1>7. shift' = [shift EXCEPT ![u] = [shift[u] EXCEPT ![l] = 0]]
  BY <1>5, <1>6
<1>8. ShiftTypes'
  BY <1>4, <1>7 DEF ShiftTypes
<1>9. OpenAlone(u)'
  BY <1>4, <1>7 DEF OpenAlone, IsOpen
<1>10. \A v \in Operators, m \in Counters : v # u => (IsOpen(v, m)' <=> IsOpen(v, m))
  BY <1>4, <1>7 DEF IsOpen
<1> QED
  BY <1>1, <1>2, <1>8, <1>9, <1>10, ShiftsCommit DEF SessionTypes

LEMMA ShiftsStep ==
    ASSUME SessionTypes, ShiftsInv, SessionsNext
    PROVE  ShiftsInv'
<1>1. ASSUME UNCHANGED <<shift, call>> PROVE ShiftsInv'
  BY <1>1 DEF ShiftsInv, ShiftTypes, OpenAlone, IsOpen, BeforeShift, KnowsShift, KnowsClosing,
              NoneOpen, LocksAlone, HoldsShiftLock
<1>2. ASSUME NEW u \in Operators, WindowPasses(u) \/ ReactivateUser(u) PROVE ShiftsInv'
  BY <1>1, <1>2 DEF WindowPasses, ReactivateUser
<1>3. ASSUME NEW t \in Tokens, Lapse(t) PROVE ShiftsInv'
  BY <1>1, <1>3 DEF Lapse
<1> QED
  BY <1>2, <1>3, ShiftsUntouched, ShiftsApproached, ShiftsBySignIn, ShiftsByClose
     DEF SessionsNext, SignInStep, RotationStep, EndingStep

-----------------------------------------------------------------------------
(* Sessions: the login budget.  A slot stands for each wrong password of   *)
(* the window and each one still being verified.                           *)

IsVerifying(c, u) == call[c].at = "verifying" /\ call[c].user = u
Verifying(u) == {c \in Calls : IsVerifying(c, u)}

SlotsCover(u) ==
    /\ wrong[u] + Cardinality(Verifying(u)) <= slots[u]
    /\ slots[u] <= LOGIN_BUDGET

BudgetInv == \A u \in Operators : SlotsCover(u)
WindowTypes == slots \in [Operators -> Nat] /\ wrong \in [Operators -> Nat]

LEMMA VerifyingCounts ==
    ASSUME NEW u
    PROVE  IsFiniteSet(Verifying(u)) /\ Cardinality(Verifying(u)) \in Nat
<1>1. IsFiniteSet(Calls) /\ Verifying(u) \in SUBSET Calls
  BY SessionAssumption DEF Verifying
<1> QED
  BY <1>1, FS_Subset, FS_CardinalityType

LEMMA BudgetUntouched ==
    ASSUME WindowTypes, BudgetInv, UNCHANGED <<slots, wrong>>,
           \A c \in Calls, u \in Operators : IsVerifying(c, u)' <=> IsVerifying(c, u)
    PROVE  BudgetInv' /\ WindowTypes'
<1>1. \A u \in Operators : Verifying(u)' = Verifying(u)
  BY DEF Verifying
<1>2. \A u \in Operators : SlotsCover(u)'
  BY <1>1 DEF BudgetInv, SlotsCover
<1> QED
  BY <1>2 DEF BudgetInv, WindowTypes

LEMMA BudgetAside ==
    ASSUME SessionTypes, BudgetInv, NEW c \in Calls,
           \/ \E u \in Operators, l \in Counters : CloseShiftTake(c, u, l)
           \/ StartShift(c) \/ LoginCommit(c) \/ CloseShiftCommit(c)
           \/ \E t \in Tokens : RefreshRead(c, t) \/ Logout(c, t)
           \/ MarkUsed(c) \/ RefreshCommit(c) \/ RefreshTooOld(c)
           \/ \E u \in Operators : ChangePassword(c, u) \/ ResetPassword(c, u)
                                     \/ DeactivateUser(c, u) \/ MoveUser(c, u)
           \/ RevokeCommit(c) \/ Abandon(c)
    PROVE  BudgetInv' /\ WindowTypes'
<1>0. call \in [Calls -> CallRow] /\ WindowTypes
  BY DEF SessionTypes, WindowTypes
<1>1. UNCHANGED <<slots, wrong>> /\ call[c].at # "verifying"
  BY DEF CloseShiftTake, StartShift, LoginCommit, CloseShiftCommit, RefreshRead, Logout, MarkUsed,
         RefreshCommit, RefreshTooOld, ChangePassword, ResetPassword, DeactivateUser, MoveUser,
         RevokeCommit, Abandon
<1>2. ASSUME call'[c].at # "verifying", \A d \in Calls : d # c => call'[d] = call[d]
      PROVE  BudgetInv' /\ WindowTypes'
  <2>1. \A d \in Calls, u \in Operators : IsVerifying(d, u)' <=> IsVerifying(d, u)
    BY <1>1, <1>2 DEF IsVerifying
  <2> QED
    BY <1>0, <1>1, <2>1, BudgetUntouched
<1>3. ASSUME NEW row, Becomes(c, row), row.at # "verifying" PROVE BudgetInv' /\ WindowTypes'
  <2>1. ASSUME NEW d \in Calls, d # c PROVE call'[d] = call[d]
    BY <1>0, <1>3, <2>1 DEF Becomes
  <2>2. call'[c] = row
    BY <1>0, <1>3 DEF Becomes
  <2> QED
    BY <1>2, <1>3, <2>1, <2>2
<1>4. CASE LoginCommit(c) \/ CloseShiftCommit(c) \/ Abandon(c) \/ RefreshCommit(c)
           \/ RefreshTooOld(c) \/ RevokeCommit(c)
  <2>1. Becomes(c, NoCall)
    BY <1>4 DEF LoginCommit, CloseShiftCommit, Abandon, RefreshCommit, RefreshTooOld, RevokeCommit,
                Becomes
  <2>2. NoCall.at # "verifying"
    BY DEF NoCall
  <2> QED
    BY <1>3, <2>1, <2>2
<1>5. ASSUME NEW u \in Operators, NEW l \in Counters, CloseShiftTake(c, u, l)
      PROVE  BudgetInv' /\ WindowTypes'
  <2>1. [NoCall EXCEPT !.at = "closing", !.user = u, !.loc = l].at # "verifying"
    BY DEF NoCall
  <2> QED
    BY <1>3, <1>5, <2>1 DEF CloseShiftTake, Becomes
<1>6. ASSUME NEW t \in Tokens, RefreshRead(c, t) PROVE BudgetInv' /\ WindowTypes'
  <2>1. [NoCall EXCEPT !.at = "read", !.token = t, !.user = tok[t].user].at # "verifying"
    BY DEF NoCall
  <2> QED
    BY <1>3, <1>6, <2>1 DEF RefreshRead, Becomes
<1>7. ASSUME NEW t \in Tokens, Logout(c, t) PROVE BudgetInv' /\ WindowTypes'
  <2>1. \A rows : [NoCall EXCEPT !.at = "revoking", !.user = tok[t].user, !.rows = rows].at
                  # "verifying"
    BY DEF NoCall
  <2> QED
    BY <1>3, <1>7, <2>1 DEF Logout, Becomes
<1>8. ASSUME MarkUsed(c) PROVE BudgetInv' /\ WindowTypes'
  <2>1. /\ \A d \in Calls : d # c => call'[d] = call[d]
        /\ call'[c].at \in {"claimed", "revoking"}
    BY <1>0, <1>8 DEF MarkUsed, CallRow
  <2> QED
    BY <1>2, <2>1
<1>9. ASSUME StartShift(c) PROVE BudgetInv' /\ WindowTypes'
  <2>1. \/ call' = [call EXCEPT ![c].at = "shift read"]
        \/ \E l \in Counters : call' = [call EXCEPT ![c].at = "shift read", ![c].held = l]
    BY <1>9 DEF StartShift, OpenShifts
  <2>2. \/ Becomes(c, [call[c] EXCEPT !.at = "shift read"])
        \/ \E l \in Counters : Becomes(c, [call[c] EXCEPT !.at = "shift read", !.held = l])
    BY <1>0, <2>1 DEF Becomes
  <2>3. [call[c] EXCEPT !.at = "shift read"].at # "verifying"
        /\ \A l : [call[c] EXCEPT !.at = "shift read", !.held = l].at # "verifying"
    BY <1>0 DEF CallRow
  <2> QED
    BY <1>3, <2>2, <2>3
<1>10. ASSUME NEW u \in Operators,
              ChangePassword(c, u) \/ ResetPassword(c, u) \/ DeactivateUser(c, u) \/ MoveUser(c, u)
       PROVE  BudgetInv' /\ WindowTypes'
  <2>1. \A pw, rows : \A p \in {"changing", "resetting"} :
            [NoCall EXCEPT !.at = p, !.user = u, !.pw = pw, !.rows = rows].at # "verifying"
    BY DEF NoCall
  <2>2. \A rows : \A p \in {"deactivating", "moving"} :
            [NoCall EXCEPT !.at = p, !.user = u, !.rows = rows].at # "verifying"
    BY DEF NoCall
  <2>3. CASE ChangePassword(c, u)
    BY <1>3, <2>1, <2>3 DEF ChangePassword, Becomes
  <2>4. CASE ResetPassword(c, u)
    BY <1>3, <2>1, <2>4 DEF ResetPassword, Becomes
  <2>5. CASE DeactivateUser(c, u)
    BY <1>3, <2>2, <2>5 DEF DeactivateUser, Becomes
  <2>6. CASE MoveUser(c, u)
    BY <1>3, <2>2, <2>6 DEF MoveUser, Becomes
  <2> QED
    BY <1>10, <2>3, <2>4, <2>5, <2>6
<1> QED
  BY <1>4, <1>5, <1>6, <1>7, <1>8, <1>9, <1>10

\* One person's window and the passwords in it; everyone else's is as it was.
OthersWindows(u) ==
    \A v \in Operators : v # u =>
        /\ slots'[v] = slots[v] /\ wrong'[v] = wrong[v]
        /\ \A c \in Calls : IsVerifying(c, v)' <=> IsVerifying(c, v)

LEMMA BudgetOfOne ==
    ASSUME BudgetInv, NEW u \in Operators, OthersWindows(u), SlotsCover(u)', WindowTypes'
    PROVE  BudgetInv' /\ WindowTypes'
<1>1. ASSUME NEW v \in Operators, v # u PROVE SlotsCover(v)'
  <2>1. Verifying(v)' = Verifying(v)
    BY <1>1 DEF OthersWindows, Verifying
  <2> QED
    BY <1>1, <2>1 DEF OthersWindows, BudgetInv, SlotsCover
<1> QED
  BY <1>1 DEF BudgetInv

LEMMA BudgetByBegin ==
    ASSUME SessionTypes, BudgetInv, NEW c \in Calls, NEW u \in Operators, NEW l \in Counters,
           LoginBegin(c, u, l)
    PROVE  BudgetInv' /\ WindowTypes'
<1>1. call \in [Calls -> CallRow] /\ slots \in [Operators -> Nat] /\ wrong \in [Operators -> Nat]
  BY DEF SessionTypes
<1>2. slots' = [slots EXCEPT ![u] = slots[u] + 1] /\ wrong' = wrong /\ slots[u] < LOGIN_BUDGET
  BY DEF LoginBegin, Begin
<1>3. /\ ~\E v : IsVerifying(c, v)
      /\ \A v : IsVerifying(c, v)' <=> v = u
      /\ \A d \in Calls : \A v : d # c => (IsVerifying(d, v)' <=> IsVerifying(d, v))
  BY <1>1 DEF LoginBegin, NoCall, IsVerifying
<1>4. WindowTypes' /\ OthersWindows(u)
  <2>1. slots[u] + 1 \in Nat
    BY <1>1
  <2> QED
    BY <1>1, <1>2, <1>3, <2>1 DEF WindowTypes, OthersWindows
<1>5. Verifying(u)' = Verifying(u) \cup {c} /\ c \notin Verifying(u)
  BY <1>3 DEF Verifying
<1>6. Cardinality(Verifying(u)') = Cardinality(Verifying(u)) + 1 /\ Cardinality(Verifying(u)) \in Nat
  BY <1>5, VerifyingCounts, FS_AddElement
<1>7. SlotsCover(u)'
  <2>1. slots'[u] = slots[u] + 1 /\ wrong'[u] = wrong[u] /\ slots[u] \in Nat /\ wrong[u] \in Nat
    BY <1>1, <1>2
  <2>2. wrong[u] + Cardinality(Verifying(u)) <= slots[u]
    BY DEF BudgetInv, SlotsCover
  <2>3. LOGIN_BUDGET \in Nat
    BY SessionAssumption
  <2> QED
    BY <1>2, <1>6, <2>1, <2>2, <2>3 DEF SlotsCover
<1> QED
  BY <1>4, <1>7, BudgetOfOne

\* A password that was being verified is no longer.
LEMMA OneFewer ==
    ASSUME SessionTypes, NEW c \in Calls, NEW u \in Operators, IsVerifying(c, u),
           ~\E v : IsVerifying(c, v)',
           \A d \in Calls : \A v : d # c => (IsVerifying(d, v)' <=> IsVerifying(d, v))
    PROVE  /\ Cardinality(Verifying(u)) \in Nat \ {0}
           /\ Cardinality(Verifying(u)') = Cardinality(Verifying(u)) - 1
           /\ \A v \in Operators : v # u => \A d \in Calls : IsVerifying(d, v)' <=> IsVerifying(d, v)
<1>1. Verifying(u)' = Verifying(u) \ {c} /\ c \in Verifying(u)
  BY DEF Verifying
<1>2. Cardinality(Verifying(u)') = Cardinality(Verifying(u)) - 1
  BY <1>1, VerifyingCounts, FS_RemoveElement
<1>3. IsFiniteSet(Verifying(u)) /\ Cardinality(Verifying(u)) # 0
  BY <1>1, VerifyingCounts, FS_EmptySet
<1>4. \A v \in Operators : v # u => ~IsVerifying(c, v)
  BY DEF IsVerifying
<1> QED
  BY <1>2, <1>3, <1>4, VerifyingCounts

LEMMA BudgetByVerdict ==
    ASSUME SessionTypes, BudgetInv, NEW c \in Calls, LoginVerified(c) \/ LoginRefused(c)
    PROVE  BudgetInv' /\ WindowTypes'
<1>1. call \in [Calls -> CallRow] /\ slots \in [Operators -> Nat] /\ wrong \in [Operators -> Nat]
  BY DEF SessionTypes
<1>2. PICK u \in Operators : u = call[c].user /\ IsVerifying(c, u)
  BY DEF SessionTypes, HasUser, LoginVerified, LoginRefused, IsVerifying
<1>3. /\ call'[c].at # "verifying" /\ \A d \in Calls : d # c => call'[d] = call[d]
  <2>1. CASE LoginVerified(c)
    BY <1>1, <2>1 DEF LoginVerified, CallRow
  <2>2. CASE LoginRefused(c)
    BY <1>1, <2>2 DEF LoginRefused, NoCall
  <2> QED
    BY <2>1, <2>2
<1>4. /\ ~\E v : IsVerifying(c, v)'
      /\ \A d \in Calls : \A v : d # c => (IsVerifying(d, v)' <=> IsVerifying(d, v))
  BY <1>3 DEF IsVerifying
<1>5. /\ Cardinality(Verifying(u)) \in Nat \ {0}
      /\ Cardinality(Verifying(u)') = Cardinality(Verifying(u)) - 1
      /\ \A v \in Operators : v # u => \A d \in Calls : IsVerifying(d, v)' <=> IsVerifying(d, v)
  BY <1>2, <1>4, OneFewer
<1>6. /\ wrong[u] + Cardinality(Verifying(u)) <= slots[u] /\ slots[u] <= LOGIN_BUDGET
      /\ slots[u] \in Nat /\ wrong[u] \in Nat /\ LOGIN_BUDGET \in Nat
  BY <1>1, SessionAssumption DEF BudgetInv, SlotsCover
<1>7. \/ slots' = [slots EXCEPT ![u] = slots[u] - 1] /\ wrong' = wrong
      \/ wrong' = [wrong EXCEPT ![u] = wrong[u] + 1] /\ slots' = slots
  <2>1. slots[u] > 0
    BY <1>5, <1>6
  <2>2. CASE LoginVerified(c)
    BY <1>2, <2>1, <2>2 DEF LoginVerified
  <2>3. CASE LoginRefused(c)
    BY <1>2, <2>3 DEF LoginRefused
  <2> QED
    BY <2>2, <2>3
<1>8. slots[u] - 1 \in Nat /\ wrong[u] + 1 \in Nat
  BY <1>5, <1>6
<1>9. WindowTypes' /\ OthersWindows(u)
  BY <1>1, <1>5, <1>7, <1>8 DEF WindowTypes, OthersWindows
<1>10. \/ slots'[u] = slots[u] - 1 /\ wrong'[u] = wrong[u]
       \/ slots'[u] = slots[u] /\ wrong'[u] = wrong[u] + 1
  BY <1>1, <1>7
<1>11. SlotsCover(u)'
  BY <1>5, <1>6, <1>10 DEF SlotsCover
<1> QED
  BY <1>9, <1>11, BudgetOfOne

LEMMA BudgetByMinute ==
    ASSUME SessionTypes, BudgetInv, NEW u \in Operators, WindowPasses(u)
    PROVE  BudgetInv' /\ WindowTypes'
<1>1. slots \in [Operators -> Nat] /\ wrong \in [Operators -> Nat]
  BY DEF SessionTypes
<1>2. slots' = [slots EXCEPT ![u] = 0] /\ wrong' = [wrong EXCEPT ![u] = 0] /\ call' = call
  BY DEF WindowPasses
<1>3. \A c \in Calls : ~IsVerifying(c, u)
  BY DEF WindowPasses, IsVerifying
<1>4. WindowTypes' /\ OthersWindows(u)
  BY <1>1, <1>2 DEF WindowTypes, OthersWindows, IsVerifying
<1>5. Verifying(u)' = {}
  BY <1>2, <1>3 DEF Verifying, IsVerifying
<1>6. Cardinality(Verifying(u)') = 0 /\ LOGIN_BUDGET \in Nat
  BY <1>5, FS_EmptySet, SessionAssumption
<1>7. slots'[u] = 0 /\ wrong'[u] = 0
  BY <1>1, <1>2
<1>8. SlotsCover(u)'
  BY <1>6, <1>7 DEF SlotsCover
<1> QED
  BY <1>4, <1>8, BudgetOfOne

LEMMA BudgetStep ==
    ASSUME SessionTypes, BudgetInv, SessionsNext
    PROVE  BudgetInv' /\ WindowTypes'
<1>1. ASSUME UNCHANGED <<slots, wrong, call>> PROVE BudgetInv' /\ WindowTypes'
  <2>1. \A c \in Calls, u \in Operators : IsVerifying(c, u)' <=> IsVerifying(c, u)
    BY <1>1 DEF IsVerifying
  <2> QED
    BY <1>1, <2>1, BudgetUntouched DEF SessionTypes, WindowTypes
<1>2. ASSUME NEW u \in Operators, ReactivateUser(u) PROVE BudgetInv' /\ WindowTypes'
  BY <1>1, <1>2 DEF ReactivateUser
<1>3. ASSUME NEW t \in Tokens, Lapse(t) PROVE BudgetInv' /\ WindowTypes'
  BY <1>1, <1>3 DEF Lapse
<1> QED
  BY <1>2, <1>3, BudgetAside, BudgetByBegin, BudgetByVerdict, BudgetByMinute
     DEF SessionsNext, SignInStep, RotationStep, EndingStep

-----------------------------------------------------------------------------
(* Sessions: the theorems.                                                 *)

LEMMA AccountsTyped ==
    ASSUME SessionTypes, SessionsNext
    PROVE  acct' \in [Operators -> AccountRow]
<1>1. acct \in [Operators -> AccountRow]
  BY DEF SessionTypes
<1>2. ASSUME NEW c \in Calls, RevokeCommit(c) PROVE acct' \in [Operators -> AccountRow]
  <2>1. call[c].user \in Operators /\ call[c].pw \in Nat
    BY <1>2 DEF SessionTypes, HasUser, RevokeCommit, CallRow
  <2>2. [acct EXCEPT ![call[c].user].pw = call[c].pw] \in [Operators -> AccountRow]
    BY <1>1, <2>1 DEF AccountRow
  <2>3. [acct EXCEPT ![call[c].user].active = FALSE] \in [Operators -> AccountRow]
    BY <1>1, <2>1 DEF AccountRow
  <2>4. AccountAfter(c) \in {[acct EXCEPT ![call[c].user].pw = call[c].pw],
                            [acct EXCEPT ![call[c].user].active = FALSE], acct}
    BY DEF AccountAfter
  <2> QED
    BY <1>1, <1>2, <2>2, <2>3, <2>4 DEF RevokeCommit
<1>3. ASSUME NEW u \in Operators, ReactivateUser(u) PROVE acct' \in [Operators -> AccountRow]
  BY <1>1, <1>3 DEF ReactivateUser, AccountRow
<1>4. ASSUME UNCHANGED acct PROVE acct' \in [Operators -> AccountRow]
  BY <1>1, <1>4
<1>5. ASSUME NEW c \in Calls,
             \/ \E u \in Operators, l \in Counters : LoginBegin(c, u, l) \/ CloseShiftTake(c, u, l)
             \/ LoginVerified(c) \/ LoginRefused(c) \/ StartShift(c) \/ LoginCommit(c)
             \/ CloseShiftCommit(c)
             \/ \E t \in Tokens : RefreshRead(c, t) \/ Logout(c, t)
             \/ MarkUsed(c) \/ RefreshCommit(c) \/ RefreshTooOld(c)
             \/ \E u \in Operators : ChangePassword(c, u) \/ ResetPassword(c, u)
                                       \/ DeactivateUser(c, u) \/ MoveUser(c, u)
             \/ Abandon(c)
      PROVE  acct' \in [Operators -> AccountRow]
  BY <1>4, <1>5 DEF LoginBegin, CloseShiftTake, LoginVerified, LoginRefused, StartShift, LoginCommit,
                    CloseShiftCommit, RefreshRead, Logout, MarkUsed, RefreshCommit, RefreshTooOld,
                    ChangePassword, ResetPassword, DeactivateUser, MoveUser, Abandon
<1>6. ASSUME NEW t \in Tokens, Lapse(t) PROVE acct' \in [Operators -> AccountRow]
  BY <1>4, <1>6 DEF Lapse
<1>7. ASSUME NEW u \in Operators, WindowPasses(u) PROVE acct' \in [Operators -> AccountRow]
  BY <1>4, <1>7 DEF WindowPasses
<1> QED
  BY <1>2, <1>3, <1>5, <1>6, <1>7 DEF SessionsNext, SignInStep, RotationStep, EndingStep

SessionsInv == SessionTypes /\ TokensInv /\ ShiftsInv /\ BudgetInv

\* Whatever sign-ins, refreshes and revokes overlap, the inductive invariant holds.
THEOREM SessionsInvariant == SessionsSpec => []SessionsInv
<1>1. SessionsInit => SessionsInv
  <2> SUFFICES ASSUME SessionsInit PROVE SessionsInv
    OBVIOUS
  <2>1. NoCall \in CallRow /\ NoCall.at = "idle"
    BY DEF NoCall, CallRow, CallPlaces
  <2>2. NoToken \in TokenRow /\ NoToken.user = "none"
    BY DEF NoToken, TokenRow
  <2>3. call \in [Calls -> CallRow] /\ \A c \in Calls : call[c].at = "idle"
    BY <2>1 DEF SessionsInit
  <2>4. tok \in [Tokens -> TokenRow] /\ Minted = {}
    BY <2>2 DEF SessionsInit, Minted
  <2>5. /\ acct \in [Operators -> AccountRow]
        /\ slots \in [Operators -> Nat] /\ wrong \in [Operators -> Nat]
    BY DEF SessionsInit, AccountRow
  <2>6. SessionTypes
    BY <2>3, <2>4, <2>5 DEF SessionTypes, HasUser
  <2>7. TokensInv
    <3>1. MintedInOrder
      <4>1. 1..0 = {} /\ 0 \in Nat
        OBVIOUS
      <4> QED
        BY <2>4, <4>1 DEF MintedInOrder
    <3>2. Forest
      BY <2>4, <3>1 DEF Forest
    <3> QED
      BY <2>3, <3>2 DEF TokensInv, ShowsOwn, ClaimsUnused, ClaimsAlone, HasClaim
  <2>8. ShiftsInv
    <3>1. \A u \in Operators, l \in Counters : shift[u][l] = 0
      BY DEF SessionsInit
    <3>2. ShiftTypes
      BY DEF SessionsInit, ShiftTypes
    <3>3. \A u \in Operators : OpenAlone(u)
      BY <3>1 DEF OpenAlone, IsOpen
    <3> QED
      BY <2>3, <3>2, <3>3 DEF ShiftsInv, BeforeShift, KnowsShift, KnowsClosing, LocksAlone, HoldsShiftLock
  <2>9. BudgetInv
    <3> SUFFICES ASSUME NEW u \in Operators PROVE SlotsCover(u)
      BY DEF BudgetInv
    <3>1. Verifying(u) = {}
      BY <2>3 DEF Verifying, IsVerifying
    <3>2. wrong[u] = 0 /\ slots[u] = 0
      BY DEF SessionsInit
    <3> QED
      BY <3>1, <3>2, FS_EmptySet, SessionAssumption DEF SlotsCover
  <2> QED
    BY <2>6, <2>7, <2>8, <2>9 DEF SessionsInv
<1>2. SessionsInv /\ [SessionsNext]_sessionVars => SessionsInv'
  <2>1. ASSUME SessionsInv, SessionsNext PROVE SessionsInv'
    <3>1. SessionTypes /\ TokensInv /\ ShiftsInv /\ BudgetInv
      BY <2>1 DEF SessionsInv
    <3>2. TokensInv' /\ tok' \in [Tokens -> TokenRow]
      BY <2>1, <3>1, TokensStep
    <3>3. ShiftsInv'
      BY <2>1, <3>1, ShiftsStep
    <3>4. BudgetInv' /\ WindowTypes'
      BY <2>1, <3>1, BudgetStep
    <3>5. call' \in [Calls -> CallRow] /\ \A d \in Calls : HasUser(d)'
      BY <2>1, <3>1, CallsTyped
    <3>6. SessionTypes'
      BY <2>1, <3>1, <3>2, <3>4, <3>5, AccountsTyped DEF SessionTypes, WindowTypes
    <3> QED
      BY <3>2, <3>3, <3>4, <3>6 DEF SessionsInv
  <2>2. ASSUME SessionsInv, UNCHANGED sessionVars PROVE SessionsInv'
    <3>1. UNCHANGED <<acct, tok, shift, slots, wrong, call>>
      BY <2>2 DEF sessionVars
    <3>2. SessionTypes'
      BY <2>2, <3>1 DEF SessionsInv, SessionTypes, HasUser
    <3>3. TokensInv'
      BY <2>2, <3>1, TokensUntouched DEF SessionsInv, ClaimsFromBefore
    <3>4. ShiftsInv'
      BY <2>2, <3>1 DEF SessionsInv, ShiftsInv, ShiftTypes, OpenAlone, IsOpen, BeforeShift, KnowsShift,
                        KnowsClosing, NoneOpen, LocksAlone, HoldsShiftLock
    <3>5. BudgetInv'
      <4>1. \A c \in Calls, u \in Operators : IsVerifying(c, u)' <=> IsVerifying(c, u)
        BY <3>1 DEF IsVerifying
      <4> QED
        BY <2>2, <3>1, <4>1, BudgetUntouched DEF SessionsInv, SessionTypes, WindowTypes
    <3> QED
      BY <3>2, <3>3, <3>4, <3>5 DEF SessionsInv
  <2> QED
    BY <2>1, <2>2
<1> QED
  BY <1>1, <1>2, PTL DEF SessionsSpec

\* However sign-ins, refreshes of one cookie, Close Shifts and wrong passwords race, a token is
\* inherited once, a person has one shift open and the login budget is kept.
THEOREM RacesAreHarmless == SessionsSpec => []RacesChangeNothing
<1>1. SessionsInv => RacesChangeNothing
  <2> SUFFICES ASSUME SessionsInv PROVE RacesChangeNothing
    OBVIOUS
  <2>1. OneHeirPerToken
    <3> SUFFICES ASSUME NEW s \in Minted, NEW t \in Minted, s # t, tok[s].family = tok[t].family
                 PROVE  tok[s].heirOf # tok[t].heirOf /\ ~(Live(s) /\ Live(t))
      BY DEF OneHeirPerToken
    <3>1. RowFollows(s) /\ RowFollows(t) /\ RowsDiffer(s, t)
      BY DEF SessionsInv, TokensInv, Forest
    <3> QED
      BY <3>1 DEF RowFollows, RowsDiffer, Live
  <2>2. OneOpenShift
    <3> SUFFICES ASSUME NEW u \in Operators
                 PROVE  Cardinality(OpenShifts(u)) <= 1 /\ \A l \in Counters : shift[u][l] \in {0, 1}
      BY DEF OneOpenShift
    <3>1. \A l \in Counters : shift[u][l] \in {0, 1}
      BY DEF SessionsInv, ShiftsInv, ShiftTypes
    <3>2. OpenShifts(u) = {} \/ \E l : OpenShifts(u) = {l}
      <4>1. \A l : l \in OpenShifts(u) <=> l \in Counters /\ IsOpen(u, l)
        BY OpenIsOpen DEF SessionsInv, ShiftsInv
      <4>2. \A l, m \in OpenShifts(u) : l = m
        BY <4>1 DEF SessionsInv, ShiftsInv, OpenAlone
      <4> QED
        BY <4>2
    <3>3. Cardinality(OpenShifts(u)) \in {0, 1}
      BY <3>2, FS_EmptySet, FS_Singleton
    <3> QED
      BY <3>1, <3>3
  <2>3. BudgetHolds
    <3> SUFFICES ASSUME NEW u \in Operators
                 PROVE  wrong[u] + Cardinality(Verifying(u)) <= LOGIN_BUDGET
      BY DEF BudgetHolds, Verifying, IsVerifying
    <3>1. /\ wrong[u] + Cardinality(Verifying(u)) <= slots[u] /\ slots[u] <= LOGIN_BUDGET
      BY DEF SessionsInv, BudgetInv, SlotsCover
    <3>2. slots[u] \in Nat /\ wrong[u] \in Nat /\ LOGIN_BUDGET \in Nat
      BY SessionAssumption DEF SessionsInv, SessionTypes
    <3> QED
      BY <3>1, <3>2, VerifyingCounts
  <2> QED
    BY <2>1, <2>2, <2>3 DEF RacesChangeNothing
<1> QED
  BY <1>1, SessionsInvariant, PTL
=============================================================================
