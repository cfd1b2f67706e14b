------------------------------ MODULE Register ------------------------------
(***************************************************************************)
(* The register: the session a sale opens or joins, the Z that closes it   *)
(* and the void that must not reach behind a Z (lib/register.ts,           *)
(* modules/register, and the session side of lib/sale.ts and modules/pos). *)
(*                                                                         *)
(* A till runs one transaction at a time, one statement to a step.  Row    *)
(* locks last to the end of the transaction: FOR SHARE by sales and voids, *)
(* FOR UPDATE by the close; a statement that must wait is not enabled.     *)
(* The outlet's own row is only ever share-locked here and is left out.    *)
(***************************************************************************)
EXTENDS Integers, FiniteSets

CONSTANTS
    Outlets,
    Tills,          \* bound: transactions open at once
    Sessions,       \* bound: session ids
    Bills,          \* bound: bill numbers
    Passes,         \* how often sessionFor looks for a session (3 in the code)
    None

ASSUME PassAssumption == Passes \in Nat \ {0}
ASSUME NoneAssumption == None \notin Outlets \cup Sessions \cup Bills
ASSUME TillAssumption == IsFiniteSet(Tills)

VARIABLES
    ses,        \* register_sessions as committed, with the Z each closed one stored
    bill,       \* bills as committed: the session each is stamped with
    nextZ,      \* the z_report row of `sequences`
    till        \* the transaction on each till

vars == <<ses, bill, nextZ, till>>

Idle == [op |-> "idle", loc |-> None, ses |-> None, bill |-> None, minted |-> FALSE,
         pass |-> 0, sold |-> {}, voided |-> {}, prev |-> 0, zNo |-> 0]

\* The open session at an outlet, among committed rows.
OpenAt(o) == {s \in Sessions : ses[s].st = "Open" /\ ses[s].loc = o}

\* Every id some transaction has put in but not committed.
Minting(o) == {k \in Tills : till[k].minted /\ till[k].loc = o}
Fresh(s) == ses[s].st = "Not drawn" /\ \A k \in Tills : till[k].ses # s

Shares(k, s) == till[k].op \in {"selling", "voiding"} /\ till[k].ses = s
Updates(k, s) == till[k].op \in {"closing", "sold read", "voided read", "numbered"} /\ till[k].ses = s

MayShare(s) == \A k \in Tills : ~Updates(k, s)
MayUpdate(s) == \A k \in Tills : ~Updates(k, s) /\ ~Shares(k, s)

-----------------------------------------------------------------------------
(* A sale: sessionFor's passes, then the bill stamped with what it found.  *)

SaleBegin(k, o) ==
    /\ till[k].op = "idle"
    /\ till' = [till EXCEPT ![k] = [Idle EXCEPT !.op = "looking", !.loc = o]]
    /\ UNCHANGED <<ses, bill, nextZ>>

\* The open row FOR SHARE, if no close holds it.
LookFound(k, s) ==
    /\ till[k].op = "looking"
    /\ s \in OpenAt(till[k].loc)
    /\ MayShare(s)
    /\ till' = [till EXCEPT ![k].op = "selling", ![k].ses = s]
    /\ UNCHANGED <<ses, bill, nextZ>>

\* A close holds it: wait for that row.
LookQueued(k, s) ==
    /\ till[k].op = "looking"
    /\ s \in OpenAt(till[k].loc)
    /\ ~MayShare(s)
    /\ till' = [till EXCEPT ![k].op = "queued", ![k].ses = s]
    /\ UNCHANGED <<ses, bill, nextZ>>

\* The close was rolled back, or it committed and the row no longer matches; a session opened since
\* is not in the statement's snapshot.
LookWoken(k) ==
    /\ till[k].op = "queued"
    /\ MayShare(till[k].ses)
    /\ till' = IF ses[till[k].ses].st = "Open"
               THEN [till EXCEPT ![k].op = "selling"]
               ELSE [till EXCEPT ![k].op = "opening", ![k].ses = None]
    /\ UNCHANGED <<ses, bill, nextZ>>

LookNone(k) ==
    /\ till[k].op = "looking"
    /\ OpenAt(till[k].loc) = {}
    /\ till' = [till EXCEPT ![k].op = "opening"]
    /\ UNCHANGED <<ses, bill, nextZ>>

MintAnyway(k, s) ==
    /\ till[k].op = "opening"
    /\ Fresh(s)
    /\ till' = [till EXCEPT ![k].op = "selling", ![k].ses = s, ![k].minted = TRUE]
    /\ UNCHANGED <<ses, bill, nextZ>>

\* The insert: the one-open-per-outlet index makes it wait for another till's uncommitted row.
Mint(k, s) ==
    /\ till[k].op = "opening"
    /\ Minting(till[k].loc) = {} /\ OpenAt(till[k].loc) = {}
    /\ Fresh(s)
    /\ till' = [till EXCEPT ![k].op = "selling", ![k].ses = s, ![k].minted = TRUE]
    /\ UNCHANGED <<ses, bill, nextZ>>

MintConflictAgain(k) ==
    /\ till[k].op = "opening"
    /\ Minting(till[k].loc) = {} /\ OpenAt(till[k].loc) # {}
    /\ till' = [till EXCEPT ![k].op = "looking", ![k].pass = @ + 1]
    /\ UNCHANGED <<ses, bill, nextZ>>

\* on conflict do nothing: another till opened the session first, so look again.
MintConflict(k) ==
    /\ till[k].op = "opening"
    /\ Minting(till[k].loc) = {} /\ OpenAt(till[k].loc) # {}
    /\ till[k].pass + 1 < Passes
    /\ till' = [till EXCEPT ![k].op = "looking", ![k].pass = @ + 1]
    /\ UNCHANGED <<ses, bill, nextZ>>

\* The last pass lost too: RegisterClosingError, and nothing is written.
GiveUp(k) ==
    /\ till[k].op = "opening"
    /\ Minting(till[k].loc) = {} /\ OpenAt(till[k].loc) # {}
    /\ till[k].pass + 1 = Passes
    /\ till' = [till EXCEPT ![k] = Idle]
    /\ UNCHANGED <<ses, bill, nextZ>>

NoZ == [zNo |-> 0, prev |-> 0, sold |-> {}, voided |-> {}]

SaleCommit(k, b) ==
    /\ till[k].op = "selling"
    /\ bill[b].st = "Not drawn"
    /\ bill' = [bill EXCEPT ![b] = [st |-> "Live", ses |-> till[k].ses]]
    /\ ses' = IF till[k].minted
              THEN [ses EXCEPT ![till[k].ses] = [st |-> "Open", loc |-> till[k].loc, z |-> NoZ]]
              ELSE ses
    /\ till' = [till EXCEPT ![k] = Idle]
    /\ UNCHANGED nextZ

-----------------------------------------------------------------------------
(* A void: the bill's row, then its session's FOR SHARE, then the check.   *)

BillFree(b) == \A k \in Tills : till[k].bill # b

VoidBegin(k, b) ==
    /\ till[k].op = "idle"
    /\ bill[b].st = "Live"
    /\ BillFree(b)
    /\ till' = [till EXCEPT ![k] = [Idle EXCEPT !.op = "bill held", !.bill = b]]
    /\ UNCHANGED <<ses, bill, nextZ>>

HoldSessionUnlocked(k) ==
    LET s == bill[till[k].bill].ses
    IN  /\ till[k].op = "bill held"
        /\ ses[s].st = "Open"
        /\ till' = [till EXCEPT ![k].op = "voiding", ![k].ses = s]
        /\ UNCHANGED <<ses, bill, nextZ>>

HoldSession(k) ==
    LET s == bill[till[k].bill].ses
    IN  /\ till[k].op = "bill held"
        /\ MayShare(s)
        /\ ses[s].st = "Open"
        /\ till' = [till EXCEPT ![k].op = "voiding", ![k].ses = s]
        /\ UNCHANGED <<ses, bill, nextZ>>

VoidCommit(k) ==
    /\ till[k].op = "voiding"
    /\ bill' = [bill EXCEPT ![till[k].bill].st = "Voided"]
    /\ till' = [till EXCEPT ![k] = Idle]
    /\ UNCHANGED <<ses, nextZ>>

-----------------------------------------------------------------------------
(* The Z: the session FOR UPDATE, its sales, its voids, a number, the slip.*)

CloseTake(k, o, s) ==
    /\ till[k].op = "idle"
    /\ s \in OpenAt(o)
    /\ MayUpdate(s)
    /\ till' = [till EXCEPT ![k] = [Idle EXCEPT !.op = "closing", !.loc = o, !.ses = s]]
    /\ UNCHANGED <<ses, bill, nextZ>>

SoldIn(s) == {b \in Bills : bill[b].ses = s /\ bill[b].st = "Live"}
VoidedIn(s) == {b \in Bills : bill[b].ses = s /\ bill[b].st = "Voided"}

CloseReadSold(k) ==
    /\ till[k].op = "closing"
    /\ till' = [till EXCEPT ![k].op = "sold read", ![k].sold = SoldIn(till[k].ses)]
    /\ UNCHANGED <<ses, bill, nextZ>>

\* lastZ: the outlet's latest Z, or 0 before the first.
LastZ(o) ==
    LET taken == {ses[s].z.zNo : s \in {t \in Sessions : ses[t].st = "Closed" /\ ses[t].loc = o}}
    IN  IF taken = {} THEN 0 ELSE CHOOSE n \in taken : \A m \in taken : m <= n

\* The voids, then the Z this one follows, both before the number is drawn.
CloseReadVoided(k) ==
    /\ till[k].op = "sold read"
    /\ till' = [till EXCEPT ![k].op = "voided read", ![k].voided = VoidedIn(till[k].ses),
                            ![k].prev = LastZ(till[k].loc)]
    /\ UNCHANGED <<ses, bill, nextZ>>

AllocateUnlocked(k) ==
    /\ till[k].op = "voided read"
    /\ till' = [till EXCEPT ![k].op = "numbered", ![k].zNo = nextZ]
    /\ UNCHANGED <<ses, bill, nextZ>>

\* allocateId: the sequence row is updated, and so held, until the transaction ends.
AllocateZ(k) ==
    /\ till[k].op = "voided read"
    /\ \A j \in Tills : till[j].op # "numbered"
    /\ till' = [till EXCEPT ![k].op = "numbered", ![k].zNo = nextZ]
    /\ UNCHANGED <<ses, bill, nextZ>>

CloseCommit(k) ==
    /\ till[k].op = "numbered"
    /\ ses' = [ses EXCEPT ![till[k].ses].st = "Closed",
                          ![till[k].ses].z = [zNo |-> till[k].zNo, prev |-> till[k].prev,
                                              sold |-> till[k].sold, voided |-> till[k].voided]]
    /\ nextZ' = till[k].zNo + 1
    /\ till' = [till EXCEPT ![k] = Idle]
    /\ UNCHANGED bill

\* A refusal, a dropped connection or a crash: locks, the minted row and the number go back.
Rollback(k) ==
    /\ till[k].op # "idle"
    /\ till' = [till EXCEPT ![k] = Idle]
    /\ UNCHANGED <<ses, bill, nextZ>>

-----------------------------------------------------------------------------
Init ==
    /\ ses = [s \in Sessions |-> [st |-> "Not drawn", loc |-> None, z |-> NoZ]]
    /\ bill = [b \in Bills |-> [st |-> "Not drawn", ses |-> None]]
    /\ nextZ = 1
    /\ till = [k \in Tills |-> Idle]

SaleStep(k) ==
    \/ \E o \in Outlets : SaleBegin(k, o)
    \/ \E s \in Sessions : LookFound(k, s) \/ LookQueued(k, s)
    \/ LookWoken(k)
    \/ LookNone(k)
    \/ \E s \in Sessions : Mint(k, s)
    \/ MintConflict(k)
    \/ GiveUp(k)
    \/ \E b \in Bills : SaleCommit(k, b)

VoidStep(k) == (\E b \in Bills : VoidBegin(k, b)) \/ HoldSession(k) \/ VoidCommit(k)

CloseStep(k) ==
    \/ \E o \in Outlets, s \in Sessions : CloseTake(k, o, s)
    \/ CloseReadSold(k)
    \/ CloseReadVoided(k)
    \/ AllocateZ(k)
    \/ CloseCommit(k)

Next == \E k \in Tills : SaleStep(k) \/ VoidStep(k) \/ CloseStep(k) \/ Rollback(k)

Spec == Init /\ [][Next]_vars

-----------------------------------------------------------------------------
(* Properties.                                                             *)

ZRow == [zNo : Nat, prev : Nat, sold : SUBSET Bills, voided : SUBSET Bills]
SessionRow == [st : {"Not drawn", "Open", "Closed"}, loc : Outlets \cup {None}, z : ZRow]
BillRow == [st : {"Not drawn", "Live", "Voided"}, ses : Sessions \cup {None}]
TillRow == [op : {"idle", "looking", "queued", "opening", "selling", "bill held", "voiding",
                  "closing", "sold read", "voided read", "numbered"},
            loc : Outlets \cup {None}, ses : Sessions \cup {None}, bill : Bills \cup {None},
            minted : BOOLEAN, pass : 0..Passes - 1, sold : SUBSET Bills, voided : SUBSET Bills,
            prev : Nat, zNo : Nat]

\* Types; among them that a sale never looks more than Passes times.
TypeOK ==
    /\ ses \in [Sessions -> SessionRow]
    /\ bill \in [Bills -> BillRow]
    /\ nextZ \in Nat \ {0}
    /\ till \in [Tills -> TillRow]

\* One business day per outlet: two first sales racing, or a Z between them, never leave an outlet
\* with two open sessions, so no day's takings are split.
OneOpenSession == \A o \in Outlets : \A s, t \in OpenAt(o) : s = t

\* A Z stays true: what a closed session stored is what its bills say ever after, however sales
\* and voids raced the close.
ZMatchesBills ==
    \A s \in Sessions : ses[s].st = "Closed" =>
        /\ ses[s].z.sold = SoldIn(s)
        /\ ses[s].z.voided = VoidedIn(s)

Closed == {s \in Sessions : ses[s].st = "Closed"}

\* The Z series has no gap and no repeat across outlets, rollbacks included, and each outlet's
\* slips chain: the Z a slip says it follows is the outlet's latest before it.
ZNumbersGapless ==
    /\ \A s, t \in Closed : ses[s].z.zNo = ses[t].z.zNo => s = t
    /\ {ses[s].z.zNo : s \in Closed} = 1..(nextZ - 1)
    /\ \A s \in Closed :
           LET before == {t \in Closed : ses[t].loc = ses[s].loc /\ ses[t].z.zNo < ses[s].z.zNo}
           IN  IF before = {} THEN ses[s].z.prev = 0
               ELSE \E t \in before : /\ ses[s].z.prev = ses[t].z.zNo
                                      /\ \A u \in before : ses[u].z.zNo <= ses[t].z.zNo
=============================================================================
