---------------------------- MODULE RegisterProofs ----------------------------
(***************************************************************************)
(* The register for every number of outlets, tills, sessions and bills:    *)
(* one open session at an outlet, a Z that stays true, a series without    *)
(* gaps.  RegisterInv says what a transaction knows at each of its         *)
(* statements (TillKnows), what the locks keep apart (Apart), and what the *)
(* committed rows add up to.                                               *)
(***************************************************************************)
EXTENDS Register, TLAPS

Closes == {"closing", "sold read", "voided read", "numbered"}

\* The session a transaction works in is open, at its outlet.
OpenFor(t) ==
    t.ses \in Sessions /\ ses[t.ses].st = "Open" /\ ses[t.ses].loc = t.loc

\* What a transaction has read, and still holds, at each statement.
TillKnows(t) ==
    /\ t.minted =>
          /\ t.op = "selling" /\ t.ses \in Sessions
          /\ ses[t.ses].st = "Not drawn" /\ OpenAt(t.loc) = {}
    /\ t.op = "selling" /\ ~t.minted => OpenFor(t)
    /\ t.op \in Closes => OpenFor(t)
    /\ t.op = "queued" =>
          t.ses \in Sessions /\ ses[t.ses].st # "Not drawn" /\ ses[t.ses].loc = t.loc
    /\ t.op \in {"idle", "looking", "opening", "bill held"} => t.ses = None
    /\ t.bill # None => t.op \in {"bill held", "voiding"}
    /\ t.op \in {"bill held", "voiding"} => t.bill \in Bills /\ bill[t.bill].st = "Live"
    /\ t.op = "voiding" =>
          t.ses \in Sessions /\ ses[t.ses].st = "Open" /\ bill[t.bill].ses = t.ses
    /\ t.op \in Closes \ {"closing"} => t.sold = SoldIn(t.ses)
    /\ t.op \in {"voided read", "numbered"} => t.voided = VoidedIn(t.ses) /\ t.prev = LastZ(t.loc)
    /\ t.op = "numbered" => t.zNo = nextZ

\* What the row locks and the one-open-per-outlet index keep two transactions from.
Apart(t, u) ==
    /\ t.op \in Closes /\ u.op \in Closes \cup {"selling", "voiding"} => t.ses # u.ses
    /\ t.minted => t.ses # u.ses /\ (u.minted => t.loc # u.loc)
    /\ t.bill # None => t.bill # u.bill
    /\ t.op = "numbered" => u.op # "numbered"

TillsKnow == \A k \in Tills : TillKnows(till[k])
TillsApart == \A j, k \in Tills : j # k => Apart(till[j], till[k])

\* Every bill belongs to a session.
BillsStamped == \A b \in Bills : bill[b].st # "Not drawn" => bill[b].ses \in Sessions

\* No outlet has two open sessions.
OneOpen == \A s, t \in Sessions :
    ses[s].st = "Open" /\ ses[t].st = "Open" /\ ses[s].loc = ses[t].loc => s = t

\* ZNumbersGapless, part by part.
NumbersOnce == \A s, t \in Closed : ses[s].z.zNo = ses[t].z.zNo => s = t
NumbersUsed ==
    /\ \A s \in Closed : ses[s].z.zNo \in 1..(nextZ - 1)
    /\ \A n \in 1..(nextZ - 1) : \E s \in Closed : ses[s].z.zNo = n
Before(s) == {t \in Closed : ses[t].loc = ses[s].loc /\ ses[t].z.zNo < ses[s].z.zNo}
Follows(s) ==
    IF Before(s) = {} THEN ses[s].z.prev = 0
    ELSE \E t \in Before(s) : /\ ses[s].z.prev = ses[t].z.zNo
                              /\ \A u \in Before(s) : ses[u].z.zNo <= ses[t].z.zNo
Chained == \A s \in Closed : Follows(s)

ClosedAt(o) == {t \in Sessions : ses[t].st = "Closed" /\ ses[t].loc = o}

\* An outlet that has closed a session has a latest Z.
HasLatest == \A s \in Closed : \E t \in ClosedAt(ses[s].loc) :
    \A u \in ClosedAt(ses[s].loc) : ses[u].z.zNo <= ses[t].z.zNo

RegisterInv ==
    /\ TypeOK
    /\ TillsKnow /\ TillsApart
    /\ BillsStamped /\ OneOpen
    /\ ZMatchesBills
    /\ NumbersOnce /\ NumbersUsed /\ Chained /\ HasLatest

-----------------------------------------------------------------------------
\* The first state: nothing opened, sold or numbered, every till idle.
LEMMA InitRegister == Init => RegisterInv
<1> SUFFICES ASSUME Init PROVE RegisterInv
    OBVIOUS
<1>1. Idle \in TillRow /\ NoZ \in ZRow
    BY PassAssumption DEF Idle, NoZ, TillRow, ZRow
<1>2. TypeOK
  <2> DEFINE undrawn == [st |-> "Not drawn", loc |-> None, z |-> NoZ]
             unsold == [st |-> "Not drawn", ses |-> None]
  <2>1. undrawn \in SessionRow
    BY <1>1 DEF SessionRow
  <2>2. unsold \in BillRow
    BY DEF BillRow
  <2>3. ses = [s \in Sessions |-> undrawn] /\ bill = [b \in Bills |-> unsold]
    BY DEF Init
  <2> HIDE DEF undrawn, unsold
  <2>4. ses \in [Sessions -> SessionRow] /\ bill \in [Bills -> BillRow]
    BY <2>1, <2>2, <2>3
  <2>5. till \in [Tills -> TillRow]
    BY <1>1 DEF Init
  <2>6. nextZ = 1
    BY DEF Init
  <2> QED
    BY <2>4, <2>5, <2>6 DEF TypeOK
<1>3. TillsKnow /\ TillsApart
    BY DEF Init, Idle, TillsKnow, TillsApart, TillKnows, Apart, Closes
<1>4. BillsStamped /\ OneOpen /\ ZMatchesBills /\ HasLatest
    BY DEF Init, BillsStamped, OneOpen, ZMatchesBills, HasLatest, Closed
<1>5. NumbersOnce /\ NumbersUsed /\ Chained
  <2>1. Closed = {} /\ nextZ = 1
    BY DEF Init, Closed
  <2> QED
    BY <2>1 DEF NumbersOnce, NumbersUsed, Chained
<1> QED
    BY <1>2, <1>3, <1>4, <1>5 DEF RegisterInv

\* The series stays as it is while no session closes.
LEMMA SeriesKept ==
    ASSUME RegisterInv, nextZ' = nextZ, ses' \in [Sessions -> SessionRow],
           \A s \in Sessions : ses[s].st = "Closed" \/ ses'[s].st = "Closed" => ses'[s] = ses[s]
    PROVE  /\ NumbersOnce' /\ NumbersUsed' /\ Chained' /\ HasLatest'
           /\ \A o : LastZ(o)' = LastZ(o)
<1>1. Closed' = Closed /\ \A s \in Closed : ses'[s] = ses[s]
    BY DEF Closed
<1>2. ASSUME NEW o PROVE ClosedAt(o)' = ClosedAt(o)
    BY DEF ClosedAt
<1>3. NumbersOnce' /\ NumbersUsed'
    BY <1>1 DEF RegisterInv, NumbersOnce, NumbersUsed
<1>4. ASSUME NEW s \in Closed PROVE Follows(s)'
  <2>1. Before(s)' = Before(s)
    BY <1>1 DEF Before
  <2>2. Before(s) \subseteq Closed /\ Follows(s)
    BY DEF Before, RegisterInv, Chained
  <2> QED
    BY <1>1, <2>1, <2>2 DEF Follows
<1>5. HasLatest'
  <2> SUFFICES ASSUME NEW s \in Closed
               PROVE  \E t \in ClosedAt(ses[s].loc)' :
                          \A u \in ClosedAt(ses[s].loc)' : ses'[u].z.zNo <= ses'[t].z.zNo
    BY <1>1 DEF HasLatest
  <2>1. PICK t \in ClosedAt(ses[s].loc) : \A u \in ClosedAt(ses[s].loc) : ses[u].z.zNo <= ses[t].z.zNo
    BY DEF RegisterInv, HasLatest
  <2>2. ClosedAt(ses[s].loc)' = ClosedAt(ses[s].loc)
    BY <1>1 DEF ClosedAt, Closed
  <2>3. ClosedAt(ses[s].loc) \subseteq Closed
    BY DEF ClosedAt, Closed
  <2> QED
    BY <1>1, <2>1, <2>2, <2>3
<1>6. ASSUME NEW o PROVE LastZ(o)' = LastZ(o)
  <2> DEFINE taken == {ses[s].z.zNo : s \in ClosedAt(o)}
  <2>1. LastZ(o) = IF taken = {} THEN 0 ELSE CHOOSE n \in taken : \A m \in taken : m <= n
    BY DEF LastZ, ClosedAt
  <2>2. LastZ(o)' = IF taken' = {} THEN 0 ELSE CHOOSE n \in taken' : \A m \in taken' : m <= n
    BY DEF LastZ, ClosedAt
  <2>3. taken' = taken
    BY <1>1, <1>2 DEF ClosedAt, Closed
  <2> HIDE DEF taken
  <2> QED
    BY <2>1, <2>2, <2>3
<1> QED
    BY <1>1, <1>3, <1>4, <1>5, <1>6 DEF Chained

-----------------------------------------------------------------------------
(* Statements that read and lock: one till moves, nothing is committed.    *)

\* A till that moves to a record which knows what its statement has read, apart from every other
\* till, keeps the invariant.
LEMMA TillMoves ==
    ASSUME RegisterInv, NEW k \in Tills, NEW r \in TillRow,
           till' = [till EXCEPT ![k] = r], UNCHANGED <<ses, bill, nextZ>>,
           TillKnows(r),
           \A j \in Tills : j # k => Apart(r, till[j]) /\ Apart(till[j], r)
    PROVE  RegisterInv'
<1>1. TypeOK'
    BY DEF RegisterInv, TypeOK
<1>2. till'[k] = r /\ \A j \in Tills : j # k => till'[j] = till[j]
    BY DEF RegisterInv, TypeOK
<1>3. /\ \A o : OpenAt(o)' = OpenAt(o) /\ LastZ(o)' = LastZ(o)
      /\ \A s : SoldIn(s)' = SoldIn(s) /\ VoidedIn(s)' = VoidedIn(s)
  <2>1. ASSUME NEW o PROVE OpenAt(o)' = OpenAt(o)
    BY DEF OpenAt
  <2>2. ASSUME NEW o PROVE LastZ(o)' = LastZ(o)
    BY DEF LastZ
  <2>3. ASSUME NEW s PROVE SoldIn(s)' = SoldIn(s) /\ VoidedIn(s)' = VoidedIn(s)
    BY DEF SoldIn, VoidedIn
  <2> QED
    BY <2>1, <2>2, <2>3
<1>4. TillsKnow'
  <2>1. ASSUME NEW t, TillKnows(t) PROVE ses' = ses /\ bill' = bill /\ nextZ' = nextZ => TillKnows(t)'
    BY <1>3, <2>1 DEF TillKnows, OpenFor
  <2> QED
    BY <1>2, <2>1 DEF RegisterInv, TillsKnow
<1>5. TillsApart'
    BY <1>2 DEF RegisterInv, TillsApart, Apart
<1>6. BillsStamped' /\ OneOpen' /\ ZMatchesBills'
    BY <1>3 DEF RegisterInv, BillsStamped, OneOpen, ZMatchesBills
<1>7. NumbersOnce' /\ NumbersUsed' /\ Chained' /\ HasLatest'
    BY <1>1, SeriesKept DEF TypeOK
<1> QED
    BY <1>1, <1>4, <1>5, <1>6, <1>7 DEF RegisterInv

\* What the invariant says of the till that moves and of every other.
LEMMA TillFacts ==
    ASSUME RegisterInv
    PROVE  /\ till \in [Tills -> TillRow]
           /\ \A j \in Tills : till[j] \in TillRow /\ TillKnows(till[j])
           /\ \A j, l \in Tills : j # l => Apart(till[j], till[l])
  BY DEF RegisterInv, TypeOK, TillsKnow, TillsApart

\* The fields of an idle till.
LEMMA IdleRow ==
    /\ Idle \in TillRow
    /\ Idle.op = "idle" /\ Idle.ses = None /\ Idle.bill = None /\ Idle.minted = FALSE
  BY PassAssumption DEF Idle, TillRow

\* A transaction that has locked nothing is apart from all.
LEMMA HoldsNothing ==
    ASSUME RegisterInv, NEW j \in Tills, NEW r \in TillRow,
           r.op \in {"idle", "looking", "opening"}, r.ses = None, r.bill = None, ~r.minted
    PROVE  Apart(r, till[j]) /\ Apart(till[j], r) /\ TillKnows(r)
<1>1. till[j] \in TillRow /\ TillKnows(till[j])
    BY TillFacts
<1>2. till[j].minted => till[j].ses # None
    BY <1>1, NoneAssumption DEF TillKnows
<1>3. TillKnows(r)
    BY DEF TillKnows, Closes
<1>4. Apart(r, till[j])
    BY DEF Apart, Closes
<1>5. Apart(till[j], r)
    BY <1>2 DEF Apart, Closes
<1> QED
    BY <1>3, <1>4, <1>5

LEMMA SaleBegins ==
    ASSUME RegisterInv, NEW k \in Tills, NEW o \in Outlets, SaleBegin(k, o)
    PROVE  RegisterInv'
<1> DEFINE r == [Idle EXCEPT !.op = "looking", !.loc = o]
<1>1. r \in TillRow
    BY IdleRow DEF TillRow
<1>2. r.op = "looking" /\ r.ses = None /\ r.bill = None /\ ~r.minted
    BY IdleRow DEF TillRow
<1>3. till' = [till EXCEPT ![k] = r] /\ UNCHANGED <<ses, bill, nextZ>>
    BY DEF SaleBegin
<1> HIDE DEF r
<1> QED
    BY <1>1, <1>2, <1>3, HoldsNothing, TillMoves

\* No row lock stands against a till that share-locks an open session.
LEMMA SharingApart ==
    ASSUME RegisterInv, NEW k \in Tills, NEW s \in Sessions, NEW r \in TillRow,
           r.op \in {"selling", "voiding"}, r.ses = s, r.bill = till[k].bill, ~r.minted,
           ses[s].st = "Open", MayShare(s), NEW j \in Tills, j # k
    PROVE  Apart(r, till[j]) /\ Apart(till[j], r)
<1>1. TillKnows(till[j]) /\ Apart(till[j], till[k]) /\ Apart(till[k], till[j])
    BY TillFacts
<1>2. till[j].op \in Closes => till[j].ses # s
    BY DEF MayShare, Updates, Closes
<1>3. till[j].minted => till[j].ses # s
    BY <1>1 DEF TillKnows
<1> QED
    BY <1>1, <1>2, <1>3 DEF Apart, Closes

LEMMA SaleFindsOpen ==
    ASSUME RegisterInv, NEW k \in Tills, NEW s \in Sessions, LookFound(k, s)
    PROVE  RegisterInv'
<1> DEFINE r == [till[k] EXCEPT !.op = "selling", !.ses = s]
<1>1. till[k] \in TillRow /\ TillKnows(till[k]) /\ till[k].op = "looking" /\ MayShare(s)
      /\ s \in OpenAt(till[k].loc)
    BY TillFacts DEF LookFound
<1>2. /\ r \in TillRow
      /\ r.op = "selling" /\ r.ses = s /\ r.loc = till[k].loc /\ r.minted = till[k].minted
      /\ r.bill = till[k].bill
    BY <1>1 DEF TillRow
<1>3. till' = [till EXCEPT ![k] = r] /\ UNCHANGED <<ses, bill, nextZ>>
    BY TillFacts DEF LookFound
<1> HIDE DEF r
<1>4. TillKnows(r) /\ ~r.minted
    BY <1>1, <1>2 DEF TillKnows, OpenFor, Closes, OpenAt
<1>5. \A j \in Tills : j # k => Apart(r, till[j]) /\ Apart(till[j], r)
    BY <1>1, <1>2, <1>4, SharingApart DEF OpenAt
<1> QED
    BY <1>2, <1>3, <1>4, <1>5, TillMoves

LEMMA SaleQueues ==
    ASSUME RegisterInv, NEW k \in Tills, NEW s \in Sessions, LookQueued(k, s)
    PROVE  RegisterInv'
<1> DEFINE r == [till[k] EXCEPT !.op = "queued", !.ses = s]
<1>1. till[k] \in TillRow /\ TillKnows(till[k]) /\ till[k].op = "looking"
      /\ s \in OpenAt(till[k].loc)
    BY TillFacts DEF LookQueued
<1>2. /\ r \in TillRow
      /\ r.op = "queued" /\ r.ses = s /\ r.loc = till[k].loc /\ r.minted = till[k].minted
      /\ r.bill = till[k].bill
    BY <1>1 DEF TillRow
<1>3. till' = [till EXCEPT ![k] = r] /\ UNCHANGED <<ses, bill, nextZ>>
    BY TillFacts DEF LookQueued
<1> HIDE DEF r
<1>4. TillKnows(r) /\ ~r.minted
    BY <1>1, <1>2 DEF TillKnows, OpenFor, Closes, OpenAt
<1>5. ASSUME NEW j \in Tills, j # k PROVE Apart(r, till[j]) /\ Apart(till[j], r)
  <2>1. TillKnows(till[j]) /\ Apart(till[j], till[k]) /\ Apart(till[k], till[j])
    BY <1>5, TillFacts
  <2>2. till[j].minted => till[j].ses # s
    BY <1>1, <2>1 DEF TillKnows, OpenAt
  <2> QED
    BY <1>2, <1>4, <2>1, <2>2 DEF Apart, Closes
<1> QED
    BY <1>2, <1>3, <1>4, <1>5, TillMoves

\* The wait for a close ends: the session is still open, or it is gone.
LEMMA SaleWakes ==
    ASSUME RegisterInv, NEW k \in Tills, LookWoken(k)
    PROVE  RegisterInv'
<1> DEFINE s == till[k].ses
           found == [till[k] EXCEPT !.op = "selling"]
           gone == [till[k] EXCEPT !.op = "opening", !.ses = None]
<1>1. till[k] \in TillRow /\ TillKnows(till[k]) /\ till[k].op = "queued" /\ MayShare(s)
    BY TillFacts DEF LookWoken
<1>2. s \in Sessions /\ ses[s].st # "Not drawn" /\ ses[s].loc = till[k].loc /\ ~till[k].minted
      /\ till[k].bill = None
    BY <1>1 DEF TillKnows
<1>3. CASE ses[s].st = "Open"
  <2>1. /\ found \in TillRow
        /\ found.op = "selling" /\ found.ses = s /\ found.loc = till[k].loc /\ ~found.minted
        /\ found.bill = till[k].bill
    BY <1>1, <1>2 DEF TillRow
  <2>2. till' = [till EXCEPT ![k] = found] /\ UNCHANGED <<ses, bill, nextZ>>
    BY <1>3, TillFacts DEF LookWoken
  <2> HIDE DEF found
  <2>3. TillKnows(found)
    BY <1>2, <1>3, <2>1 DEF TillKnows, OpenFor, Closes
  <2>4. \A j \in Tills : j # k => Apart(found, till[j]) /\ Apart(till[j], found)
    BY <1>1, <1>2, <1>3, <2>1, SharingApart
  <2> QED
    BY <2>1, <2>2, <2>3, <2>4, TillMoves
<1>4. CASE ses[s].st # "Open"
  <2>1. /\ gone \in TillRow
        /\ gone.op = "opening" /\ gone.ses = None /\ ~gone.minted /\ gone.bill = till[k].bill
    BY <1>1, <1>2 DEF TillRow
  <2>2. till' = [till EXCEPT ![k] = gone] /\ UNCHANGED <<ses, bill, nextZ>>
    BY <1>4, TillFacts DEF LookWoken
  <2> HIDE DEF gone
  <2>3. gone.bill = None
    BY <1>1, <2>1 DEF TillKnows
  <2> QED
    BY <2>1, <2>2, <2>3, HoldsNothing, TillMoves
<1> QED
    BY <1>3, <1>4

LEMMA SaleFindsNone ==
    ASSUME RegisterInv, NEW k \in Tills, LookNone(k)
    PROVE  RegisterInv'
<1> DEFINE r == [till[k] EXCEPT !.op = "opening"]
<1>1. till[k] \in TillRow /\ TillKnows(till[k]) /\ till[k].op = "looking"
    BY TillFacts DEF LookNone
<1>2. r \in TillRow /\ r.op = "opening" /\ r.ses = None /\ r.bill = None /\ ~r.minted
    BY <1>1 DEF TillRow, TillKnows
<1>3. till' = [till EXCEPT ![k] = r] /\ UNCHANGED <<ses, bill, nextZ>>
    BY TillFacts DEF LookNone
<1> HIDE DEF r
<1> QED
    BY <1>2, <1>3, HoldsNothing, TillMoves

\* The insert: a session nobody knows, at an outlet that has none and where none is being put in.
LEMMA SaleMints ==
    ASSUME RegisterInv, NEW k \in Tills, NEW s \in Sessions, Mint(k, s)
    PROVE  RegisterInv'
<1> DEFINE r == [till[k] EXCEPT !.op = "selling", !.ses = s, !.minted = TRUE]
<1>1. till[k] \in TillRow /\ TillKnows(till[k]) /\ till[k].op = "opening"
    BY TillFacts DEF Mint
<1>2. /\ r \in TillRow
      /\ r.op = "selling" /\ r.ses = s /\ r.loc = till[k].loc /\ r.minted
      /\ r.bill = till[k].bill
    BY <1>1 DEF TillRow
<1>3. till' = [till EXCEPT ![k] = r] /\ UNCHANGED <<ses, bill, nextZ>>
    BY TillFacts DEF Mint
<1>4. OpenAt(till[k].loc) = {} /\ ses[s].st = "Not drawn"
    BY DEF Mint, Fresh
<1> HIDE DEF r
<1>5. TillKnows(r)
    BY <1>1, <1>2, <1>4 DEF TillKnows, Closes
<1>6. ASSUME NEW j \in Tills, j # k PROVE Apart(r, till[j]) /\ Apart(till[j], r)
  <2>1. TillKnows(till[j]) /\ Apart(till[j], till[k]) /\ Apart(till[k], till[j])
    BY <1>6, TillFacts
  <2>2. till[j].ses # s /\ (till[j].minted => till[j].loc # r.loc)
    BY <1>2 DEF Mint, Fresh, Minting
  <2> QED
    BY <1>2, <2>1, <2>2 DEF Apart, Closes
<1> QED
    BY <1>2, <1>3, <1>5, <1>6, TillMoves

\* Another till opened the session first: look again, unless this was the last pass.
LEMMA SaleLooksAgain ==
    ASSUME RegisterInv, NEW k \in Tills, MintConflict(k)
    PROVE  RegisterInv'
<1> DEFINE r == [till[k] EXCEPT !.op = "looking", !.pass = till[k].pass + 1]
<1>1. till[k] \in TillRow /\ TillKnows(till[k]) /\ till[k].op = "opening"
      /\ till[k].pass + 1 < Passes
    BY TillFacts DEF MintConflict
<1>2. till[k].pass + 1 \in 0..Passes - 1
  <2>1. till[k].pass \in 0..Passes - 1
    BY <1>1 DEF TillRow
  <2> QED
    BY <1>1, <2>1, PassAssumption
<1>3. r \in TillRow /\ r.op = "looking" /\ r.ses = None /\ r.bill = None /\ ~r.minted
    BY <1>1, <1>2 DEF TillRow, TillKnows
<1>4. till' = [till EXCEPT ![k] = r] /\ UNCHANGED <<ses, bill, nextZ>>
    BY TillFacts DEF MintConflict
<1> HIDE DEF r
<1> QED
    BY <1>3, <1>4, HoldsNothing, TillMoves

\* A transaction that ends without a commit leaves nothing behind.
LEMMA TillEnds ==
    ASSUME RegisterInv, NEW k \in Tills, GiveUp(k) \/ Rollback(k)
    PROVE  RegisterInv'
<1>1. till' = [till EXCEPT ![k] = Idle] /\ UNCHANGED <<ses, bill, nextZ>>
    BY DEF GiveUp, Rollback
<1> QED
    BY <1>1, IdleRow, HoldsNothing, TillMoves

-----------------------------------------------------------------------------
(* The void's statements.                                                  *)

LEMMA VoidTakesBill ==
    ASSUME RegisterInv, NEW k \in Tills, NEW b \in Bills, VoidBegin(k, b)
    PROVE  RegisterInv'
<1> DEFINE r == [Idle EXCEPT !.op = "bill held", !.bill = b]
<1>1. r \in TillRow /\ r.op = "bill held" /\ r.bill = b /\ r.ses = None /\ ~r.minted
    BY IdleRow DEF TillRow
<1>2. till' = [till EXCEPT ![k] = r] /\ UNCHANGED <<ses, bill, nextZ>>
    BY DEF VoidBegin
<1> HIDE DEF r
<1>3. TillKnows(r)
    BY <1>1 DEF TillKnows, Closes, VoidBegin
<1>4. ASSUME NEW j \in Tills, j # k PROVE Apart(r, till[j]) /\ Apart(till[j], r)
  <2>1. TillKnows(till[j]) /\ till[j].bill # b
    BY TillFacts DEF VoidBegin, BillFree
  <2>2. till[j].minted => till[j].ses # None
    BY <2>1, NoneAssumption DEF TillKnows
  <2> QED
    BY <1>1, <2>1, <2>2 DEF Apart, Closes
<1> QED
    BY <1>1, <1>2, <1>3, <1>4, TillMoves

LEMMA VoidHoldsSession ==
    ASSUME RegisterInv, NEW k \in Tills, HoldSession(k)
    PROVE  RegisterInv'
<1> DEFINE s == bill[till[k].bill].ses
           r == [till[k] EXCEPT !.op = "voiding", !.ses = s]
<1>1. till[k] \in TillRow /\ TillKnows(till[k]) /\ till[k].op = "bill held"
      /\ MayShare(s) /\ ses[s].st = "Open"
    BY TillFacts DEF HoldSession
<1>2. till[k].bill \in Bills /\ bill[till[k].bill].st = "Live" /\ ~till[k].minted
    BY <1>1 DEF TillKnows
<1>3. s \in Sessions
    BY <1>2 DEF RegisterInv, BillsStamped
<1>4. /\ r \in TillRow
      /\ r.op = "voiding" /\ r.ses = s /\ r.bill = till[k].bill /\ ~r.minted
    BY <1>1, <1>2, <1>3 DEF TillRow
<1>5. till' = [till EXCEPT ![k] = r] /\ UNCHANGED <<ses, bill, nextZ>>
    BY TillFacts DEF HoldSession
<1>6. bill[r.bill].ses = s
    BY <1>4
<1> HIDE DEF r, s
<1>7. TillKnows(r)
    BY <1>1, <1>2, <1>3, <1>4, <1>6 DEF TillKnows, Closes
<1>8. \A j \in Tills : j # k => Apart(r, till[j]) /\ Apart(till[j], r)
    BY <1>1, <1>3, <1>4, SharingApart
<1> QED
    BY <1>4, <1>5, <1>7, <1>8, TillMoves

-----------------------------------------------------------------------------
(* The close's statements.                                                 *)

LEMMA CloseTakes ==
    ASSUME RegisterInv, NEW k \in Tills, NEW o \in Outlets, NEW s \in Sessions, CloseTake(k, o, s)
    PROVE  RegisterInv'
<1> DEFINE r == [Idle EXCEPT !.op = "closing", !.loc = o, !.ses = s]
<1>1. r \in TillRow /\ r.op = "closing" /\ r.loc = o /\ r.ses = s /\ r.bill = None /\ ~r.minted
    BY IdleRow DEF TillRow
<1>2. till' = [till EXCEPT ![k] = r] /\ UNCHANGED <<ses, bill, nextZ>>
    BY DEF CloseTake
<1>3. ses[s].st = "Open" /\ ses[s].loc = o /\ MayUpdate(s)
    BY DEF CloseTake, OpenAt
<1> HIDE DEF r
<1>4. TillKnows(r)
    BY <1>1, <1>3 DEF TillKnows, OpenFor, Closes
<1>5. ASSUME NEW j \in Tills, j # k PROVE Apart(r, till[j]) /\ Apart(till[j], r)
  <2>1. TillKnows(till[j])
    BY TillFacts
  <2>2. till[j].op \in Closes \cup {"selling", "voiding"} => till[j].ses # s
    BY <1>3 DEF MayUpdate, Updates, Shares, Closes
  <2>3. till[j].minted => till[j].ses # s
    BY <1>3, <2>1 DEF TillKnows
  <2> QED
    BY <1>1, <2>1, <2>2, <2>3 DEF Apart, Closes
<1> QED
    BY <1>1, <1>2, <1>4, <1>5, TillMoves

\* A close that goes on to its next statement is as far apart from the others as it was.
LEMMA ClosingOnApart ==
    ASSUME RegisterInv, NEW k \in Tills, NEW r \in TillRow,
           till[k].op \in Closes, r.op \in Closes, r.ses = till[k].ses, r.bill = till[k].bill,
           r.minted = till[k].minted,
           r.op = "numbered" => \A j \in Tills : till[j].op # "numbered"
    PROVE  \A j \in Tills : j # k => Apart(r, till[j]) /\ Apart(till[j], r)
<1> SUFFICES ASSUME NEW j \in Tills, j # k PROVE Apart(r, till[j]) /\ Apart(till[j], r)
    OBVIOUS
<1>1. Apart(till[j], till[k]) /\ Apart(till[k], till[j]) /\ TillKnows(till[k])
    BY TillFacts
<1>2. ~r.minted
    BY <1>1 DEF TillKnows, Closes
<1> QED
    BY <1>1, <1>2 DEF Apart, Closes

LEMMA CloseReadsSold ==
    ASSUME RegisterInv, NEW k \in Tills, CloseReadSold(k)
    PROVE  RegisterInv'
<1> DEFINE sold == SoldIn(till[k].ses)
           r == [till[k] EXCEPT !.op = "sold read", !.sold = sold]
<1>1. till[k] \in TillRow /\ TillKnows(till[k]) /\ till[k].op = "closing" /\ till[k].op \in Closes
    BY TillFacts DEF CloseReadSold, Closes
<1>2. sold \in SUBSET Bills
    BY DEF SoldIn
<1>3. till' = [till EXCEPT ![k] = r] /\ UNCHANGED <<ses, bill, nextZ>>
    BY TillFacts DEF CloseReadSold
<1> HIDE DEF sold
<1>4. /\ r \in TillRow
      /\ r.op = "sold read" /\ r.ses = till[k].ses /\ r.loc = till[k].loc /\ r.bill = till[k].bill
      /\ r.minted = till[k].minted /\ r.sold = sold
    BY <1>1, <1>2 DEF TillRow
<1> HIDE DEF r
<1>5. TillKnows(r)
    BY <1>1, <1>4 DEF TillKnows, OpenFor, Closes, sold
<1>6. \A j \in Tills : j # k => Apart(r, till[j]) /\ Apart(till[j], r)
    BY <1>1, <1>4, ClosingOnApart DEF Closes
<1> QED
    BY <1>3, <1>4, <1>5, <1>6, TillMoves

\* lastZ: 0 before an outlet's first Z, and the greatest of its numbers after.
LEMMA LastZIsLatest ==
    ASSUME RegisterInv, NEW o
    PROVE  /\ LastZ(o) \in Nat
           /\ ClosedAt(o) = {} => LastZ(o) = 0
           /\ ClosedAt(o) # {} => \E t \in ClosedAt(o) :
                 /\ LastZ(o) = ses[t].z.zNo
                 /\ \A u \in ClosedAt(o) : ses[u].z.zNo <= ses[t].z.zNo
<1> DEFINE taken == {ses[s].z.zNo : s \in ClosedAt(o)}
<1>1. LastZ(o) = IF taken = {} THEN 0 ELSE CHOOSE n \in taken : \A m \in taken : m <= n
    BY DEF LastZ, ClosedAt
<1>2. \A s \in ClosedAt(o) : ses[s].z.zNo \in Nat
    BY DEF RegisterInv, TypeOK, SessionRow, ZRow, ClosedAt
<1>3. CASE ClosedAt(o) = {}
    BY <1>1, <1>3
<1>4. CASE ClosedAt(o) # {}
  <2>1. PICK t \in ClosedAt(o) : \A u \in ClosedAt(o) : ses[u].z.zNo <= ses[t].z.zNo
    BY <1>4 DEF RegisterInv, HasLatest, Closed, ClosedAt
  <2> DEFINE latest == CHOOSE n \in taken : \A m \in taken : m <= n
  <2>2. latest \in taken /\ \A m \in taken : m <= latest
    BY <2>1
  <2>3. PICK s \in ClosedAt(o) : latest = ses[s].z.zNo
    BY <2>2
  <2>4. LastZ(o) = latest
    BY <1>1, <2>1
  <2> HIDE DEF latest
  <2>5. \A u \in ClosedAt(o) : ses[u].z.zNo <= latest
    BY <2>2
  <2> QED
    BY <1>2, <1>4, <2>3, <2>4, <2>5
<1> QED
    BY <1>3, <1>4

LEMMA CloseReadsVoided ==
    ASSUME RegisterInv, NEW k \in Tills, CloseReadVoided(k)
    PROVE  RegisterInv'
<1> DEFINE voided == VoidedIn(till[k].ses)
           last == LastZ(till[k].loc)
           r == [till[k] EXCEPT !.op = "voided read", !.voided = voided, !.prev = last]
<1>1. till[k] \in TillRow /\ TillKnows(till[k]) /\ till[k].op = "sold read" /\ till[k].op \in Closes
    BY TillFacts DEF CloseReadVoided, Closes
<1>2. voided \in SUBSET Bills /\ last \in Nat
    BY LastZIsLatest DEF VoidedIn
<1>3. till' = [till EXCEPT ![k] = r] /\ UNCHANGED <<ses, bill, nextZ>>
    BY TillFacts DEF CloseReadVoided
<1> HIDE DEF voided, last
<1>4. /\ r \in TillRow
      /\ r.op = "voided read" /\ r.ses = till[k].ses /\ r.loc = till[k].loc /\ r.bill = till[k].bill
      /\ r.minted = till[k].minted /\ r.sold = till[k].sold /\ r.voided = voided /\ r.prev = last
    BY <1>1, <1>2 DEF TillRow
<1> HIDE DEF r
<1>5. TillKnows(r)
    BY <1>1, <1>4 DEF TillKnows, OpenFor, Closes, voided, last
<1>6. \A j \in Tills : j # k => Apart(r, till[j]) /\ Apart(till[j], r)
    BY <1>1, <1>4, ClosingOnApart DEF Closes
<1> QED
    BY <1>3, <1>4, <1>5, <1>6, TillMoves

LEMMA CloseDrawsNumber ==
    ASSUME RegisterInv, NEW k \in Tills, AllocateZ(k)
    PROVE  RegisterInv'
<1> DEFINE r == [till[k] EXCEPT !.op = "numbered", !.zNo = nextZ]
<1>1. till[k] \in TillRow /\ TillKnows(till[k]) /\ till[k].op = "voided read" /\ till[k].op \in Closes
    BY TillFacts DEF AllocateZ, Closes
<1>2. nextZ \in Nat
    BY DEF RegisterInv, TypeOK
<1>3. till' = [till EXCEPT ![k] = r] /\ UNCHANGED <<ses, bill, nextZ>>
    BY TillFacts DEF AllocateZ
<1>4. /\ r \in TillRow
      /\ r.op = "numbered" /\ r.ses = till[k].ses /\ r.loc = till[k].loc /\ r.bill = till[k].bill
      /\ r.minted = till[k].minted /\ r.sold = till[k].sold /\ r.voided = till[k].voided
      /\ r.prev = till[k].prev /\ r.zNo = nextZ
    BY <1>1, <1>2 DEF TillRow
<1> HIDE DEF r
<1>5. TillKnows(r)
    BY <1>1, <1>4 DEF TillKnows, OpenFor, Closes
<1>6. \A j \in Tills : j # k => Apart(r, till[j]) /\ Apart(till[j], r)
    BY <1>1, <1>4, ClosingOnApart DEF AllocateZ, Closes
<1> QED
    BY <1>3, <1>4, <1>5, <1>6, TillMoves

-----------------------------------------------------------------------------
(* The three commits.                                                      *)

\* The till that commits lets go of its locks; the others keep theirs.
LEMMA LocksLetGo ==
    ASSUME RegisterInv, NEW k \in Tills, till' = [till EXCEPT ![k] = Idle]
    PROVE  /\ till' \in [Tills -> TillRow] /\ TillsApart'
           /\ till'[k] = Idle
           /\ \A j \in Tills : j # k => till'[j] = till[j]
<1>1. till' \in [Tills -> TillRow] /\ till'[k] = Idle /\ \A j \in Tills : j # k => till'[j] = till[j]
    BY TillFacts, IdleRow
<1>2. \A j \in Tills : Apart(Idle, till[j]) /\ Apart(till[j], Idle)
    BY IdleRow, HoldsNothing
<1>3. ASSUME NEW j \in Tills, NEW l \in Tills, j # l PROVE Apart(till'[j], till'[l])
    BY <1>1, <1>2, <1>3, TillFacts
<1>4. TillsApart'
    BY <1>3 DEF TillsApart, Apart
<1> QED
    BY <1>1, <1>4

\* An idle till has read nothing that could go stale.
LEMMA IdleKnows == Idle.op = "idle" /\ Idle.ses = None /\ Idle.bill = None /\ ~Idle.minted
  BY IdleRow

LEMMA VoidCommits ==
    ASSUME RegisterInv, NEW k \in Tills, VoidCommit(k)
    PROVE  RegisterInv'
<1> DEFINE b == till[k].bill
           s == till[k].ses
<1>1. TillKnows(till[k]) /\ till[k].op = "voiding" /\ ses' = ses /\ nextZ' = nextZ
      /\ bill' = [bill EXCEPT ![b].st = "Voided"] /\ till' = [till EXCEPT ![k] = Idle]
    BY TillFacts DEF VoidCommit
<1>2. b \in Bills /\ bill[b].st = "Live" /\ bill[b].ses = s /\ s \in Sessions /\ ses[s].st = "Open"
    BY <1>1 DEF TillKnows
<1>3. bill \in [Bills -> BillRow] /\ bill[b] \in BillRow
    BY <1>2 DEF RegisterInv, TypeOK
<1>4. /\ bill' \in [Bills -> BillRow]
      /\ bill'[b].st = "Voided" /\ bill'[b].ses = s
      /\ \A c \in Bills : c # b => bill'[c] = bill[c]
    BY <1>1, <1>2, <1>3 DEF BillRow
<1> HIDE DEF b, s
<1>5. ASSUME NEW x, x # s PROVE SoldIn(x)' = SoldIn(x) /\ VoidedIn(x)' = VoidedIn(x)
    BY <1>2, <1>4, <1>5 DEF SoldIn, VoidedIn
<1>6. TypeOK' /\ TillsApart'
    BY <1>1, <1>4, LocksLetGo DEF RegisterInv, TypeOK
<1>7. \A o : OpenAt(o)' = OpenAt(o) /\ LastZ(o)' = LastZ(o)
  <2>1. ASSUME NEW o PROVE OpenAt(o)' = OpenAt(o)
    BY <1>1 DEF OpenAt
  <2>2. ASSUME NEW o PROVE LastZ(o)' = LastZ(o)
    BY <1>1 DEF LastZ
  <2> QED
    BY <2>1, <2>2
<1>8. ASSUME NEW j \in Tills PROVE TillKnows(till[j])'
  <2>1. CASE j = k
    BY <1>1, <2>1, LocksLetGo, IdleKnows DEF TillKnows, Closes
  <2>2. CASE j # k
    <3>1. till'[j] = till[j] /\ TillKnows(till[j])
      BY <1>1, <2>2, LocksLetGo, TillFacts
    <3>2. till[j].op \in Closes => till[j].ses # s
      BY <1>1, <2>2, TillFacts DEF Apart, s
    <3>3. till[j].op \in {"bill held", "voiding"} => till[j].bill # b
      BY <1>2, <2>2, TillFacts, NoneAssumption DEF Apart, b
    <3>4. ASSUME NEW t, TillKnows(t), t.op \in Closes => t.ses # s,
                 t.op \in {"bill held", "voiding"} => t.bill # b
          PROVE  TillKnows(t)'
      BY <1>1, <1>4, <1>5, <1>7, <3>4 DEF TillKnows, OpenFor, Closes
    <3> QED
      BY <3>1, <3>2, <3>3, <3>4
  <2> QED
    BY <2>1, <2>2
<1>9. BillsStamped' /\ OneOpen'
    BY <1>1, <1>2, <1>4 DEF RegisterInv, BillsStamped, OneOpen
<1>10. ZMatchesBills'
    BY <1>1, <1>2, <1>5 DEF RegisterInv, ZMatchesBills
<1>11. NumbersOnce' /\ NumbersUsed' /\ Chained' /\ HasLatest'
    BY <1>1, <1>6, SeriesKept DEF TypeOK
<1> QED
    BY <1>6, <1>8, <1>9, <1>10, <1>11 DEF RegisterInv, TillsKnow

LEMMA SaleCommits ==
    ASSUME RegisterInv, NEW k \in Tills, NEW b \in Bills, SaleCommit(k, b)
    PROVE  RegisterInv'
<1> DEFINE s == till[k].ses
           o == till[k].loc
           opened == [st |-> "Open", loc |-> o, z |-> NoZ]
           stamped == [st |-> "Live", ses |-> s]
<1>1. /\ till[k] \in TillRow /\ TillKnows(till[k]) /\ till[k].op = "selling"
      /\ nextZ' = nextZ /\ bill[b].st = "Not drawn"
      /\ bill' = [bill EXCEPT ![b] = stamped]
      /\ till' = [till EXCEPT ![k] = Idle]
      /\ ses' = IF till[k].minted THEN [ses EXCEPT ![s] = opened] ELSE ses
    BY TillFacts DEF SaleCommit
<1>2. /\ s \in Sessions
      /\ till[k].minted => ses[s].st = "Not drawn" /\ OpenAt(o) = {}
      /\ ~till[k].minted => ses[s].st = "Open" /\ ses[s].loc = o
    BY <1>1 DEF TillKnows, OpenFor
<1>3. /\ bill' \in [Bills -> BillRow]
      /\ bill'[b].st = "Live" /\ bill'[b].ses = s
      /\ \A c \in Bills : c # b => bill'[c] = bill[c]
    BY <1>1, <1>2 DEF RegisterInv, TypeOK, BillRow
<1>4. opened \in SessionRow
  <2>1. NoZ \in ZRow
    BY DEF NoZ, ZRow
  <2> QED
    BY <1>1, <2>1 DEF TillRow, SessionRow
<1>5. opened.st = "Open" /\ opened.loc = o
    OBVIOUS
<1> HIDE DEF s, o, opened, stamped
<1>6. /\ ses' \in [Sessions -> SessionRow]
      /\ ses'[s].st = "Open" /\ ses'[s].loc = o
      /\ \A x \in Sessions : x # s => ses'[x] = ses[x]
      /\ ~till[k].minted => ses' = ses
    BY <1>1, <1>2, <1>4, <1>5 DEF RegisterInv, TypeOK
<1>7. TypeOK' /\ TillsApart'
    BY <1>1, <1>3, <1>6, LocksLetGo DEF RegisterInv, TypeOK
<1>8. ASSUME NEW x, x # s PROVE SoldIn(x)' = SoldIn(x) /\ VoidedIn(x)' = VoidedIn(x)
    BY <1>1, <1>3, <1>8 DEF SoldIn, VoidedIn
<1>9. \A x \in Sessions : (ses[x].st = "Closed" <=> ses'[x].st = "Closed")
                            /\ (ses[x].st = "Closed" => ses'[x] = ses[x])
    BY <1>2, <1>6
<1>10. NumbersOnce' /\ NumbersUsed' /\ Chained' /\ HasLatest' /\ \A p : LastZ(p)' = LastZ(p)
    BY <1>1, <1>6, <1>9, SeriesKept
<1>11. ASSUME NEW j \in Tills PROVE TillKnows(till[j])'
  <2>1. CASE j = k
    BY <1>1, <2>1, LocksLetGo, IdleKnows DEF TillKnows, Closes
  <2>2. CASE j # k
    <3>1. till'[j] = till[j] /\ TillKnows(till[j]) /\ Apart(till[j], till[k]) /\ Apart(till[k], till[j])
      BY <1>1, <2>2, LocksLetGo, TillFacts
    <3>2. ASSUME NEW t, TillKnows(t), Apart(t, till[k]), Apart(till[k], t) PROVE TillKnows(t)'
      <4>1. t.op \in Closes => t.ses # s
        BY <1>1, <3>2 DEF Apart, s
      <4>2. t.minted => t.ses # s /\ OpenAt(t.loc)' = {}
        BY <1>2, <1>6, <3>2 DEF Apart, TillKnows, OpenAt, s, o
      <4>3. t.op \in {"bill held", "voiding"} => t.bill # b
        BY <1>1, <3>2 DEF TillKnows
      <4>4. t.ses \in Sessions /\ ses[t.ses].st # "Not drawn" => ses'[t.ses] = ses[t.ses]
        BY <1>2, <1>6
      <4>5. t.minted => ses'[t.ses] = ses[t.ses]
        BY <1>6, <3>2, <4>2 DEF TillKnows
      <4>6. t.bill \in Bills /\ t.bill # b => bill'[t.bill] = bill[t.bill]
        BY <1>3
      <4>7. t.op \in Closes => SoldIn(t.ses)' = SoldIn(t.ses) /\ VoidedIn(t.ses)' = VoidedIn(t.ses)
        BY <1>8, <4>1
      <4>8. LastZ(t.loc)' = LastZ(t.loc) /\ nextZ' = nextZ
        BY <1>1, <1>10
      <4> QED
        BY <3>2, <4>2, <4>3, <4>4, <4>5, <4>6, <4>7, <4>8 DEF TillKnows, OpenFor, Closes
    <3> QED
      BY <3>1, <3>2
  <2> QED
    BY <2>1, <2>2
<1>12. BillsStamped'
    BY <1>2, <1>3 DEF RegisterInv, BillsStamped
<1>13. OneOpen'
  <2>1. CASE ~till[k].minted
    BY <1>6, <2>1 DEF RegisterInv, OneOpen
  <2>2. CASE till[k].minted
    <3>1. \A x \in Sessions : ses[x].st = "Open" => ses[x].loc # o
      BY <1>2, <2>2 DEF OpenAt
    <3> QED
      BY <1>6, <3>1 DEF RegisterInv, OneOpen
  <2> QED
    BY <2>1, <2>2
<1>14. ZMatchesBills'
    BY <1>2, <1>8, <1>9 DEF RegisterInv, ZMatchesBills
<1> QED
    BY <1>7, <1>10, <1>11, <1>12, <1>13, <1>14 DEF RegisterInv, TillsKnow

\* The close puts its Z behind the session and the series grows by one.
LEMMA CloseWrites ==
    ASSUME RegisterInv, NEW k \in Tills, CloseCommit(k)
    PROVE  /\ till[k].ses \in Sessions /\ till[k].ses \notin Closed
           /\ ses[till[k].ses].st = "Open" /\ ses[till[k].ses].loc = till[k].loc
           /\ ses' \in [Sessions -> SessionRow]
           /\ ses'[till[k].ses].st = "Closed" /\ ses'[till[k].ses].loc = till[k].loc
           /\ ses'[till[k].ses].z.zNo = nextZ
           /\ ses'[till[k].ses].z.prev = LastZ(till[k].loc)
           /\ ses'[till[k].ses].z.sold = SoldIn(till[k].ses)
           /\ ses'[till[k].ses].z.voided = VoidedIn(till[k].ses)
           /\ \A x \in Sessions : x # till[k].ses => ses'[x] = ses[x]
           /\ nextZ \in Nat \ {0} /\ nextZ' = nextZ + 1
           /\ Closed' = Closed \cup {till[k].ses}
<1> DEFINE s == till[k].ses
           o == till[k].loc
           z == [zNo |-> till[k].zNo, prev |-> till[k].prev,
                 sold |-> till[k].sold, voided |-> till[k].voided]
<1>1. till[k] \in TillRow /\ TillKnows(till[k]) /\ till[k].op = "numbered"
    BY TillFacts DEF CloseCommit
<1>2. /\ s \in Sessions /\ ses[s].st = "Open" /\ ses[s].loc = o
      /\ till[k].sold = SoldIn(s) /\ till[k].voided = VoidedIn(s)
      /\ till[k].prev = LastZ(o) /\ till[k].zNo = nextZ
    BY <1>1 DEF TillKnows, OpenFor, Closes
<1>3. z \in ZRow /\ z.zNo = nextZ /\ z.prev = LastZ(o) /\ z.sold = SoldIn(s) /\ z.voided = VoidedIn(s)
    BY <1>1, <1>2 DEF TillRow, ZRow
<1>4. ses \in [Sessions -> SessionRow] /\ ses[s] \in SessionRow /\ nextZ \in Nat \ {0}
    BY <1>2 DEF RegisterInv, TypeOK
<1>5. ses' = [ses EXCEPT ![s].st = "Closed", ![s].z = z] /\ nextZ' = nextZ + 1
    BY <1>2 DEF CloseCommit
<1> HIDE DEF s, o, z
<1>6. /\ ses' \in [Sessions -> SessionRow]
      /\ ses'[s].st = "Closed" /\ ses'[s].loc = o /\ ses'[s].z = z
      /\ \A x \in Sessions : x # s => ses'[x] = ses[x]
    BY <1>2, <1>3, <1>4, <1>5 DEF SessionRow
<1>7. s \notin Closed /\ Closed' = Closed \cup {s}
    BY <1>2, <1>6 DEF Closed
<1> QED
    BY <1>2, <1>3, <1>4, <1>5, <1>6, <1>7 DEF s, o

\* The number is new, above every other, and the last one used.
LEMMA CloseNumbers ==
    ASSUME RegisterInv, NEW k \in Tills, CloseCommit(k)
    PROVE  NumbersOnce' /\ NumbersUsed'
<1> PICK s : s = till[k].ses
    OBVIOUS
<1> DEFINE no(x) == ses[x].z.zNo
<1>1. /\ s \in Sessions /\ s \notin Closed /\ Closed' = Closed \cup {s}
      /\ no(s)' = nextZ /\ nextZ \in Nat \ {0} /\ nextZ' = nextZ + 1
      /\ \A x \in Closed : no(x)' = no(x)
    BY CloseWrites DEF Closed
<1>2. \A x \in Closed : no(x) \in 1..(nextZ - 1)
    BY DEF RegisterInv, NumbersUsed
<1>3. NumbersOnce'
  <2>1. \A x, y \in Closed : no(x) = no(y) => x = y
    BY DEF RegisterInv, NumbersOnce
  <2>2. \A x \in Closed : no(x) # nextZ
    BY <1>1, <1>2
  <2> HIDE DEF no
  <2>3. \A x, y \in Closed' : no(x)' = no(y)' => x = y
    BY <1>1, <2>1, <2>2
  <2> QED
    BY <2>3 DEF NumbersOnce, no
<1>4. \A n \in 1..(nextZ - 1) : \E x \in Closed : no(x) = n
    BY DEF RegisterInv, NumbersUsed
<1>5. NumbersUsed'
  <2> HIDE DEF no
  <2>1. \A x \in Closed' : no(x)' \in 1..(nextZ' - 1)
    BY <1>1, <1>2
  <2>2. ASSUME NEW n \in 1..(nextZ' - 1) PROVE \E x \in Closed' : no(x)' = n
    <3>1. n = nextZ \/ n \in 1..(nextZ - 1)
      BY <1>1
    <3> QED
      BY <1>1, <1>4, <3>1
  <2> QED
    BY <2>1, <2>2 DEF NumbersUsed, no
<1> QED
    BY <1>3, <1>5

\* The new slip follows its outlet's latest; it comes before none.
LEMMA CloseChains ==
    ASSUME RegisterInv, NEW k \in Tills, CloseCommit(k)
    PROVE  Chained' /\ HasLatest'
<1> PICK s, o : s = till[k].ses /\ o = till[k].loc
    OBVIOUS
<1>1. /\ s \in Sessions /\ s \notin Closed /\ Closed' = Closed \cup {s} /\ ses'[s].loc = o
      /\ ses'[s].z.zNo = nextZ /\ ses'[s].z.prev = LastZ(o) /\ nextZ \in Nat \ {0}
      /\ \A x \in Closed : ses'[x] = ses[x]
    BY CloseWrites DEF Closed
<1>2. \A x \in Closed : ses[x].z.zNo \in Nat /\ ses[x].z.zNo < nextZ
  <2>1. \A x \in Closed : ses[x].z.zNo \in 1..(nextZ - 1)
    BY DEF RegisterInv, NumbersUsed
  <2> QED
    BY <1>1, <2>1
<1>3. ClosedAt(o) = {t \in Closed : ses[t].loc = o}
    BY DEF ClosedAt, Closed
<1>4. Before(s)' = ClosedAt(o)
  <2>1. Before(s)' = {t \in Closed' : ses'[t].loc = o /\ ses'[t].z.zNo < nextZ}
    BY <1>1 DEF Before
  <2>2. ~(nextZ < nextZ)
    BY <1>1
  <2>3. ASSUME NEW x PROVE x \in Before(s)' <=> x \in ClosedAt(o)
    BY <1>1, <1>2, <1>3, <2>1, <2>2
  <2> QED
    BY <2>1, <2>3, <1>3
<1>5. Follows(s)'
  <2>1. CASE ClosedAt(o) = {}
    BY <1>1, <1>4, <2>1, LastZIsLatest DEF Follows
  <2>2. CASE ClosedAt(o) # {}
    <3>1. PICK t \in ClosedAt(o) : LastZ(o) = ses[t].z.zNo /\ \A u \in ClosedAt(o) : ses[u].z.zNo <= ses[t].z.zNo
      BY <2>2, LastZIsLatest
    <3>2. \A u \in ClosedAt(o) : ses'[u] = ses[u]
      BY <1>1, <1>3
    <3> QED
      BY <1>1, <1>4, <2>2, <3>1, <3>2 DEF Follows
  <2> QED
    BY <2>1, <2>2
<1>6. ASSUME NEW x \in Closed PROVE Follows(x)'
  <2>1. Before(x)' = Before(x)
    <3>1. ~(nextZ < ses[x].z.zNo)
      BY <1>1, <1>2
    <3>2. Before(x)' = {t \in Closed \cup {s} : ses'[t].loc = ses[x].loc /\ ses'[t].z.zNo < ses[x].z.zNo}
      BY <1>1 DEF Before
    <3> QED
      BY <1>1, <3>1, <3>2 DEF Before
  <2>2. Before(x) \subseteq Closed /\ Follows(x)
    BY DEF Before, RegisterInv, Chained
  <2> QED
    BY <1>1, <2>1, <2>2 DEF Follows
<1>7. ASSUME NEW x \in Closed'
      PROVE  \E t \in ClosedAt(ses[x].loc)' :
                 \A u \in ClosedAt(ses[x].loc)' : ses'[u].z.zNo <= ses'[t].z.zNo
  <2>1. ClosedAt(ses[x].loc)' = {t \in Closed \cup {s} : ses'[t].loc = ses'[x].loc}
    BY <1>1 DEF ClosedAt, Closed
  <2>2. CASE ses'[x].loc = o
    <3>1. s \in ClosedAt(ses[x].loc)'
      BY <1>1, <2>1, <2>2
    <3>2. \A u \in Closed \cup {s} : ses'[u].z.zNo <= nextZ
      BY <1>1, <1>2
    <3> QED
      BY <1>1, <2>1, <3>1, <3>2
  <2>3. CASE ses'[x].loc # o
    <3>1. x \in Closed /\ ses'[x] = ses[x]
      BY <1>1, <2>3
    <3>2. ClosedAt(ses[x].loc)' = ClosedAt(ses[x].loc) /\ ClosedAt(ses[x].loc) \subseteq Closed
      BY <1>1, <2>1, <2>3, <3>1 DEF ClosedAt, Closed
    <3>3. PICK t \in ClosedAt(ses[x].loc) : \A u \in ClosedAt(ses[x].loc) : ses[u].z.zNo <= ses[t].z.zNo
      BY <3>1 DEF RegisterInv, HasLatest
    <3> QED
      BY <1>1, <3>2, <3>3
  <2> QED
    BY <2>2, <2>3
<1> QED
    BY <1>1, <1>5, <1>6, <1>7 DEF Chained, HasLatest

\* What another transaction has read survives the close: it works in other sessions, and a close
\* that has read its predecessor is of another outlet.
LEMMA CloseLeavesOthers ==
    ASSUME RegisterInv, NEW k \in Tills, CloseCommit(k), NEW t,
           TillKnows(t), Apart(till[k], t), Apart(t, till[k])
    PROVE  TillKnows(t)'
<1> DEFINE s == till[k].ses
           o == till[k].loc
<1>1. till[k].op = "numbered" /\ bill' = bill
    BY DEF CloseCommit
<1>2. /\ s \in Sessions /\ ses[s].st = "Open" /\ ses[s].loc = o
      /\ ses'[s].st = "Closed" /\ ses'[s].loc = o
      /\ \A x \in Sessions : x # s => ses'[x] = ses[x]
    BY CloseWrites
<1>3. /\ t.op \in Closes \cup {"selling", "voiding"} => t.ses # s
      /\ t.op # "numbered"
    BY <1>1 DEF Apart, Closes
<1> HIDE DEF s, o
<1>4. t.ses \in Sessions /\ t.ses # s => ses'[t.ses] = ses[t.ses]
    BY <1>2
<1>5. t.minted => t.op = "selling" /\ t.ses \in Sessions /\ t.ses # s /\ OpenAt(t.loc)' = {}
    BY <1>2, <1>3 DEF TillKnows, OpenAt
<1>6. t.op = "queued" =>
          t.ses \in Sessions /\ ses'[t.ses].st # "Not drawn" /\ ses'[t.ses].loc = t.loc
    BY <1>2, <1>4 DEF TillKnows
<1>7. \A x : SoldIn(x)' = SoldIn(x) /\ VoidedIn(x)' = VoidedIn(x)
    BY <1>1 DEF SoldIn, VoidedIn
<1>8. t.op \in Closes => LastZ(t.loc)' = LastZ(t.loc)
  <2> SUFFICES ASSUME t.op \in Closes PROVE LastZ(t.loc)' = LastZ(t.loc)
    OBVIOUS
  <2>1. t.loc # o
    BY <1>2, <1>3 DEF TillKnows, OpenFor, RegisterInv, OneOpen
  <2> DEFINE there == {x \in Sessions : ses[x].st = "Closed" /\ ses[x].loc = t.loc}
             taken == {ses[x].z.zNo : x \in there}
  <2>2. there' = there /\ \A x \in there : ses'[x] = ses[x]
    BY <1>2, <2>1
  <2>3. LastZ(t.loc) = IF taken = {} THEN 0 ELSE CHOOSE n \in taken : \A m \in taken : m <= n
    BY DEF LastZ
  <2>4. LastZ(t.loc)' = IF taken' = {} THEN 0 ELSE CHOOSE n \in taken' : \A m \in taken' : m <= n
    BY DEF LastZ
  <2>5. taken' = {ses'[x].z.zNo : x \in there'}
    OBVIOUS
  <2> HIDE DEF there
  <2>6. taken' = taken
    BY <2>2, <2>5
  <2> HIDE DEF taken
  <2> QED
    BY <2>3, <2>4, <2>6
<1> QED
    BY <1>1, <1>3, <1>4, <1>5, <1>6, <1>7, <1>8 DEF TillKnows, OpenFor, Closes

LEMMA CloseCommits ==
    ASSUME RegisterInv, NEW k \in Tills, CloseCommit(k)
    PROVE  RegisterInv'
<1> DEFINE s == till[k].ses
           o == till[k].loc
<1>1. till[k].op = "numbered" /\ bill' = bill /\ till' = [till EXCEPT ![k] = Idle]
    BY DEF CloseCommit
<1>2. /\ s \in Sessions /\ ses[s].st = "Open" /\ ses[s].loc = o
      /\ ses' \in [Sessions -> SessionRow]
      /\ ses'[s].st = "Closed" /\ ses'[s].loc = o
      /\ ses'[s].z.sold = SoldIn(s) /\ ses'[s].z.voided = VoidedIn(s)
      /\ \A x \in Sessions : x # s => ses'[x] = ses[x]
      /\ nextZ \in Nat \ {0} /\ nextZ' = nextZ + 1
    BY CloseWrites
<1>3. TypeOK' /\ TillsApart'
  <2>1. nextZ' \in Nat \ {0}
    BY <1>2
  <2> QED
    BY <1>1, <1>2, <2>1, LocksLetGo DEF RegisterInv, TypeOK
<1>4. ASSUME NEW j \in Tills PROVE TillKnows(till[j])'
  <2>1. CASE j = k
    BY <1>1, <2>1, LocksLetGo, IdleKnows DEF TillKnows, Closes
  <2>2. CASE j # k
    <3>1. till'[j] = till[j] /\ TillKnows(till[j]) /\ Apart(till[j], till[k]) /\ Apart(till[k], till[j])
      BY <1>1, <2>2, LocksLetGo, TillFacts
    <3>2. \A t : TillKnows(t) /\ Apart(till[k], t) /\ Apart(t, till[k]) => TillKnows(t)'
      BY CloseLeavesOthers
    <3> QED
      BY <3>1, <3>2
  <2> QED
    BY <2>1, <2>2
<1>5. BillsStamped' /\ OneOpen'
    BY <1>1, <1>2 DEF RegisterInv, BillsStamped, OneOpen
<1>6. ZMatchesBills'
  <2>1. \A x : SoldIn(x)' = SoldIn(x) /\ VoidedIn(x)' = VoidedIn(x)
    BY <1>1 DEF SoldIn, VoidedIn
  <2> QED
    BY <1>2, <2>1 DEF RegisterInv, ZMatchesBills
<1>7. NumbersOnce' /\ NumbersUsed' /\ Chained' /\ HasLatest'
    BY CloseNumbers, CloseChains
<1> QED
    BY <1>3, <1>4, <1>5, <1>6, <1>7 DEF RegisterInv, TillsKnow

-----------------------------------------------------------------------------
(* The steps together.                                                     *)

LEMMA StepRegister == RegisterInv /\ [Next]_vars => RegisterInv'
<1> SUFFICES ASSUME RegisterInv, [Next]_vars PROVE RegisterInv'
    OBVIOUS
<1>1. CASE UNCHANGED vars
  <2>1. ses' = ses /\ bill' = bill /\ nextZ' = nextZ /\ till' = till
    BY <1>1 DEF vars
  <2>2. ASSUME NEW t PROVE TillKnows(t)' <=> TillKnows(t)
    BY <2>1 DEF TillKnows, OpenFor, OpenAt, SoldIn, VoidedIn, LastZ
  <2>3. NumbersOnce' /\ NumbersUsed' /\ Chained' /\ HasLatest'
    BY <2>1, SeriesKept DEF RegisterInv, TypeOK
  <2>4. TillsKnow'
    BY <2>1, <2>2 DEF RegisterInv, TillsKnow
  <2>5. TypeOK' /\ TillsApart' /\ BillsStamped' /\ OneOpen'
    BY <2>1 DEF RegisterInv, TypeOK, TillsApart, Apart, BillsStamped, OneOpen
  <2>6. ZMatchesBills'
    BY <2>1 DEF RegisterInv, ZMatchesBills, SoldIn, VoidedIn
  <2> QED
    BY <2>3, <2>4, <2>5, <2>6 DEF RegisterInv
<1>2. ASSUME NEW k \in Tills, SaleStep(k) PROVE RegisterInv'
    BY <1>2, SaleBegins, SaleFindsOpen, SaleQueues, SaleWakes, SaleFindsNone, SaleMints,
       SaleLooksAgain, TillEnds, SaleCommits DEF SaleStep
<1>3. ASSUME NEW k \in Tills, VoidStep(k) PROVE RegisterInv'
    BY <1>3, VoidTakesBill, VoidHoldsSession, VoidCommits DEF VoidStep
<1>4. ASSUME NEW k \in Tills, CloseStep(k) PROVE RegisterInv'
    BY <1>4, CloseTakes, CloseReadsSold, CloseReadsVoided, CloseDrawsNumber, CloseCommits DEF CloseStep
<1>5. ASSUME NEW k \in Tills, Rollback(k) PROVE RegisterInv'
    BY <1>5, TillEnds
<1> QED
    BY <1>1, <1>2, <1>3, <1>4, <1>5 DEF Next

\* What each statement of a transaction relies on holds in every state: what it read under its
\* locks (lib/register.ts, modules/register/service.ts) is still so when it commits.
THEOREM RegisterInvariant == Spec => []RegisterInv
<1> QED
    BY InitRegister, StepRegister, PTL DEF Spec

\* Types, among them that a sale's hunt for a session ends within Passes looks (sessionFor).
THEOREM RegisterTypes == Spec => []TypeOK
<1>1. RegisterInv => TypeOK
    BY DEF RegisterInv
<1> QED
    BY <1>1, RegisterInvariant, PTL

\* One open session at an outlet, whatever sales race to open it and whatever closes intervene:
\* the insert on conflict do nothing of sessionFor.
THEOREM OneSessionAtATime == Spec => []OneOpenSession
<1>1. RegisterInv => OneOpenSession
    BY DEF RegisterInv, OneOpen, OneOpenSession, OpenAt
<1> QED
    BY <1>1, RegisterInvariant, PTL

\* A closed session's Z is what its bills say ever after: closeRegister's FOR UPDATE against the
\* FOR SHARE of sessionFor and holdOpenSession.
THEOREM ZStaysTrue == Spec => []ZMatchesBills
<1>1. RegisterInv => ZMatchesBills
    BY DEF RegisterInv
<1> QED
    BY <1>1, RegisterInvariant, PTL

\* The Z series has no gap and no repeat, and each outlet's slips chain: allocateId holds the
\* sequence row to the commit, and lastZ is read under the session's lock.
THEOREM ZSeriesGapless == Spec => []ZNumbersGapless
<1>1. ASSUME RegisterInv PROVE ZNumbersGapless
  <2>1. NumbersOnce /\ NumbersUsed /\ Chained
    BY <1>1 DEF RegisterInv
  <2>2. {ses[s].z.zNo : s \in Closed} = 1..(nextZ - 1)
    BY <2>1 DEF NumbersUsed
  <2>3. \A s, t \in Closed : ses[s].z.zNo = ses[t].z.zNo => s = t
    BY <2>1 DEF NumbersOnce
  <2>4. \A s \in Closed : Follows(s)
    BY <2>1 DEF Chained
  <2> QED
    BY <2>2, <2>3, <2>4 DEF ZNumbersGapless, Follows, Before
<1> QED
    BY <1>1, RegisterInvariant, PTL
=============================================================================
