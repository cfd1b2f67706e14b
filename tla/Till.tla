------------------------------- MODULE Till -------------------------------
(* The till of one counter in one browser (store/till.ts) and the Pos       *)
(* screen that works it: up to MAX_OPEN_BILLS bills side by side, each held *)
(* in the browser until the server has answered its Pay (store/index.ts     *)
(* pay). The answer arrives whenever it arrives: meanwhile the operator     *)
(* switches bills, scans on, leaves the screen, or signs out, and the next  *)
(* operator signs in at the same keyboard. A line is a count of scans.      *)
EXTENDS Naturals, Sequences, FiniteSets, SequencesExt

CONSTANTS
    Cashiers,        \* operators of this counter
    MAX_OPEN_BILLS,  \* open bills a till may hold
    MaxBills,        \* bills begun
    MaxLines,        \* scans on a bill
    MaxPays          \* Pay presses whose answer is still out

ASSUME TillBounds ==
    /\ MAX_OPEN_BILLS \in Nat \ {0}
    /\ MaxBills \in Nat /\ MaxLines \in Nat /\ MaxPays \in Nat

VARIABLES
    atTill,   \* who the tab is signed in as, and whether the Pos screen is up
    till,     \* the open bills, oldest first, and the id of the one on screen
    tillSeq,  \* the module's counter behind fresh ids
    begun,    \* bills begun so far: tells apart two bills that got the same id
    paying,   \* the screen's own set of bills whose Pay is out
    pays,     \* the Pay calls that are out
    taken     \* bills the server took, one entry per sale

tillVars == <<atTill, till, tillSeq, begun, paying, pays, taken>>

NoOne == "no one"

\* blankBill; `key` and `by` are history: which bill this really is, and whose.
BlankBill(id, n, key) == [id |-> id, n |-> n, lines |-> 0, key |-> key, by |-> NoOne]

\* freshTill: one empty bill whose id is always the same.
FreshTill(key) == [bills |-> <<BlankBill(1, 1, key)>>, active |-> 1]

TillInit ==
    /\ atTill = [who |-> NoOne, pos |-> FALSE]
    /\ till = FreshTill(1)
    /\ tillSeq = 1 /\ begun = 1
    /\ paying = {} /\ pays = {} /\ taken = <<>>

BillIds == {till.bills[i].id : i \in DOMAIN till.bills}
ActiveBill == till.bills[CHOOSE i \in DOMAIN till.bills : till.bills[i].id = till.active]

\* editActive: the bill on screen is rewritten in place.
EditActive(lines, by) ==
    till' = [till EXCEPT !.bills =
               [i \in DOMAIN @ |-> IF @[i].id = till.active THEN [@[i] EXCEPT !.lines = lines, !.by = by] ELSE @[i]]]

AtPos == atTill.pos

-----------------------------------------------------------------------------
(* The operator.                                                           *)

TillSignIn(w) ==
    /\ atTill.who = NoOne
    /\ atTill' = [who |-> w, pos |-> FALSE]
    /\ UNCHANGED <<till, tillSeq, begun, paying, pays, taken>>

\* logout: tills is emptied, so the next read of it is a fresh till. The screen unmounts.
TillSignOut ==
    /\ atTill.who # NoOne
    /\ begun < MaxBills
    /\ atTill' = [who |-> NoOne, pos |-> FALSE]
    /\ till' = FreshTill(begun + 1)
    /\ begun' = begun + 1
    /\ paying' = {}
    /\ UNCHANGED <<tillSeq, pays, taken>>

\* onSessionLost: user and auth go, the tills stay.
TillSessionLost ==
    /\ atTill.who # NoOne
    /\ atTill' = [who |-> NoOne, pos |-> FALSE]
    /\ paying' = {}
    /\ UNCHANGED <<till, tillSeq, begun, pays, taken>>

\* The route changes: Pos mounts with a paying set of its own, or unmounts with it.
OpenPos ==
    /\ atTill.who # NoOne /\ ~AtPos
    /\ atTill' = [atTill EXCEPT !.pos = TRUE]
    /\ paying' = {}
    /\ UNCHANGED <<till, tillSeq, begun, pays, taken>>

LeavePos ==
    /\ AtPos
    /\ atTill' = [atTill EXCEPT !.pos = FALSE]
    /\ paying' = {}
    /\ UNCHANGED <<till, tillSeq, begun, pays, taken>>

AddToCart ==
    /\ AtPos
    /\ ActiveBill.lines < MaxLines
    /\ EditActive(ActiveBill.lines + 1, atTill.who)
    /\ UNCHANGED <<atTill, tillSeq, begun, paying, pays, taken>>

ClearCart ==
    /\ AtPos /\ ActiveBill.lines > 0
    /\ EditActive(0, ActiveBill.by)
    /\ UNCHANGED <<atTill, tillSeq, begun, paying, pays, taken>>

\* The lowest tab number no other open bill is using.
LowestFree(bills) ==
    CHOOSE n \in 1..(Len(bills) + 1) :
        /\ \A i \in DOMAIN bills : bills[i].n # n
        /\ \A m \in 1..(n - 1) : \E i \in DOMAIN bills : bills[i].n = m

NewBill ==
    /\ AtPos
    /\ Len(till.bills) < MAX_OPEN_BILLS
    /\ begun < MaxBills
    /\ tillSeq' = tillSeq + 1
    /\ begun' = begun + 1
    /\ till' = [bills |-> Append(till.bills, BlankBill(tillSeq + 1, LowestFree(till.bills), begun + 1)),
                active |-> tillSeq + 1]
    /\ UNCHANGED <<atTill, paying, pays, taken>>

SwitchBill(id) ==
    /\ AtPos /\ id \in BillIds \ {till.active}
    /\ till' = [till EXCEPT !.active = id]
    /\ UNCHANGED <<atTill, tillSeq, begun, paying, pays, taken>>

\* withoutBill: the last one going leaves a fresh one; the one before the active one comes up.
\* Open bills never share an id (TillHoldsTogether), so its filter takes out the one it found.
WithoutBill(id) ==
    LET at == CHOOSE i \in DOMAIN till.bills : till.bills[i].id = id
        rest == RemoveAt(till.bills, at)
        up == rest[IF at > 1 THEN at - 1 ELSE 1].id
    IN \/ id \notin BillIds /\ UNCHANGED <<till, tillSeq, begun>>
       \/ /\ id \in BillIds /\ rest = <<>>
          /\ till' = [bills |-> <<BlankBill(tillSeq + 1, 1, begun + 1)>>, active |-> tillSeq + 1]
          /\ tillSeq' = tillSeq + 1 /\ begun' = begun + 1
       \/ /\ id \in BillIds /\ rest # <<>>
          /\ till' = [bills |-> rest, active |-> IF till.active = id THEN up ELSE till.active]
          /\ UNCHANGED <<tillSeq, begun>>

\* The × of the active chip, disabled while that bill's Pay is out (as far as the screen knows).
DiscardBill ==
    /\ AtPos /\ begun < MaxBills
    /\ till.active \notin paying
    /\ Len(till.bills) > 1 \/ ActiveBill.lines > 0
    /\ WithoutBill(till.active)
    /\ UNCHANGED <<atTill, paying, pays, taken>>

-----------------------------------------------------------------------------
(* Paying.                                                                 *)

\* takeBill and pay up to the await: the button is off for an empty bill and for one it is paying.
PayPressed ==
    /\ AtPos
    /\ ActiveBill.lines > 0 /\ till.active \notin paying
    /\ Cardinality(pays) < MaxPays
    /\ paying' = paying \cup {till.active}
    /\ pays' = pays \cup {[id |-> till.active, key |-> ActiveBill.key, lines |-> ActiveBill.lines,
                           done |-> FALSE, try |-> Len(taken) + Cardinality(pays)]}
    /\ UNCHANGED <<atTill, till, tillSeq, begun, taken>>

\* POST /bills commits; the answer is on its way.
ServerTakes(p) ==
    /\ p \in pays /\ ~p.done
    /\ taken' = Append(taken, p.key)
    /\ pays' = (pays \ {p}) \cup {[p EXCEPT !.done = TRUE]}
    /\ UNCHANGED <<atTill, till, tillSeq, begun, paying>>

\* Refused, or the call never reached the server: the bill stays as it was set up.
PayRefused(p) ==
    /\ p \in pays /\ ~p.done
    /\ pays' = pays \ {p}
    /\ paying' = paying \ {p.id}
    /\ UNCHANGED <<atTill, till, tillSeq, begun, taken>>

PayAnsweredActive(p) ==
    /\ p \in pays /\ p.done /\ begun < MaxBills
    /\ pays' = pays \ {p}
    /\ WithoutBill(till.active)
    /\ paying' = paying \ {p.id}
    /\ UNCHANGED <<atTill, taken>>

\* The answer: the bill that was pressed comes off the till, whatever is on screen by now.
PayAnswered(p) ==
    /\ p \in pays /\ p.done /\ begun < MaxBills
    /\ pays' = pays \ {p}
    /\ WithoutBill(p.id)
    /\ paying' = paying \ {p.id}
    /\ UNCHANGED <<atTill, taken>>

TillNext ==
    \/ (\E w \in Cashiers : TillSignIn(w)) \/ TillSignOut \/ TillSessionLost
    \/ OpenPos \/ LeavePos
    \/ AddToCart \/ ClearCart \/ NewBill \/ DiscardBill
    \/ (\E id \in BillIds : SwitchBill(id))
    \/ PayPressed
    \/ (\E p \in pays : ServerTakes(p) \/ PayRefused(p) \/ PayAnswered(p))

TillSpec == TillInit /\ [][TillNext]_tillVars

-----------------------------------------------------------------------------
(* Properties.                                                             *)

\* Whatever is paid, discarded or begun, and in whatever order the answers land, the till shows
\* one of its own bills and no two open tabs carry the same number (till.ts withoutBill, newBill).
TillHoldsTogether ==
    /\ till.bills # <<>> /\ Len(till.bills) <= MAX_OPEN_BILLS
    /\ till.active \in BillIds
    /\ \A i, j \in DOMAIN till.bills :
         i # j => till.bills[i].n # till.bills[j].n /\ till.bills[i].id # till.bills[j].id

Keys(t) == {t.bills[i].key : i \in DOMAIN t.bills}

\* A scanned bill goes when it was sold, thrown away on the screen that shows it or signed out
\* with - not because the answer to another bill's Pay arrived (store/index.ts pay).  Two bills of
\* two operators may share the id freshTill gives: an answer that outlives its operator is left
\* to SurvivesTheLastOperator.
SoldOrThrownAway ==
    [][\A i \in DOMAIN till.bills :
          LET b == till.bills[i]
          IN b.lines > 0 /\ b.key \notin Keys(till') =>
                \/ b.key \in ToSet(taken)
                \/ DiscardBill /\ b.id = till.active
                \/ TillSignOut
                \/ \E p \in pays \ pays' : p.id = b.id /\ p.key # b.key]_tillVars

\* "One tap, one bill" (Pos.tsx): a bill is never sold twice.
OneTapOneBill == \A i, j \in DOMAIN taken : taken[i] = taken[j] => i = j

\* The bills on a till are those of the operator standing at it (store/index.ts logout).
HeldBillsAreMine ==
    atTill.who # NoOne => \A i \in DOMAIN till.bills : till.bills[i].by \in {NoOne, atTill.who}

\* A sale's late answer never takes the next operator's bill (till.ts freshTill).
SurvivesTheLastOperator ==
    [][\A p \in pays \ pays' : \A i \in DOMAIN till.bills :
          LET b == till.bills[i]
          IN p.id = b.id /\ p.key # b.key => b.key \in Keys(till')]_tillVars
=============================================================================
