------------------------- MODULE StockMovementProofs -------------------------
(***************************************************************************)
(* Proofs about StockMovement, for every set of outlets, items and         *)
(* documents and every bound: types; that a hold lives exactly as long as  *)
(* its ticket is issued, that no shelf is promised past its balance, and   *)
(* so that a handover always finds what its ticket lists; that a document  *)
(* and its ticket tell one story and no document is supplied twice; that a *)
(* closed outlet stays idle; that scans neither make nor lose stock; and   *)
(* that all of it implements Shelf.                                        *)
(***************************************************************************)
EXTENDS StockMovement, FiniteSetTheorems, TLAPS

\* A set of held units is finite, so counting it gives a natural number.
LEMMA UnitsAreCounted ==
    ASSUME NEW S \in SUBSET (Tickets \X (1..MaxQty))
    PROVE  IsFiniteSet(S) /\ Cardinality(S) \in Nat
<1>1. IsFiniteSet(1..MaxQty)
  BY FS_Interval, BoundAssumption
<1>2. IsFiniteSet(Tickets \X (1..MaxQty))
  BY <1>1, FS_Product, TicketAssumption
<1>3. IsFiniteSet(S)
  BY <1>2, FS_Subset
<1> QED
  BY <1>3, FS_CardinalityType

\* One ticket's hold of q is q units.
LEMMA UnitsOfOneTicket ==
    ASSUME NEW t \in Tickets, NEW q \in 0..MaxQty
    PROVE  /\ IsFiniteSet({t} \X (1..q))
           /\ Cardinality({t} \X (1..q)) = q
           /\ {t} \X (1..q) \in SUBSET (Tickets \X (1..MaxQty))
<1>0. MaxQty \in Nat /\ q \in Nat
  BY BoundAssumption
<1>1. IsFiniteSet(1..q) /\ Cardinality(1..q) = q
  <2>1. IsFiniteSet(1..q) /\ Cardinality(1..q) = IF 1 > q THEN 0 ELSE q - 1 + 1
    BY <1>0, FS_Interval
  <2> QED
    BY <2>1, <1>0
<1>2. IsFiniteSet({t}) /\ Cardinality({t}) = 1
  BY FS_Singleton
<1>3. Cardinality({t} \X (1..q)) = Cardinality({t}) * Cardinality(1..q)
  BY <1>1, <1>2, FS_Product
<1>4. IsFiniteSet({t} \X (1..q))
  BY <1>1, <1>2, FS_Product
<1>5. {t} \X (1..q) \in SUBSET (Tickets \X (1..MaxQty))
  BY <1>0
<1> QED
  BY <1>0, <1>1, <1>2, <1>3, <1>4, <1>5

\* reservedAt answers a natural number on every shelf, before and after a step.
LEMMA HeldIsNat ==
    ASSUME NEW l, NEW i
    PROVE  /\ HeldUnits(l, i) \in SUBSET (Tickets \X (1..MaxQty))
           /\ HeldUnits(l, i)' \in SUBSET (Tickets \X (1..MaxQty))
           /\ Held(l, i) \in Nat
           /\ Held(l, i)' \in Nat
<1>1. /\ HeldUnits(l, i) \in SUBSET (Tickets \X (1..MaxQty))
      /\ HeldUnits(l, i)' \in SUBSET (Tickets \X (1..MaxQty))
  BY DEF HeldUnits
<1> QED
  BY <1>1, UnitsAreCounted DEF Held

\* A step that leaves every hold and every ticket's shelf alone leaves what is held alone.
LEMMA HeldUnchanged ==
    ASSUME rsv' = rsv, \A t \in Tickets : tkt'[t].from = tkt[t].from, NEW l, NEW i
    PROVE  Held(l, i)' = Held(l, i)
<1>1. HeldUnits(l, i)' = HeldUnits(l, i)
  BY DEF HeldUnits
<1> QED
  BY <1>1 DEF Held

\* Writing a ticket adds its lines to what is held at its shelf and nowhere else.
LEMMA HeldAfterWrite ==
    ASSUME TypeOK, NEW t \in Tickets, NEW refType, NEW ref, NEW from, NEW to, NEW q \in Lines,
           rsv[t] = Nothing, WriteTicket(t, refType, ref, from, to, q),
           NEW l, NEW i \in Items
    PROVE  Held(l, i)' = IF l = from THEN Held(l, i) + q[i] ELSE Held(l, i)
<1> DEFINE Own == {t} \X (1..q[i])
<1>0. /\ MaxQty \in Nat /\ q[i] \in 0..MaxQty
      /\ rsv[t][i] = 0 /\ rsv' = [rsv EXCEPT ![t] = q] /\ rsv \in [Tickets -> Lines]
      /\ \A u \in Tickets : u # t => tkt'[u] = tkt[u]
      /\ tkt'[t].from = from
  BY BoundAssumption DEF TypeOK, Lines, Nothing, WriteTicket
<1>1. HeldUnits(l, i) \cap Own = {}
  BY <1>0 DEF HeldUnits
<1>2. CASE l = from
  <2>1. HeldUnits(l, i)' = HeldUnits(l, i) \cup Own
    BY <1>0, <1>2 DEF HeldUnits, Lines
  <2>2. IsFiniteSet(HeldUnits(l, i)) /\ IsFiniteSet(Own) /\ Cardinality(Own) = q[i]
    BY <1>0, HeldIsNat, UnitsAreCounted, UnitsOfOneTicket
  <2>3. Cardinality(HeldUnits(l, i) \cup Own) = Cardinality(HeldUnits(l, i)) + q[i] - 0
    BY <2>2, <1>1, FS_Union, FS_EmptySet
  <2> QED
    BY <2>1, <2>3, <1>0, <1>2, HeldIsNat DEF Held
<1>3. CASE l # from
  <2>1. HeldUnits(l, i)' = HeldUnits(l, i)
    BY <1>0, <1>3 DEF HeldUnits, Lines
  <2> QED
    BY <2>1, <1>3 DEF Held
<1> QED
  BY <1>2, <1>3

\* The holds as TypeOK types them, without the rest of it.
LEMMA HoldType ==
    ASSUME TypeOK, NEW t \in Tickets, NEW i \in Items
    PROVE  rsv \in [Tickets -> Lines] /\ rsv[t][i] \in 0..MaxQty
<1>1. rsv \in [Tickets -> Lines]
  BY DEF TypeOK
<1> QED
  BY <1>1 DEF Lines

\* Releasing a ticket's hold takes exactly that hold off its shelf.
LEMMA HeldAfterRelease ==
    ASSUME TypeOK, NEW t \in Tickets, ReleaseForTicket(t),
           \A u \in Tickets : tkt'[u].from = tkt[u].from,
           NEW l, NEW i \in Items
    PROVE  Held(l, i)' = IF l = tkt[t].from THEN Held(l, i) - rsv[t][i] ELSE Held(l, i)
<1> DEFINE Own == {t} \X (1..rsv[t][i])
<1>0. /\ MaxQty \in Nat /\ rsv[t][i] \in 0..MaxQty
      /\ rsv' = [rsv EXCEPT ![t] = Nothing] /\ rsv \in [Tickets -> Lines]
      /\ Nothing[i] = 0
  BY BoundAssumption, HoldType DEF Nothing, ReleaseForTicket
<1>2. CASE l = tkt[t].from
  <2>1. HeldUnits(l, i)' = HeldUnits(l, i) \ Own
    BY <1>0, <1>2 DEF HeldUnits, Lines
  <2>2. HeldUnits(l, i) \cap Own = Own
    BY <1>0, <1>2 DEF HeldUnits, Lines
  <2>3. IsFiniteSet(HeldUnits(l, i)) /\ Cardinality(Own) = rsv[t][i]
    BY <1>0, HeldIsNat, UnitsAreCounted, UnitsOfOneTicket
  <2>4. Cardinality(HeldUnits(l, i) \ Own) = Cardinality(HeldUnits(l, i)) - rsv[t][i]
    <3> HIDE DEF Own
    <3>1. Cardinality(HeldUnits(l, i) \ Own)
              = Cardinality(HeldUnits(l, i)) - Cardinality(HeldUnits(l, i) \cap Own)
      BY <2>3, FS_Difference
    <3> QED
      BY <3>1, <2>2, <2>3
  <2> QED
    BY <2>1, <2>4, <1>2 DEF Held
<1>3. CASE l # tkt[t].from
  <2>1. HeldUnits(l, i)' = HeldUnits(l, i)
    BY <1>0, <1>3 DEF HeldUnits, Lines
  <2> QED
    BY <2>1, <1>3 DEF Held
<1> QED
  BY <1>2, <1>3

\* A ticket holds no more than all tickets on its shelf hold together.
LEMMA HoldIsPartOfHeld ==
    ASSUME TypeOK, NEW t \in Tickets, NEW i \in Items
    PROVE  rsv[t][i] <= Held(tkt[t].from, i)
<1> DEFINE Own == {t} \X (1..rsv[t][i])
<1>0. MaxQty \in Nat /\ rsv[t][i] \in 0..MaxQty
  BY BoundAssumption, HoldType
<1>1. Own \in SUBSET HeldUnits(tkt[t].from, i)
  BY <1>0 DEF HeldUnits
<1>2. IsFiniteSet(HeldUnits(tkt[t].from, i))
  BY HeldIsNat, UnitsAreCounted
<1>3. Cardinality(Own) <= Cardinality(HeldUnits(tkt[t].from, i))
  BY <1>1, <1>2, FS_Subset
<1> QED
  BY <1>0, <1>3, UnitsOfOneTicket DEF Held

-----------------------------------------------------------------------------
(* Types.                                                                  *)

\* What a document may carry: no line at all, or a quantity of one item.
LEMMA LinesType ==
    /\ Nothing \in Lines
    /\ RealLines \subseteq Lines
    /\ \A i \in Items, q \in 1..MaxQty : One(i, q) \in Lines
  BY BoundAssumption DEF Nothing, Lines, RealLines, One

\* Stock that lands keeps every balance a natural number.
LEMMA LandType ==
    ASSUME TypeOK, NEW l \in Locs, NEW q \in Lines
    PROVE  /\ Land(l, q) \in [Locs -> [Items -> Nat]]
           /\ LandWithoutUse(l, q) \in [Locs -> [Items -> Nat]]
<1>1. onHand \in [Locs -> [Items -> Nat]] /\ \A i \in Items : q[i] \in Nat
  BY BoundAssumption DEF TypeOK, Lines
<1> QED
  BY <1>1 DEF Land, LandWithoutUse

\* So does stock taken off a shelf that has it.
LEMMA TakeType ==
    ASSUME TypeOK, NEW l \in Locs, NEW q \in Lines, CoversIgnoringHolds(l, q)
    PROVE  Take(l, q) \in [Locs -> [Items -> Nat]]
<1>1. /\ onHand \in [Locs -> [Items -> Nat]]
      /\ \A i \in Items : q[i] \in Nat /\ q[i] <= onHand[l][i]
  BY BoundAssumption DEF TypeOK, Lines, CoversIgnoringHolds
<1>2. \A i \in Items : onHand[l][i] - q[i] \in Nat
  BY <1>1
<1> QED
  BY <1>1, <1>2 DEF Take

\* What covers the free stock covers the balance.
LEMMA CoversOnHand ==
    ASSUME TypeOK, NEW l \in Locs, NEW q \in Lines, Covers(l, q)
    PROVE  CoversIgnoringHolds(l, q)
<1> SUFFICES ASSUME NEW i \in Items PROVE q[i] <= onHand[l][i]
  BY DEF CoversIgnoringHolds
<1>1. q[i] \in Nat /\ onHand[l][i] \in Nat /\ Held(l, i) \in Nat
  BY HeldIsNat, BoundAssumption DEF TypeOK, Lines
<1>2. q[i] <= onHand[l][i] - Held(l, i)
  BY DEF Covers, Free
<1> QED
  BY <1>1, <1>2

\* A ticket that is written has a ticket's type.
LEMMA WriteTicketType ==
    ASSUME TypeOK, NEW t \in Tickets, NEW refType \in RefTypes,
           NEW ref \in Documents \cup {NoDocument}, NEW from \in Locs, NEW to \in Locs,
           NEW q \in Lines, WriteTicket(t, refType, ref, from, to, q)
    PROVE  tkt' \in [Tickets -> TicketRow] /\ rsv' \in [Tickets -> Lines]
<1>1. 0 \in 0..OTP_ATTEMPTS
  BY BoundAssumption
<1> QED
  BY <1>1 DEF WriteTicket, TypeOK, TicketRow, TktStatus

\* committed answers a natural number.
LEMMA CommittedIsNat == \A i : Committed(i) \in Nat
<1> SUFFICES ASSUME NEW i PROVE Committed(i) \in Nat
  OBVIOUS
<1>1. IsFiniteSet(1..MaxQty)
  BY FS_Interval, BoundAssumption
<1>2. IsFiniteSet(Requests \X (1..MaxQty))
  BY <1>1, FS_Product, RequestAssumption
<1>3. CommittedUnits(i) \in SUBSET (Requests \X (1..MaxQty))
  BY DEF CommittedUnits
<1>4. IsFiniteSet(CommittedUnits(i))
  BY <1>2, <1>3, FS_Subset
<1> QED
  BY <1>4, FS_CardinalityType DEF Committed

\* The shops, the store and the kitchen are the locations.
LEMMA LocsType == Outlets \subseteq Locs /\ Store \in Locs /\ Kitchen \in Locs
  BY DEF Locs

\* Types are kept by the steps on requests.
LEMMA RequestStepType == TypeOK /\ RequestStep => TypeOK'
<1> SUFFICES ASSUME TypeOK, NEW r \in Requests,
                    \/ \E from \in Outlets \cup {Kitchen}, q \in RealLines : CreateRequest(r, from, q)
                    \/ CancelRequest(r)
                    \/ RejectRequest(r)
                    \/ ApproveReadStock(r)
                    \/ ApproveReadHeld(r)
                    \/ ApproveReadOpen(r)
                    \/ \E want \in Lines : ApproveCommit(r, want)
                    \/ \E src \in Outlets : RedirectRead(r, src)
                    \/ \E t \in Tickets : RedirectCommit(r, t)
                    \/ Rollback(r)
                    \/ \E t \in Tickets : Issue(r, t)
             PROVE  TypeOK'
  BY DEF RequestStep
<1>0. /\ Idle \in DecisionRow /\ NoDocument \in Tickets \cup {NoDocument}
      /\ req[r] \in RequestRow /\ pend[r] \in DecisionRow /\ r \in Documents
  <2>1. Nothing \in [Items -> Int]
    BY DEF Nothing
  <2>2. Idle \in DecisionRow
    BY <2>1, LocsType DEF Idle, DecisionRow, Reading
  <2> QED
    BY <2>2 DEF TypeOK, Documents
<1>1. ASSUME NEW from \in Outlets \cup {Kitchen}, NEW q \in RealLines, CreateRequest(r, from, q)
      PROVE  TypeOK'
  BY <1>1, LinesType, LocsType DEF CreateRequest, TypeOK, RequestRow, ReqStatus
<1>2. CASE CancelRequest(r)
  BY <1>2, <1>0 DEF CancelRequest, TypeOK, RequestRow, ReqStatus
<1>3. CASE RejectRequest(r)
  BY <1>3, <1>0 DEF RejectRequest, TypeOK, RequestRow, ReqStatus
<1>4. CASE ApproveReadStock(r)
  <2>1. onHand[Store] \in [Items -> Int]
    BY LocsType DEF TypeOK
  <2> QED
    BY <1>4, <1>0, <2>1 DEF ApproveReadStock, TypeOK, DecisionRow, Reading
<1>5. CASE ApproveReadHeld(r)
  <2>1. [i \in Items |-> pend[r].free[i] - Held(Store, i)] \in [Items -> Int]
    BY <1>0, HeldIsNat DEF DecisionRow
  <2> QED
    BY <1>5, <1>0, <2>1 DEF ApproveReadHeld, TypeOK, DecisionRow, Reading
<1>7. ASSUME NEW want \in Lines, ApproveCommit(r, want)
      PROVE  TypeOK'
  <2> DEFINE appr == PlanApproval(req[r].lines, want, pend[r].free)
             st == IF appr = Nothing THEN "Rejected" ELSE ApprovedStatus(req[r].lines, appr)
  <2>1. req[r].lines \in Lines /\ pend[r].free \in [Items -> Int] /\ MaxQty \in Nat
    BY <1>0, BoundAssumption DEF RequestRow, DecisionRow
  <2>2. appr \in Lines
    BY <2>1 DEF PlanApproval, Least, Lines
  <2>3. st \in ReqStatus
    BY DEF ApprovedStatus, ReqStatus
  <2>4. req' = [req EXCEPT ![r].st = st, ![r].appr = appr]
    BY <1>7 DEF ApproveCommit
  <2>5. req' \in [Requests -> RequestRow]
    <3> HIDE DEF appr, st
    <3> QED
      BY <1>0, <2>2, <2>3, <2>4 DEF TypeOK, RequestRow
  <2> QED
    BY <1>7, <1>0, <2>5 DEF ApproveCommit, TypeOK
<1>8. ASSUME NEW src \in Outlets, RedirectRead(r, src)
      PROVE  TypeOK'
  BY <1>8, <1>0, LocsType DEF RedirectRead, TypeOK, DecisionRow, Reading
<1>9. ASSUME NEW t \in Tickets, RedirectCommit(r, t)
      PROVE  TypeOK'
  <2>1. WriteTicket(t, "shop_transfer", r, pend[r].src, req[r].from, req[r].lines)
    BY <1>9 DEF RedirectCommit
  <2>2. /\ pend[r].src \in Locs /\ req[r].from \in Locs /\ req[r].lines \in Lines
        /\ "shop_transfer" \in RefTypes
    BY <1>0 DEF RequestRow, DecisionRow, RefTypes
  <2>3. tkt' \in [Tickets -> TicketRow] /\ rsv' \in [Tickets -> Lines]
    BY <2>1, <2>2, <1>0, WriteTicketType
  <2> QED
    BY <1>9, <1>0, <2>2, <2>3 DEF RedirectCommit, TypeOK, RequestRow, ReqStatus
<1>10. CASE Rollback(r)
  BY <1>10, <1>0 DEF Rollback, TypeOK
<1>11. ASSUME NEW t \in Tickets, Issue(r, t)
       PROVE  TypeOK'
  <2>1. WriteTicket(t, "request", r, Store, req[r].from, req[r].appr)
    BY <1>11 DEF Issue
  <2>2. req[r].from \in Locs /\ req[r].appr \in Lines /\ "request" \in RefTypes
    BY <1>0 DEF RequestRow, RefTypes
  <2>3. tkt' \in [Tickets -> TicketRow] /\ rsv' \in [Tickets -> Lines]
    BY <2>1, <2>2, <1>0, LocsType, WriteTicketType
  <2> QED
    BY <1>11, <1>0, <2>2, <2>3 DEF Issue, TypeOK, RequestRow, ReqStatus
<1>6. CASE ApproveReadOpen(r)
  <2>1. \A i \in Items : Committed(i) \in Int
    BY CommittedIsNat
  <2>2. [i \in Items |-> pend[r].free[i] - Committed(i)] \in [Items -> Int]
    BY <1>0, <2>1 DEF DecisionRow
  <2> QED
    BY <1>6, <1>0, <2>2 DEF ApproveReadOpen, TypeOK, DecisionRow, Reading
<1> QED
  BY <1>1, <1>2, <1>3, <1>4, <1>5, <1>6, <1>7, <1>8, <1>9, <1>10, <1>11

\* Types are kept by the shops' steps.
LEMMA ShopStepType == TypeOK /\ ShopStep => TypeOK'
<1> SUFFICES ASSUME TypeOK, ShopStep PROVE TypeOK'
  OBVIOUS
<1>1. ASSUME NEW a \in Asks, NEW from \in Outlets, NEW to \in Outlets, NEW i \in Items,
             NEW q \in 1..MaxQty, AskShop(a, from, to, i, q)
      PROVE  TypeOK'
  BY <1>1, LinesType, LocsType DEF AskShop, TypeOK, AskRow, ShopAskStatus
<1>2. ASSUME NEW a \in Asks, NEW t \in Tickets, NEW grant \in RealLines, Answer(a, t, grant)
      PROVE  TypeOK'
  <2>1. WriteTicket(t, "shop_ask", a, ask[a].to, ask[a].from, grant)
    BY <1>2 DEF Answer
  <2>2. /\ ask[a] \in AskRow /\ grant \in Lines /\ a \in Documents \cup {NoDocument}
        /\ "shop_ask" \in RefTypes
    BY LinesType DEF TypeOK, Documents, RefTypes
  <2>3. ask[a].to \in Locs /\ ask[a].from \in Locs
    BY <2>2 DEF AskRow
  <2>4. tkt' \in [Tickets -> TicketRow] /\ rsv' \in [Tickets -> Lines]
    BY <2>1, <2>2, <2>3, WriteTicketType
  <2> QED
    BY <1>2, <2>2, <2>4 DEF Answer, TypeOK, AskRow, ShopAskStatus
<1>3. ASSUME NEW a \in Asks, DeclineAsk(a)
      PROVE  TypeOK'
  BY <1>3 DEF DeclineAsk, TypeOK, AskRow, ShopAskStatus
<1>4. ASSUME NEW t \in Tickets, NEW from \in Outlets, NEW to \in Outlets, NEW i \in Items,
             NEW q \in 1..MaxQty, Transfer(t, from, to, i, q)
      PROVE  TypeOK'
  <2>1. WriteTicket(t, "shop_transfer", NoDocument, from, to, One(i, q))
    BY <1>4 DEF Transfer
  <2>2. tkt' \in [Tickets -> TicketRow] /\ rsv' \in [Tickets -> Lines]
    <3>1. "shop_transfer" \in RefTypes /\ NoDocument \in Documents \cup {NoDocument}
      BY DEF RefTypes
    <3> QED
      BY <2>1, <3>1, LinesType, LocsType, WriteTicketType
  <2> QED
    BY <1>4, <2>2 DEF Transfer, TypeOK
<1> QED
  BY <1>1, <1>2, <1>3, <1>4 DEF ShopStep

\* Types are kept by the kitchen's steps.
LEMMA KitchenStepType == TypeOK /\ KitchenStep => TypeOK'
<1> SUFFICES ASSUME TypeOK, KitchenStep PROVE TypeOK'
  OBVIOUS
<1>1. ASSUME NEW d \in Orders, NEW from \in Outlets, NEW q \in RealLines, RaiseOrder(d, from, q)
      PROVE  TypeOK'
  BY <1>1, LinesType, LocsType DEF RaiseOrder, TypeOK, OrderRow, PordStatus
<1>2. ASSUME NEW d \in Orders, NEW st \in PordStatus, SetOrderStatus(d, st)
      PROVE  TypeOK'
  BY <1>2 DEF SetOrderStatus, TypeOK, OrderRow
<1>3. ASSUME NEW d \in Orders, NEW t \in Tickets, Dispatch(d, t)
      PROVE  TypeOK'
  <2>1. WriteTicket(t, "prod_order", d, Kitchen, ord[d].from, ord[d].lines)
    BY <1>3 DEF Dispatch
  <2>2. /\ ord[d] \in OrderRow /\ d \in Documents \cup {NoDocument} /\ "prod_order" \in RefTypes
    BY DEF TypeOK, Documents, RefTypes
  <2>3. ord[d].from \in Locs /\ ord[d].lines \in Lines
    BY <2>2 DEF OrderRow
  <2>4. tkt' \in [Tickets -> TicketRow] /\ rsv' \in [Tickets -> Lines]
    BY <2>1, <2>2, <2>3, LocsType, WriteTicketType
  <2> QED
    BY <1>3, <2>2, <2>4 DEF Dispatch, TypeOK, OrderRow, PordStatus
<1>4. ASSUME NEW t \in Tickets, NEW to \in Locs, NEW i \in Items, NEW q \in 1..MaxQty,
             Distribute(t, to, i, q)
      PROVE  TypeOK'
  <2>1. WriteTicket(t, "direct", NoDocument, Kitchen, to, One(i, q))
    BY <1>4 DEF Distribute
  <2>2. tkt' \in [Tickets -> TicketRow] /\ rsv' \in [Tickets -> Lines]
    <3>1. "direct" \in RefTypes /\ NoDocument \in Documents \cup {NoDocument}
      BY DEF RefTypes
    <3> QED
      BY <2>1, <3>1, LinesType, LocsType, WriteTicketType
  <2> QED
    BY <1>4, <2>2 DEF Distribute, TypeOK
<1>5. ASSUME NEW i \in Items, NEW q \in 1..MaxQty, MakeBatch(i, q)
      PROVE  TypeOK'
  BY <1>5, LinesType, LocsType, LandType DEF MakeBatch, TypeOK
<1> QED
  BY <1>1, <1>2, <1>3, <1>4, <1>5 DEF KitchenStep

\* Types are kept by the scans.
LEMMA ScanStepType == TypeOK /\ ScanStep => TypeOK'
<1> SUFFICES ASSUME TypeOK, NEW t \in Tickets,
                    Handover(t) \/ WrongOtp(t) \/ Receive(t) \/ CancelTicket(t)
             PROVE  TypeOK'
  BY DEF ScanStep
<1>0. /\ tkt[t] \in TicketRow /\ tkt[t].from \in Locs /\ tkt[t].to \in Locs
      /\ tkt[t].lines \in Lines /\ Nothing \in Lines
  BY LinesType DEF TypeOK, TicketRow
<1>r. ASSUME NEW st \in ReqStatus, FollowRequest(t, st)
      PROVE  req' \in [Requests -> RequestRow]
  BY <1>r DEF FollowRequest, TypeOK, RequestRow
<1>1. CASE Handover(t)
  <2>1. onHand' \in [Locs -> [Items -> Nat]]
    BY <1>0, <1>1, TakeType DEF Handover
  <2>2. req' \in [Requests -> RequestRow]
    BY <1>1, <1>r DEF Handover, ReqStatus
  <2>3. rsv' \in [Tickets -> Lines]
    BY <1>0, <1>1 DEF Handover, ReleaseForTicket, TypeOK
  <2>4. tkt' \in [Tickets -> TicketRow]
    BY <1>0, <1>1 DEF Handover, TypeOK, TicketRow, TktStatus
  <2> QED
    BY <1>1, <2>1, <2>2, <2>3, <2>4 DEF Handover, TypeOK
<1>2. CASE WrongOtp(t)
  <2>1. tkt[t].otpAttempts + 1 \in 0..OTP_ATTEMPTS
    <3>1. tkt[t].otpAttempts \in 0..OTP_ATTEMPTS
      BY <1>0 DEF TicketRow
    <3>2. tkt[t].otpAttempts < OTP_ATTEMPTS
      BY <1>2 DEF WrongOtp
    <3> QED
      BY <3>1, <3>2, BoundAssumption
  <2>2. tkt' \in [Tickets -> TicketRow]
    <3>1. [tkt[t] EXCEPT !.otpAttempts = @ + 1] \in TicketRow
      BY <1>0, <2>1 DEF TicketRow
    <3>2. tkt' = [tkt EXCEPT ![t] = [tkt[t] EXCEPT !.otpAttempts = @ + 1]]
      BY <1>2 DEF WrongOtp
    <3> QED
      BY <3>1, <3>2 DEF TypeOK
  <2> QED
    BY <1>2, <2>2 DEF WrongOtp, TypeOK
<1>3. CASE Receive(t)
  <2>1. onHand' \in [Locs -> [Items -> Nat]]
    BY <1>0, <1>3, LandType DEF Receive
  <2>2. req' \in [Requests -> RequestRow]
    BY <1>3, <1>r DEF Receive, ReqStatus
  <2>3. tkt' \in [Tickets -> TicketRow]
    BY <1>0, <1>3 DEF Receive, TypeOK, TicketRow, TktStatus
  <2> QED
    BY <1>3, <2>1, <2>2, <2>3 DEF Receive, TypeOK
<1>4. CASE CancelTicket(t)
  <2>1. req' \in [Requests -> RequestRow]
    <3>1. \A r \in Requests :
              [req[r] EXCEPT !.st = ApprovedStatus(req[r].lines, req[r].appr),
                             !.ticket = NoDocument] \in RequestRow
      <4> SUFFICES ASSUME NEW r \in Requests, NEW st \in ReqStatus
                   PROVE  [req[r] EXCEPT !.st = st, !.ticket = NoDocument] \in RequestRow
        BY DEF ApprovedStatus, ReqStatus
      <4>1. req[r] \in RequestRow
        BY DEF TypeOK
      <4> QED
        BY <4>1 DEF RequestRow
    <3>2. \A r \in Requests : req[r] \in RequestRow
      BY DEF TypeOK
    <3> QED
      BY <1>4, <3>1, <3>2 DEF CancelTicket
  <2>2. ord' \in [Orders -> OrderRow]
    <3>1. \A d \in Orders : ord[d] \in OrderRow /\ [ord[d] EXCEPT !.st = "Ready"] \in OrderRow
      BY DEF TypeOK, OrderRow, PordStatus
    <3> QED
      BY <1>4, <3>1 DEF CancelTicket
  <2>3. ask' \in [Asks -> AskRow]
    <3>1. \A a \in Asks : ask[a] \in AskRow /\ [ask[a] EXCEPT !.st = "Asked"] \in AskRow
      BY DEF TypeOK, AskRow, ShopAskStatus
    <3> QED
      BY <1>4, <3>1 DEF CancelTicket
  <2>4. rsv' \in [Tickets -> Lines]
    BY <1>0, <1>4 DEF CancelTicket, ReleaseForTicket, TypeOK
  <2>5. tkt' \in [Tickets -> TicketRow]
    BY <1>0, <1>4 DEF CancelTicket, TypeOK, TicketRow, TktStatus
  <2> QED
    BY <1>4, <2>1, <2>2, <2>3, <2>4, <2>5 DEF CancelTicket, TypeOK
<1> QED
  BY <1>1, <1>2, <1>3, <1>4

\* Types are kept by sales, corrections and receipts.
LEMMA ShelfStepType == TypeOK /\ ShelfStep => TypeOK'
<1> SUFFICES ASSUME TypeOK, ShelfStep PROVE TypeOK'
  OBVIOUS
<1>1. ASSUME NEW b \in Bills, NEW loc \in Outlets, NEW q \in RealLines, Sale(b, loc, q)
      PROVE  TypeOK'
  <2>1. loc \in Locs /\ q \in Lines /\ Covers(loc, q)
    BY <1>1, LocsType, LinesType DEF Sale
  <2>2. onHand' \in [Locs -> [Items -> Nat]]
    BY <1>1, <2>1, CoversOnHand, TakeType DEF Sale
  <2> QED
    BY <1>1, <2>1, <2>2 DEF Sale, TypeOK, BillRow
<1>2. ASSUME NEW b \in Bills, VoidBill(b)
      PROVE  TypeOK'
  <2>1. bill[b] \in BillRow /\ bill[b].loc \in Locs /\ bill[b].lines \in Lines
    BY DEF TypeOK, BillRow
  <2>2. onHand' \in [Locs -> [Items -> Nat]]
    BY <1>2, <2>1, LandType DEF VoidBill
  <2> QED
    BY <1>2, <2>1, <2>2 DEF VoidBill, TypeOK, BillRow
<1>3. ASSUME NEW l \in Counted, NEW down \in Lines, NEW up \in Lines, Adjust(l, down, up)
      PROVE  TypeOK'
  <2>1. l \in Locs
    BY BoundAssumption
  <2>2. CoversIgnoringHolds(l, down)
    BY <1>3, <2>1, CoversOnHand DEF Adjust
  <2>3. \A i \in Items : onHand[l][i] \in Nat /\ onHand[l][i] - down[i] + up[i] \in Nat
    <3> SUFFICES ASSUME NEW i \in Items
                 PROVE  onHand[l][i] \in Nat /\ onHand[l][i] - down[i] + up[i] \in Nat
      OBVIOUS
    <3>1. onHand[l][i] \in Nat /\ down[i] \in Nat /\ up[i] \in Nat
      BY <2>1, BoundAssumption DEF TypeOK, Lines
    <3>2. down[i] <= onHand[l][i]
      BY <2>2 DEF CoversIgnoringHolds
    <3> QED
      BY <3>1, <3>2
  <2>4. onHand' \in [Locs -> [Items -> Nat]]
    BY <1>3, <2>1, <2>3 DEF Adjust, TypeOK
  <2> QED
    BY <1>3, <2>4 DEF Adjust, TypeOK
<1>4. ASSUME NEW i \in Items, NEW q \in 1..MaxQty, LandAtStore(i, q)
      PROVE  TypeOK'
  BY <1>4, LinesType, LocsType, LandType DEF LandAtStore, TypeOK
<1> QED
  BY <1>1, <1>2, <1>3, <1>4 DEF ShelfStep

\* Types are kept when an outlet closes or opens.
LEMMA OutletStepType == TypeOK /\ OutletStep => TypeOK'
<1> SUFFICES ASSUME TypeOK, NEW o \in Outlets,
                    CloseBegin(o) \/ (\E commit \in BOOLEAN : CloseEnd(o, commit)) \/ ReopenOutlet(o)
             PROVE  TypeOK'
  BY DEF OutletStep
<1>1. CASE CloseBegin(o)
  BY <1>1 DEF CloseBegin, TypeOK
<1>2. ASSUME NEW commit \in BOOLEAN, CloseEnd(o, commit)
      PROVE  TypeOK'
  BY <1>2 DEF CloseEnd, TypeOK
<1>3. CASE ReopenOutlet(o)
  BY <1>3 DEF ReopenOutlet, TypeOK
<1> QED
  BY <1>1, <1>2, <1>3

\* A hospital with empty shelves and no documents is well typed.
LEMMA InitType == Init => TypeOK
<1> SUFFICES ASSUME Init PROVE TypeOK
  OBVIOUS
<1>1. Nothing \in [Items -> Nat] /\ Nothing \in [Items -> Int] /\ 0 \in 0..OTP_ATTEMPTS
  BY BoundAssumption DEF Nothing
<1>2. /\ NoTicket \in TicketRow /\ NoRequest \in RequestRow /\ Idle \in DecisionRow
      /\ NoAsk \in AskRow /\ NoOrder \in OrderRow /\ NoBill \in BillRow
  BY <1>1, LinesType, LocsType DEF NoTicket, TicketRow, RefTypes, NoRequest, RequestRow, Idle,
     DecisionRow, Reading, NoAsk, AskRow, NoOrder, OrderRow, NoBill, BillRow
<1> QED
  BY <1>1, <1>2, LinesType DEF Init, TypeOK

\* Every step keeps the types: one lemma for each group of actions.
LEMMA NextType == TypeOK /\ [Next]_vars => TypeOK'
<1> SUFFICES ASSUME TypeOK, [Next]_vars PROVE TypeOK'
  OBVIOUS
<1>1. CASE UNCHANGED vars
  BY <1>1 DEF vars, TypeOK
<1> QED
  BY <1>1, RequestStepType, ShopStepType, KitchenStepType, ScanStepType, ShelfStepType,
     OutletStepType DEF Next

\* Every balance stays a natural number and every row keeps its type, whatever the requests,
\* scans, sales and closures and however they interleave.
THEOREM TypeCorrect == Spec => []TypeOK
  BY InitType, NextType, PTL DEF Spec

-----------------------------------------------------------------------------
(* Promises.  NoOversell is not inductive alone: a handover takes the      *)
(* ticket's lines off the shelf and the ticket's hold off what is held,    *)
(* and only HoldsMatchTickets says the two are the same quantity.          *)

PromiseInv == TypeOK /\ HoldsMatchTickets /\ NoOversell

\* A step that keeps tickets and holds keeps the promise if no shelf falls below what is held.
LEMMA PromiseKept ==
    ASSUME PromiseInv, rsv' = rsv,
           \A t \in Tickets : /\ tkt'[t].st = tkt[t].st
                              /\ tkt'[t].lines = tkt[t].lines
                              /\ tkt'[t].from = tkt[t].from,
           \A l \in Locs, i \in Items : Held(l, i) <= onHand'[l][i]
    PROVE  HoldsMatchTickets' /\ NoOversell'
<1>1. HoldsMatchTickets'
  BY DEF PromiseInv, HoldsMatchTickets, Nothing
<1>2. NoOversell'
  BY HeldUnchanged DEF NoOversell
<1> QED
  BY <1>1, <1>2

\* The same, for the many steps that touch neither a shelf nor a ticket.
LEMMA PromiseUntouched ==
    ASSUME PromiseInv, UNCHANGED <<onHand, rsv, tkt>>
    PROVE  HoldsMatchTickets' /\ NoOversell'
<1>1. \A l \in Locs, i \in Items : Held(l, i) <= onHand'[l][i]
  BY DEF PromiseInv, NoOversell
<1> QED
  BY <1>1, PromiseKept

\* Stock that lands never breaks a promise.
LEMMA PromiseOnArrival ==
    ASSUME PromiseInv, NEW l \in Locs, NEW q \in Lines, UNCHANGED <<rsv, tkt>>,
           onHand' = Land(l, q) \/ onHand' = LandWithoutUse(l, q)
    PROVE  HoldsMatchTickets' /\ NoOversell'
<1>1. \A k \in Locs, i \in Items : Held(k, i) <= onHand'[k][i]
  <2> SUFFICES ASSUME NEW k \in Locs, NEW i \in Items PROVE Held(k, i) <= onHand'[k][i]
    OBVIOUS
  <2>1. Held(k, i) \in Nat /\ onHand[k][i] \in Nat /\ q[i] \in Nat /\ Held(k, i) <= onHand[k][i]
    BY HeldIsNat, BoundAssumption DEF PromiseInv, TypeOK, NoOversell, Lines
  <2>2. onHand'[k][i] = onHand[k][i] \/ onHand'[k][i] = onHand[k][i] + q[i]
    BY DEF PromiseInv, TypeOK, Land, LandWithoutUse
  <2> QED
    BY <2>1, <2>2
<1> QED
  BY <1>1, PromiseKept

\* A ticket written against free stock is a promise that can be kept.
LEMMA PromiseMade ==
    ASSUME PromiseInv, NEW t \in Tickets, NEW refType, NEW ref, NEW from \in Locs, NEW to,
           NEW q \in Lines, Covers(from, q), WriteTicket(t, refType, ref, from, to, q),
           UNCHANGED onHand
    PROVE  HoldsMatchTickets' /\ NoOversell'
<1>0. rsv[t] = Nothing
  BY DEF PromiseInv, HoldsMatchTickets, WriteTicket, Drawn
<1>1. HoldsMatchTickets'
  <2>1. /\ rsv' = [rsv EXCEPT ![t] = q] /\ tkt'[t].st = "Issued" /\ tkt'[t].lines = q
        /\ \A u \in Tickets : u # t => tkt'[u] = tkt[u]
        /\ rsv \in [Tickets -> Lines]
    BY DEF WriteTicket, PromiseInv, TypeOK
  <2> QED
    BY <2>1 DEF PromiseInv, HoldsMatchTickets, Nothing
<1>2. NoOversell'
  <2> SUFFICES ASSUME NEW l \in Locs, NEW i \in Items PROVE Held(l, i)' <= onHand'[l][i]
    BY DEF NoOversell
  <2>1. Held(l, i)' = IF l = from THEN Held(l, i) + q[i] ELSE Held(l, i)
    BY <1>0, HeldAfterWrite DEF PromiseInv
  <2>2. Held(l, i) \in Nat /\ q[i] \in Nat /\ onHand[l][i] \in Nat /\ Held(l, i) <= onHand[l][i]
    BY HeldIsNat, BoundAssumption DEF PromiseInv, TypeOK, NoOversell, Lines
  <2>3. l = from => q[i] <= onHand[l][i] - Held(l, i)
    BY DEF Covers, Free
  <2> QED
    BY <2>1, <2>2, <2>3
<1> QED
  BY <1>1, <1>2

\* Taking free stock leaves what is held.
LEMMA PromiseOnTake ==
    ASSUME PromiseInv, NEW l \in Locs, NEW q \in Lines, Covers(l, q), UNCHANGED <<rsv, tkt>>,
           onHand' = Take(l, q)
    PROVE  HoldsMatchTickets' /\ NoOversell'
<1>1. \A k \in Locs, i \in Items : Held(k, i) <= onHand'[k][i]
  <2> SUFFICES ASSUME NEW k \in Locs, NEW i \in Items PROVE Held(k, i) <= onHand'[k][i]
    OBVIOUS
  <2>1. Held(k, i) \in Nat /\ onHand[k][i] \in Nat /\ q[i] \in Nat /\ Held(k, i) <= onHand[k][i]
    BY HeldIsNat, BoundAssumption DEF PromiseInv, TypeOK, NoOversell, Lines
  <2>2. onHand'[k][i] = IF k = l THEN onHand[k][i] - q[i] ELSE onHand[k][i]
    BY DEF PromiseInv, TypeOK, Take
  <2>3. k = l => q[i] <= onHand[k][i] - Held(k, i)
    BY DEF Covers, Free
  <2> QED
    BY <2>1, <2>2, <2>3
<1> QED
  BY <1>1, PromiseKept

\* The promise survives every step.
LEMMA PromiseStep == PromiseInv /\ [Next]_vars => HoldsMatchTickets' /\ NoOversell'
<1> SUFFICES ASSUME PromiseInv, [Next]_vars PROVE HoldsMatchTickets' /\ NoOversell'
  OBVIOUS
<1>t. TypeOK
  BY DEF PromiseInv
<1>1. CASE RequestStep
  <2> PICK r \in Requests :
             \/ \E from \in Outlets \cup {Kitchen}, q \in RealLines : CreateRequest(r, from, q)
             \/ CancelRequest(r)
             \/ RejectRequest(r)
             \/ ApproveReadStock(r)
             \/ ApproveReadHeld(r)
             \/ ApproveReadOpen(r)
             \/ \E want \in Lines : ApproveCommit(r, want)
             \/ \E src \in Outlets : RedirectRead(r, src)
             \/ \E t \in Tickets : RedirectCommit(r, t)
             \/ Rollback(r)
             \/ \E t \in Tickets : Issue(r, t)
    BY <1>1 DEF RequestStep
  <2>0. /\ req[r].lines \in Lines /\ req[r].appr \in Lines
        /\ req[r].from \in Locs /\ pend[r].src \in Locs
    BY <1>t DEF TypeOK, RequestRow, DecisionRow
  <2>1. ASSUME NEW t \in Tickets, RedirectCommit(r, t)
        PROVE  HoldsMatchTickets' /\ NoOversell'
    BY <2>0, <2>1, PromiseMade DEF RedirectCommit
  <2>2. ASSUME NEW t \in Tickets, Issue(r, t)
        PROVE  HoldsMatchTickets' /\ NoOversell'
    BY <2>0, <2>2, LocsType, PromiseMade DEF Issue
  <2>3. CASE UNCHANGED <<onHand, rsv, tkt>>
    BY <2>3, PromiseUntouched
  <2> QED
    BY <2>1, <2>2, <2>3 DEF CreateRequest, CancelRequest, RejectRequest, ApproveReadStock,
       ApproveReadHeld, ApproveReadOpen, ApproveCommit, RedirectRead, Rollback
<1>2. CASE ShopStep
  <2>1. ASSUME NEW a \in Asks, NEW t \in Tickets, NEW grant \in RealLines, Answer(a, t, grant)
        PROVE  HoldsMatchTickets' /\ NoOversell'
    <3>1. ask[a].to \in Locs /\ grant \in Lines
      BY <1>t, LinesType DEF TypeOK, AskRow
    <3> QED
      BY <2>1, <3>1, PromiseMade DEF Answer
  <2>2. ASSUME NEW t \in Tickets, NEW from \in Outlets, NEW to \in Outlets, NEW i \in Items,
               NEW q \in 1..MaxQty, Transfer(t, from, to, i, q)
        PROVE  HoldsMatchTickets' /\ NoOversell'
    <3>1. from \in Locs /\ One(i, q) \in Lines
      BY LinesType, LocsType
    <3> QED
      BY <2>2, <3>1, PromiseMade DEF Transfer
  <2>3. CASE UNCHANGED <<onHand, rsv, tkt>>
    BY <2>3, PromiseUntouched
  <2> QED
    BY <1>2, <2>1, <2>2, <2>3 DEF ShopStep, AskShop, DeclineAsk
<1>3. CASE KitchenStep
  <2>1. ASSUME NEW d \in Orders, NEW t \in Tickets, Dispatch(d, t)
        PROVE  HoldsMatchTickets' /\ NoOversell'
    <3>1. ord[d].lines \in Lines
      BY <1>t DEF TypeOK, OrderRow
    <3> QED
      BY <2>1, <3>1, LocsType, PromiseMade DEF Dispatch
  <2>2. ASSUME NEW t \in Tickets, NEW to \in Locs, NEW i \in Items, NEW q \in 1..MaxQty,
               Distribute(t, to, i, q)
        PROVE  HoldsMatchTickets' /\ NoOversell'
    <3>1. One(i, q) \in Lines
      BY LinesType
    <3> QED
      BY <2>2, <3>1, LocsType, PromiseMade DEF Distribute
  <2>3. ASSUME NEW i \in Items, NEW q \in 1..MaxQty, MakeBatch(i, q)
        PROVE  HoldsMatchTickets' /\ NoOversell'
    <3>1. One(i, q) \in Lines
      BY LinesType
    <3> QED
      BY <2>3, <3>1, LocsType, PromiseOnArrival DEF MakeBatch
  <2>4. CASE UNCHANGED <<onHand, rsv, tkt>>
    BY <2>4, PromiseUntouched
  <2> QED
    BY <1>3, <2>1, <2>2, <2>3, <2>4 DEF KitchenStep, RaiseOrder, SetOrderStatus
<1>4. ASSUME NEW t \in Tickets, Handover(t) \/ WrongOtp(t) \/ Receive(t) \/ CancelTicket(t)
      PROVE  HoldsMatchTickets' /\ NoOversell'
  <2>0. tkt[t].from \in Locs /\ tkt[t].to \in Locs /\ tkt[t].lines \in Lines
        /\ rsv \in [Tickets -> Lines] /\ tkt \in [Tickets -> TicketRow]
    BY <1>t DEF TypeOK, TicketRow
  <2>a. ASSUME ReleaseForTicket(t), NEW st \in {"Collected", "Cancelled"},
               tkt' = [tkt EXCEPT ![t].st = st]
        PROVE  HoldsMatchTickets' /\ \A u \in Tickets : tkt'[u].from = tkt[u].from
    BY <2>0, <2>a DEF PromiseInv, HoldsMatchTickets, ReleaseForTicket, Nothing
  <2>1. CASE Handover(t)
    <3>1. rsv[t] = tkt[t].lines
      BY <2>1 DEF Handover, TICKET_TRANSITIONS, PromiseInv, HoldsMatchTickets
    <3>2. HoldsMatchTickets' /\ \A u \in Tickets : tkt'[u].from = tkt[u].from
      BY <2>1, <2>a DEF Handover
    <3>3. NoOversell'
      <4> SUFFICES ASSUME NEW l \in Locs, NEW i \in Items PROVE Held(l, i)' <= onHand'[l][i]
        BY DEF NoOversell
      <4>1. Held(l, i)' = IF l = tkt[t].from THEN Held(l, i) - rsv[t][i] ELSE Held(l, i)
        BY <1>t, <2>1, <3>2, HeldAfterRelease DEF Handover
      <4>2. onHand'[l][i] = IF l = tkt[t].from THEN onHand[l][i] - tkt[t].lines[i] ELSE onHand[l][i]
        BY <1>t, <2>1 DEF Handover, Take, TypeOK
      <4>3. /\ Held(l, i) \in Nat /\ onHand[l][i] \in Nat /\ Held(l, i) <= onHand[l][i]
            /\ tkt[t].lines[i] \in Int
        BY <2>0, HeldIsNat, BoundAssumption DEF PromiseInv, TypeOK, NoOversell, Lines
      <4> QED
        BY <3>1, <4>1, <4>2, <4>3
    <3> QED
      BY <3>2, <3>3
  <2>2. CASE WrongOtp(t)
    <3>1. \A u \in Tickets : tkt'[u].st = tkt[u].st /\ tkt'[u].lines = tkt[u].lines
                                                    /\ tkt'[u].from = tkt[u].from
      BY <2>0, <2>2 DEF WrongOtp, TicketRow
    <3>2. \A l \in Locs, i \in Items : Held(l, i) <= onHand'[l][i]
      BY <2>2 DEF WrongOtp, PromiseInv, NoOversell
    <3> QED
      BY <2>2, <3>1, <3>2, PromiseKept DEF WrongOtp
  <2>3. CASE Receive(t)
    <3>1. tkt[t].st = "Collected" /\ rsv' = rsv /\ tkt' = [tkt EXCEPT ![t].st = "Received"]
      BY <2>3 DEF Receive, TICKET_TRANSITIONS
    <3>2. HoldsMatchTickets'
      BY <2>0, <3>1 DEF PromiseInv, HoldsMatchTickets, Nothing
    <3>3. \A u \in Tickets : tkt'[u].from = tkt[u].from
      BY <2>0, <3>1
    <3>4. NoOversell'
      <4> SUFFICES ASSUME NEW l \in Locs, NEW i \in Items PROVE Held(l, i)' <= onHand'[l][i]
        BY DEF NoOversell
      <4>1. Held(l, i)' = Held(l, i)
        BY <3>1, <3>3, HeldUnchanged
      <4>2. \/ onHand'[l][i] = onHand[l][i]
            \/ onHand'[l][i] = onHand[l][i] + tkt[t].lines[i]
        BY <1>t, <2>3 DEF Receive, Land, TypeOK
      <4>3. /\ Held(l, i) \in Nat /\ onHand[l][i] \in Nat /\ Held(l, i) <= onHand[l][i]
            /\ tkt[t].lines[i] \in Nat
        BY <2>0, HeldIsNat, BoundAssumption DEF PromiseInv, TypeOK, NoOversell, Lines
      <4> QED
        BY <4>1, <4>2, <4>3
    <3> QED
      BY <3>2, <3>4
  <2>4. CASE CancelTicket(t)
    <3>1. ReleaseForTicket(t) /\ tkt' = [tkt EXCEPT ![t].st = "Cancelled"] /\ onHand' = onHand
      BY <2>4 DEF CancelTicket
    <3>2. HoldsMatchTickets' /\ \A u \in Tickets : tkt'[u].from = tkt[u].from
      BY <3>1, <2>a
    <3>3. NoOversell'
      <4> SUFFICES ASSUME NEW l \in Locs, NEW i \in Items PROVE Held(l, i)' <= onHand'[l][i]
        BY DEF NoOversell
      <4>1. Held(l, i)' = IF l = tkt[t].from THEN Held(l, i) - rsv[t][i] ELSE Held(l, i)
        BY <1>t, <3>1, <3>2, HeldAfterRelease
      <4>2. Held(l, i) \in Nat /\ onHand[l][i] \in Nat /\ Held(l, i) <= onHand[l][i]
        BY HeldIsNat DEF PromiseInv, TypeOK, NoOversell
      <4>3. rsv[t][i] \in 0..MaxQty
        BY <1>t, HoldType
      <4> QED
        BY <3>1, <4>1, <4>2, <4>3
    <3> QED
      BY <3>2, <3>3
  <2> QED
    BY <1>4, <2>1, <2>2, <2>3, <2>4
<1>5. CASE ShelfStep
  <2>1. ASSUME NEW b \in Bills, NEW loc \in Outlets, NEW q \in RealLines, Sale(b, loc, q)
        PROVE  HoldsMatchTickets' /\ NoOversell'
    <3>1. loc \in Locs /\ q \in Lines
      BY LocsType, LinesType
    <3> QED
      BY <2>1, <3>1, PromiseOnTake DEF Sale
  <2>2. ASSUME NEW b \in Bills, VoidBill(b)
        PROVE  HoldsMatchTickets' /\ NoOversell'
    <3>1. bill[b].loc \in Locs /\ bill[b].lines \in Lines
      BY <1>t DEF TypeOK, BillRow
    <3> QED
      BY <2>2, <3>1, PromiseOnArrival DEF VoidBill
  <2>3. ASSUME NEW l \in Counted, NEW down \in Lines, NEW up \in Lines, Adjust(l, down, up)
        PROVE  HoldsMatchTickets' /\ NoOversell'
    <3>1. \A k \in Locs, i \in Items : Held(k, i) <= onHand'[k][i]
      <4> SUFFICES ASSUME NEW k \in Locs, NEW i \in Items PROVE Held(k, i) <= onHand'[k][i]
        OBVIOUS
      <4>1. /\ Held(k, i) \in Nat /\ onHand[k][i] \in Nat /\ Held(k, i) <= onHand[k][i]
            /\ down[i] \in Nat /\ up[i] \in Nat
        BY HeldIsNat, BoundAssumption DEF PromiseInv, TypeOK, NoOversell, Lines
      <4>2. \/ onHand'[k][i] = onHand[k][i]
            \/ k = l /\ onHand'[k][i] = onHand[k][i] - down[i] + up[i]
        BY <1>t, <2>3, BoundAssumption DEF Adjust, TypeOK
      <4>3. k = l => down[i] <= onHand[k][i] - Held(k, i)
        BY <2>3 DEF Adjust, Covers, Free
      <4> QED
        BY <4>1, <4>2, <4>3
    <3> QED
      BY <2>3, <3>1, PromiseKept DEF Adjust
  <2>4. ASSUME NEW i \in Items, NEW q \in 1..MaxQty, LandAtStore(i, q)
        PROVE  HoldsMatchTickets' /\ NoOversell'
    <3>1. One(i, q) \in Lines
      BY LinesType
    <3> QED
      BY <2>4, <3>1, LocsType, PromiseOnArrival DEF LandAtStore
  <2> QED
    BY <1>5, <2>1, <2>2, <2>3, <2>4 DEF ShelfStep
<1>6. CASE OutletStep
  <2>1. UNCHANGED <<onHand, rsv, tkt>>
    BY <1>6 DEF OutletStep, CloseBegin, CloseEnd, ReopenOutlet
  <2> QED
    BY <2>1, PromiseUntouched
<1>7. CASE UNCHANGED vars
  BY <1>7, PromiseUntouched DEF vars
<1> QED
  BY <1>1, <1>2, <1>3, <1>4, <1>5, <1>6, <1>7 DEF Next, ScanStep

\* With no ticket drawn nothing is held, so nothing is over-promised.
LEMMA InitPromise == Init => HoldsMatchTickets /\ NoOversell
<1> SUFFICES ASSUME Init PROVE HoldsMatchTickets /\ NoOversell
  OBVIOUS
<1>1. HoldsMatchTickets
  BY DEF Init, NoTicket, HoldsMatchTickets
<1>2. \A l, i : i \in Items => HeldUnits(l, i) = {}
  BY DEF Init, HeldUnits, Nothing
<1>3. \A l \in Locs, i \in Items : Held(l, i) = 0 /\ onHand[l][i] = 0
  BY <1>2, FS_EmptySet DEF Init, Held, Nothing
<1> QED
  BY <1>1, <1>3 DEF NoOversell

\* PromiseInv is inductive: it holds at the start and every step keeps it.
LEMMA PromiseInvariant == Spec => []PromiseInv
<1>1. Init => PromiseInv
  BY InitType, InitPromise DEF PromiseInv
<1>2. PromiseInv /\ [Next]_vars => PromiseInv'
  BY NextType, PromiseStep DEF PromiseInv
<1> QED
  BY <1>1, <1>2, PTL DEF Spec

\* For any number of outlets, items, tickets and documents: a hold is open exactly while its
\* ticket is issued, in the ticket's own quantities.
THEOREM HoldsFollowTickets == Spec => []HoldsMatchTickets
  BY PromiseInvariant, PTL DEF PromiseInv

\* For any number of outlets, items, tickets and documents: no shelf is promised past its
\* balance.
THEOREM ShelvesNeverOversold == Spec => []NoOversell
  BY PromiseInvariant, PTL DEF PromiseInv

\* So the handover's own re-read never refuses: an issued ticket's lines are on its shelf.
THEOREM HandoverAlwaysCovered == Spec => []IssuedTicketsCovered
<1>1. PromiseInv => IssuedTicketsCovered
  <2> SUFFICES ASSUME PromiseInv, NEW t \in Tickets, tkt[t].st = "Issued", NEW i \in Items
               PROVE  tkt[t].lines[i] <= onHand[tkt[t].from][i]
    BY DEF IssuedTicketsCovered
  <2>1. rsv[t] = tkt[t].lines /\ rsv[t][i] <= Held(tkt[t].from, i)
    BY HoldIsPartOfHeld DEF PromiseInv, HoldsMatchTickets
  <2>2. tkt[t].from \in Locs
    BY DEF PromiseInv, TypeOK, TicketRow
  <2>3. /\ Held(tkt[t].from, i) \in Nat /\ onHand[tkt[t].from][i] \in Nat
        /\ Held(tkt[t].from, i) <= onHand[tkt[t].from][i]
    BY <2>2, HeldIsNat DEF PromiseInv, TypeOK, NoOversell
  <2>4. rsv[t][i] \in 0..MaxQty
    BY HoldType DEF PromiseInv
  <2> QED
    BY <2>1, <2>3, <2>4
<1> QED
  BY <1>1, PromiseInvariant, PTL
-----------------------------------------------------------------------------
(* Documents.  A document follows its ticket because nobody else may move  *)
(* it while the ticket is alive, and a ticket is only written for a        *)
(* document that has none.  The documents' statuses say which have one, so *)
(* the invariant ties each live ticket to its document and back.           *)

Alive(t) == tkt[t].st \in {"Issued", "Collected", "Received"}

\* The statuses of a request that has, or had, a ticket.
Walked == {"Ticket issued", "Collected", "Closed"}

RefFits(t) ==
    /\ tkt[t].refType = "request" => tkt[t].ref \in Requests
    /\ tkt[t].refType = "prod_order" <=> tkt[t].ref \in Orders
    /\ tkt[t].refType = "shop_ask" <=> tkt[t].ref \in Asks
    /\ tkt[t].ref \in Orders => tkt[t].to = ord[tkt[t].ref].from
    /\ tkt[t].ref \in Asks => {tkt[t].from, tkt[t].to} = {ask[tkt[t].ref].from, ask[tkt[t].ref].to}

TicketKnows(t) ==
    Alive(t) =>
        /\ RefFits(t)
        /\ tkt[t].ref \in Requests => /\ req[tkt[t].ref].ticket = t
                                      /\ req[tkt[t].ref].st = RequestStatusOf(tkt[t].st)
        /\ tkt[t].ref \in Orders => ord[tkt[t].ref].st = "Dispatched"
        /\ tkt[t].ref \in Asks => ask[tkt[t].ref].st = "Sent"
        /\ \A u \in Tickets : Alive(u) /\ tkt[u].ref = tkt[t].ref /\ tkt[t].ref # NoDocument => u = t

\* A redirected request may outlive its ticket, which is cancelled without it.
RequestKnows(r) ==
    req[r].st \in Walked =>
        /\ req[r].ticket \in Tickets
        /\ Drawn(tkt[req[r].ticket].st) /\ tkt[req[r].ticket].ref = r
        /\ tkt[req[r].ticket].refType = "request" => Alive(req[r].ticket)

HasTicket(d) == \E t \in Tickets : Alive(t) /\ tkt[t].ref = d

PaperInv ==
    /\ \A t \in Tickets : TicketKnows(t)
    /\ \A r \in Requests : RequestKnows(r)
    /\ \A d \in Orders : ord[d].st = "Dispatched" => HasTicket(d)
    /\ \A a \in Asks : ask[a].st = "Sent" => HasTicket(a)

\* A request whose row a decision holds is still as it was sent.
DecisionsWait == \A r \in Requests : pend[r].at # "idle" => req[r].st = "Request sent"

DocInv == TypeOK /\ PaperInv /\ DecisionsWait

\* An outlet stays idle from the moment a close counted nothing on it.
ClosingIdle == \A o \in Outlets : closing[o] \/ ~active[o] => Idleness(o)

\* What TypeOK says of the rows the documents' proofs read.
LEMMA Rows ==
    ASSUME TypeOK
    PROVE  /\ tkt \in [Tickets -> TicketRow] /\ req \in [Requests -> RequestRow]
           /\ ord \in [Orders -> OrderRow] /\ ask \in [Asks -> AskRow]
           /\ pend \in [Requests -> DecisionRow]
           /\ rsv \in [Tickets -> Lines] /\ onHand \in [Locs -> [Items -> Nat]]
           /\ active \in [Outlets -> BOOLEAN] /\ closing \in [Outlets -> BOOLEAN]
  BY DEF TypeOK

\* A request that no step of a ticket has reached is in none of its walk's statuses.
LEMMA NoTicketYet ==
    ASSUME PaperInv, NEW d, NEW t \in Tickets, Alive(t), tkt[t].ref = d
    PROVE  /\ d \in Requests => req[d].st \in Walked
           /\ d \in Orders => ord[d].st = "Dispatched"
           /\ d \in Asks => ask[d].st = "Sent"
<1>1. RequestStatusOf(tkt[t].st) \in Walked
  BY DEF RequestStatusOf, Walked
<1> QED
  BY <1>1 DEF PaperInv, TicketKnows

\* A document without a ticket, of each kind, moves on.
LEMMA RequestMoves ==
    ASSUME PaperInv, UNCHANGED <<tkt, ord, ask>>, NEW r \in Requests,
           \A s \in Requests : s # r => req'[s] = req[s],
           req[r].st \notin Walked, req'[r].st \notin Walked
    PROVE  PaperInv'
<1>1. ASSUME NEW t \in Tickets PROVE TicketKnows(t)'
  <2>1. TicketKnows(t) /\ (Alive(t) => tkt[t].ref # r)
    BY NoTicketYet DEF PaperInv
  <2> QED
    BY <2>1 DEF TicketKnows, Alive, RefFits
<1>2. ASSUME NEW s \in Requests PROVE RequestKnows(s)'
  <2>1. CASE s = r
    BY <2>1 DEF RequestKnows, Walked
  <2>2. CASE s # r
    <3>1. RequestKnows(s) /\ req'[s] = req[s]
      BY <2>2 DEF PaperInv
    <3> QED
      BY <3>1 DEF RequestKnows, Alive, Walked
  <2> QED
    BY <2>1, <2>2
<1> QED
  BY <1>1, <1>2 DEF PaperInv, HasTicket, Alive

LEMMA OrderMoves ==
    ASSUME PaperInv, UNCHANGED <<tkt, req, ask>>, NEW d \in Orders,
           \A e \in Orders : e # d => ord'[e] = ord[e],
           ord[d].st # "Dispatched", ord'[d].st # "Dispatched"
    PROVE  PaperInv'
<1>1. ASSUME NEW t \in Tickets PROVE TicketKnows(t)'
  <2>1. TicketKnows(t) /\ (Alive(t) => tkt[t].ref # d)
    BY NoTicketYet DEF PaperInv
  <2> QED
    BY <2>1 DEF TicketKnows, Alive, RefFits
<1> QED
  BY <1>1 DEF PaperInv, HasTicket, Alive, RequestKnows, Walked

LEMMA AskMoves ==
    ASSUME PaperInv, UNCHANGED <<tkt, req, ord>>, NEW a \in Asks,
           \A b \in Asks : b # a => ask'[b] = ask[b],
           ask[a].st # "Sent", ask'[a].st # "Sent"
    PROVE  PaperInv'
<1>1. ASSUME NEW t \in Tickets PROVE TicketKnows(t)'
  <2>1. TicketKnows(t) /\ (Alive(t) => tkt[t].ref # a)
    BY NoTicketYet DEF PaperInv
  <2> QED
    BY <2>1 DEF TicketKnows, Alive, RefFits
<1> QED
  BY <1>1 DEF PaperInv, HasTicket, Alive, RequestKnows, Walked

\* No document and no ticket moves.
LEMMA PaperUntouched ==
    ASSUME PaperInv, UNCHANGED <<tkt, req, ord, ask>>
    PROVE  PaperInv'
<1>1. ASSUME NEW t \in Tickets PROVE TicketKnows(t)'
  <2>1. TicketKnows(t)
    BY DEF PaperInv
  <2> QED
    BY <2>1 DEF TicketKnows, Alive, RefFits
<1> QED
  BY <1>1 DEF PaperInv, HasTicket, Alive, RequestKnows, Walked

\* A fresh ticket is written for a document that has none, and the document says so.
WrittenFor(t, refType, ref, from, to) ==
    /\ ref # NoDocument => \A u \in Tickets : Alive(u) => tkt[u].ref # ref
    /\ refType = "request" => ref \in Requests
    /\ refType = "prod_order" <=> ref \in Orders
    /\ refType = "shop_ask" <=> ref \in Asks
    /\ \A s \in Requests : s # ref => req'[s] = req[s]
    /\ \A e \in Orders : e # ref => ord'[e] = ord[e]
    /\ \A b \in Asks : b # ref => ask'[b] = ask[b]
    /\ ref \in Requests => req'[ref].ticket = t /\ req'[ref].st = "Ticket issued"
    /\ ref \in Orders => ord'[ref].st = "Dispatched" /\ to = ord'[ref].from
    /\ ref \in Asks => ask'[ref].st = "Sent" /\ {from, to} = {ask'[ref].from, ask'[ref].to}

LEMMA TicketWritten ==
    ASSUME TypeOK, PaperInv, NEW t \in Tickets, NEW refType \in RefTypes,
           NEW ref \in Documents \cup {NoDocument}, NEW from \in Locs, NEW to \in Locs, NEW q,
           WriteTicket(t, refType, ref, from, to, q), WrittenFor(t, refType, ref, from, to)
    PROVE  PaperInv'
<1>0. /\ ref # NoDocument => \A u \in Tickets : Alive(u) => tkt[u].ref # ref
      /\ refType = "request" => ref \in Requests
      /\ refType = "prod_order" <=> ref \in Orders
      /\ refType = "shop_ask" <=> ref \in Asks
      /\ \A s \in Requests : s # ref => req'[s] = req[s]
      /\ \A e \in Orders : e # ref => ord'[e] = ord[e]
      /\ \A b \in Asks : b # ref => ask'[b] = ask[b]
      /\ ref \in Requests => req'[ref].ticket = t /\ req'[ref].st = "Ticket issued"
      /\ ref \in Orders => ord'[ref].st = "Dispatched" /\ to = ord'[ref].from
      /\ ref \in Asks => ask'[ref].st = "Sent" /\ {from, to} = {ask'[ref].from, ask'[ref].to}
  BY DEF WrittenFor
<1>1. /\ ~Drawn(tkt[t].st) /\ ~Alive(t) /\ \A u \in Tickets : u # t => tkt'[u] = tkt[u]
      /\ tkt'[t].st = "Issued" /\ tkt'[t].refType = refType /\ tkt'[t].ref = ref
      /\ tkt'[t].from = from /\ tkt'[t].to = to
  BY Rows DEF WriteTicket, Drawn, Alive
<1>2. ASSUME NEW u \in Tickets, u # t PROVE Alive(u)' <=> Alive(u)
  BY <1>1, <1>2 DEF Alive
<1>3. Alive(t)'
  BY <1>1 DEF Alive
<1>4. ASSUME NEW u \in Tickets, u # t PROVE TicketKnows(u)'
  <2>1. TicketKnows(u) /\ tkt'[u] = tkt[u]
    BY <1>1, <1>4 DEF PaperInv
  <2>2. CASE Alive(u)
    <3>1. ref # NoDocument => tkt[u].ref # ref
      BY <1>0, <2>2
    <3>2. NoDocument \notin Requests /\ NoDocument \notin Orders /\ NoDocument \notin Asks
      BY DocumentAssumption DEF Documents
    <3>3. RefFits(u)'
      BY <1>0, <2>1, <2>2, <3>1, <3>2 DEF RefFits, TicketKnows
    <3>4. \A v \in Tickets : Alive(v)' /\ tkt'[v].ref = tkt[u].ref /\ tkt[u].ref # NoDocument => v = u
      BY <1>1, <1>2, <2>1, <2>2, <3>1 DEF TicketKnows
    <3> QED
      BY <1>0, <2>1, <2>2, <3>1, <3>2, <3>3, <3>4 DEF TicketKnows
  <2>3. CASE ~Alive(u)
    BY <1>2, <1>4, <2>3 DEF TicketKnows
  <2> QED
    BY <2>2, <2>3
<1>5. TicketKnows(t)'
  <2>1. RefFits(t)'
    BY <1>0, <1>1 DEF RefFits
  <2>2. \A v \in Tickets : Alive(v)' /\ tkt'[v].ref = ref /\ ref # NoDocument => v = t
    BY <1>0, <1>1, <1>2
  <2>3. RequestStatusOf("Issued") = "Ticket issued"
    BY DEF RequestStatusOf
  <2>4. RequestStatusOf(tkt[t].st)' = "Ticket issued"
    BY <1>1, <2>3 DEF RequestStatusOf
  <2> QED
    BY <1>0, <1>1, <2>1, <2>2, <2>4 DEF TicketKnows
<1>6. ASSUME NEW s \in Requests PROVE RequestKnows(s)'
  <2>1. CASE s = ref
    BY <1>0, <1>1, <1>3, <2>1 DEF RequestKnows, Drawn
  <2>2. CASE s # ref
    <3>1. RequestKnows(s) /\ req'[s] = req[s]
      BY <1>0, <2>2 DEF PaperInv
    <3>2. req[s].st \in Walked => req[s].ticket # t
      BY <1>1, <3>1 DEF RequestKnows
    <3>3. req[s].st \in Walked => tkt'[req[s].ticket] = tkt[req[s].ticket]
      BY <1>1, <3>1, <3>2 DEF RequestKnows
    <3> QED
      BY <3>1, <3>3 DEF RequestKnows, Drawn, Alive, Walked
  <2> QED
    BY <2>1, <2>2
<1>7. ASSUME NEW d, HasTicket(d) \/ d = ref PROVE HasTicket(d)'
  <2>1. CASE d = ref
    BY <1>1, <1>3, <2>1 DEF HasTicket
  <2>2. CASE HasTicket(d)
    <3>1. PICK u \in Tickets : Alive(u) /\ tkt[u].ref = d
      BY <2>2 DEF HasTicket
    <3>2. u # t
      BY <1>1, <3>1
    <3> QED
      BY <1>1, <1>2, <3>1, <3>2 DEF HasTicket
  <2> QED
    BY <1>7, <2>1, <2>2
<1> QED
  BY <1>0, <1>4, <1>5, <1>6, <1>7 DEF PaperInv

\* A scan moves a ticket on and takes its request along.
LEMMA TicketWalks ==
    ASSUME TypeOK, PaperInv, NEW t \in Tickets, NEW st,
           \/ tkt[t].st = "Issued" /\ st = "Collected" /\ FollowRequest(t, "Collected")
           \/ tkt[t].st = "Collected" /\ st = "Received" /\ FollowRequest(t, "Closed"),
           tkt' = [tkt EXCEPT ![t].st = st], UNCHANGED <<ord, ask>>
    PROVE  PaperInv'
<1>0. PICK next : next = IF st = "Collected" THEN "Collected" ELSE "Closed"
  OBVIOUS
<1>1. /\ tkt'[t].st = st /\ tkt'[t].refType = tkt[t].refType /\ tkt'[t].ref = tkt[t].ref
      /\ tkt'[t].from = tkt[t].from /\ tkt'[t].to = tkt[t].to
      /\ \A u \in Tickets : u # t => tkt'[u] = tkt[u]
  BY Rows DEF TicketRow
<1>2. Alive(t) /\ Alive(t)' /\ TicketKnows(t) /\ RefFits(t)
  BY <1>1 DEF Alive, PaperInv, TicketKnows
<1>3. ASSUME NEW u \in Tickets PROVE (Alive(u)' <=> Alive(u)) /\ tkt'[u].ref = tkt[u].ref
  BY <1>1, <1>2 DEF Alive
<1>4. ASSUME NEW s \in Requests, s # tkt[t].ref PROVE req'[s] = req[s]
  BY <1>4 DEF FollowRequest, LinkedRequest
<1>5. ASSUME NEW s \in Requests, s = tkt[t].ref
      PROVE  req'[s].st = next /\ req'[s].ticket = t /\ req[s].ticket = t
  <2>1. req[s].ticket = t /\ req[s].st = RequestStatusOf(tkt[t].st) /\ req[s] \in RequestRow
    BY <1>2, <1>5, Rows DEF TicketKnows
  <2>2. next \in REQUEST_TRANSITIONS(req[s].st)
    BY <1>0, <2>1 DEF REQUEST_TRANSITIONS, RequestStatusOf
  <2>3. FollowRequest(t, next)
    BY <1>0
  <2>4. req'[s] = [req[s] EXCEPT !.st = next]
    BY <1>5, <2>2, <2>3 DEF FollowRequest, LinkedRequest
  <2> QED
    BY <2>1, <2>4 DEF RequestRow
<1>6. ASSUME NEW u \in Tickets PROVE RefFits(u) => RefFits(u)'
  BY <1>1 DEF RefFits
<1>7. ASSUME NEW u \in Tickets, u # t PROVE TicketKnows(u)'
  <2>1. TicketKnows(u) /\ tkt'[u] = tkt[u]
    BY <1>1, <1>7 DEF PaperInv
  <2>2. Alive(u) /\ tkt[u].ref # NoDocument => tkt[u].ref # tkt[t].ref
    BY <1>2, <1>7, <2>1 DEF TicketKnows
  <2>3. NoDocument \notin Requests
    BY DocumentAssumption DEF Documents
  <2>4. Alive(u) /\ tkt[u].ref \in Requests => req'[tkt[u].ref] = req[tkt[u].ref]
    BY <1>4, <2>2, <2>3
  <2>5. Alive(u) => \A v \in Tickets : Alive(v)' /\ tkt'[v].ref = tkt[u].ref /\ tkt[u].ref # NoDocument => v = u
    BY <1>3, <2>1 DEF TicketKnows
  <2> QED
    BY <1>3, <1>6, <2>1, <2>4, <2>5 DEF TicketKnows
<1>8. TicketKnows(t)'
  <2>1. \A v \in Tickets : Alive(v)' /\ tkt'[v].ref = tkt[t].ref /\ tkt[t].ref # NoDocument => v = t
    BY <1>2, <1>3 DEF TicketKnows
  <2>2. RequestStatusOf(tkt[t].st)' = next
    BY <1>0, <1>1 DEF RequestStatusOf
  <2> QED
    BY <1>1, <1>2, <1>5, <1>6, <2>1, <2>2 DEF TicketKnows
<1>9. ASSUME NEW s \in Requests PROVE RequestKnows(s)'
  <2>1. CASE s = tkt[t].ref
    BY <1>1, <1>2, <1>5, <2>1 DEF RequestKnows, Drawn, Alive
  <2>2. CASE s # tkt[t].ref
    <3>1. RequestKnows(s) /\ req'[s] = req[s]
      BY <1>4, <2>2 DEF PaperInv
    <3>2. req[s].st \in Walked => req[s].ticket # t
      BY <2>2, <3>1 DEF RequestKnows
    <3>3. req[s].st \in Walked => tkt'[req[s].ticket] = tkt[req[s].ticket]
      BY <1>1, <3>1, <3>2 DEF RequestKnows
    <3> QED
      BY <3>1, <3>3 DEF RequestKnows, Drawn, Alive, Walked
  <2> QED
    BY <2>1, <2>2
<1>10. \A d : HasTicket(d) => HasTicket(d)'
  BY <1>3 DEF HasTicket
<1> QED
  BY <1>7, <1>8, <1>9, <1>10 DEF PaperInv

\* A cancelled ticket lets its document go; a redirected request it cannot find.
LEMMA TicketCancelled ==
    ASSUME TypeOK, PaperInv, NEW t \in Tickets, CancelTicket(t)
    PROVE  PaperInv'
<1> PICK d : d = tkt[t].ref
  OBVIOUS
<1> PICK kind : kind = tkt[t].refType
  OBVIOUS
<1>1. /\ tkt[t].st = "Issued" /\ tkt' = [tkt EXCEPT ![t].st = "Cancelled"]
      /\ tkt'[t].st = "Cancelled" /\ tkt'[t].refType = kind /\ tkt'[t].ref = d
      /\ \A u \in Tickets : u # t => tkt'[u] = tkt[u]
  BY Rows DEF CancelTicket, TICKET_TRANSITIONS, TicketRow
<1>2. Alive(t) /\ ~Alive(t)' /\ TicketKnows(t) /\ RefFits(t)
  BY <1>1 DEF Alive, PaperInv, TicketKnows
<1>3. ASSUME NEW u \in Tickets, u # t PROVE (Alive(u)' <=> Alive(u)) /\ tkt'[u] = tkt[u]
  BY <1>1, <1>3 DEF Alive
<1>4. ASSUME NEW s \in Requests
      PROVE  /\ kind = "request" /\ s = d => req'[s].st \notin Walked
             /\ ~(kind = "request" /\ s = d) => req'[s] = req[s]
  <2>1. req' = [r \in Requests |-> IF kind = "request" /\ r = d
                                   THEN [req[r] EXCEPT !.st = ApprovedStatus(req[r].lines, req[r].appr),
                                                       !.ticket = NoDocument]
                                   ELSE req[r]]
    BY DEF CancelTicket
  <2>2. ApprovedStatus(req[s].lines, req[s].appr) \notin Walked
    BY DEF ApprovedStatus, Walked
  <2> QED
    BY <2>1, <2>2, Rows DEF RequestRow
<1>5. ASSUME NEW e \in Orders
      PROVE  /\ ord'[e].from = ord[e].from
             /\ kind = "prod_order" /\ e = d => ord'[e].st = "Ready"
             /\ ~(kind = "prod_order" /\ e = d) => ord'[e] = ord[e]
  BY Rows DEF CancelTicket, OrderRow
<1>6. ASSUME NEW a \in Asks
      PROVE  /\ ask'[a].from = ask[a].from /\ ask'[a].to = ask[a].to
             /\ kind = "shop_ask" /\ a = d => ask'[a].st = "Asked"
             /\ ~(kind = "shop_ask" /\ a = d) => ask'[a] = ask[a]
  BY Rows DEF CancelTicket, AskRow
<1>7. ASSUME NEW u \in Tickets PROVE TicketKnows(u)'
  <2>1. CASE u = t
    BY <1>2, <2>1 DEF TicketKnows
  <2>2. CASE u # t /\ ~Alive(u)
    BY <1>3, <2>2 DEF TicketKnows
  <2>3. CASE u # t /\ Alive(u)
    <3>1. TicketKnows(u) /\ tkt'[u] = tkt[u] /\ (tkt[u].ref # NoDocument => tkt[u].ref # d)
      BY <1>2, <1>3, <2>3 DEF PaperInv, TicketKnows
    <3>2. NoDocument \notin Requests /\ NoDocument \notin Orders /\ NoDocument \notin Asks
      BY DocumentAssumption DEF Documents
    <3>3. /\ tkt[u].ref \in Requests => req'[tkt[u].ref] = req[tkt[u].ref]
          /\ tkt[u].ref \in Orders => ord'[tkt[u].ref] = ord[tkt[u].ref]
          /\ tkt[u].ref \in Asks => ask'[tkt[u].ref] = ask[tkt[u].ref]
      BY <1>4, <1>5, <1>6, <3>1, <3>2
    <3>4. RefFits(u)'
      BY <2>3, <3>1, <3>3 DEF RefFits, TicketKnows
    <3>5. \A v \in Tickets : Alive(v)' /\ tkt'[v].ref = tkt[u].ref /\ tkt[u].ref # NoDocument => v = u
      BY <1>2, <1>3, <2>3, <3>1 DEF TicketKnows
    <3> QED
      BY <2>3, <3>1, <3>3, <3>4, <3>5 DEF TicketKnows
  <2> QED
    BY <2>1, <2>2, <2>3
<1>8. ASSUME NEW s \in Requests PROVE RequestKnows(s)'
  <2>1. CASE kind = "request" /\ s = d
    BY <1>4, <2>1 DEF RequestKnows
  <2>2. CASE ~(kind = "request" /\ s = d)
    <3>1. RequestKnows(s) /\ req'[s] = req[s]
      BY <1>4, <2>2 DEF PaperInv
    <3>2. CASE req[s].st \in Walked /\ req[s].ticket = t
      BY <1>1, <2>2, <3>1, <3>2 DEF RequestKnows, Drawn
    <3>3. CASE req[s].st \in Walked /\ req[s].ticket # t
      BY <1>1, <3>1, <3>3 DEF RequestKnows, Drawn, Alive
    <3>4. CASE req[s].st \notin Walked
      BY <3>1, <3>4 DEF RequestKnows, Walked
    <3> QED
      BY <3>2, <3>3, <3>4
  <2> QED
    BY <2>1, <2>2
<1>9. ASSUME NEW e, e # d, HasTicket(e) PROVE HasTicket(e)'
  BY <1>3, <1>9 DEF HasTicket
<1>10. ASSUME NEW e \in Orders, ord'[e].st = "Dispatched" PROVE HasTicket(e)'
  <2>1. e # d
    BY <1>2, <1>5, <1>10 DEF RefFits
  <2> QED
    BY <1>5, <1>9, <1>10, <2>1 DEF PaperInv
<1>11. ASSUME NEW a \in Asks, ask'[a].st = "Sent" PROVE HasTicket(a)'
  <2>1. a # d
    BY <1>2, <1>6, <1>11 DEF RefFits
  <2> QED
    BY <1>6, <1>9, <1>11, <2>1 DEF PaperInv
<1> QED
  BY <1>7, <1>8, <1>10, <1>11 DEF PaperInv

\* The documents and the decisions on them survive the steps on requests.
LEMMA RequestStepPaper ==
    ASSUME DocInv, RequestStep
    PROVE  PaperInv' /\ DecisionsWait'
<1> PICK r \in Requests :
           \/ \E from \in Outlets \cup {Kitchen}, q \in RealLines : CreateRequest(r, from, q)
           \/ CancelRequest(r)
           \/ RejectRequest(r)
           \/ ApproveReadStock(r)
           \/ ApproveReadHeld(r)
           \/ ApproveReadOpen(r)
           \/ \E want \in Lines : ApproveCommit(r, want)
           \/ \E src \in Outlets : RedirectRead(r, src)
           \/ \E t \in Tickets : RedirectCommit(r, t)
           \/ Rollback(r)
           \/ \E t \in Tickets : Issue(r, t)
  BY DEF RequestStep
<1>0. /\ PaperInv /\ DecisionsWait /\ TypeOK
      /\ req \in [Requests -> RequestRow] /\ req[r] \in RequestRow
      /\ pend \in [Requests -> DecisionRow] /\ pend[r] \in DecisionRow
  BY Rows DEF DocInv
<1>1. ASSUME \A s \in Requests : s # r => req'[s] = req[s] /\ pend'[s] = pend[s],
             pend'[r].at = "idle" \/ req'[r].st = "Request sent"
      PROVE  DecisionsWait'
  BY <1>0, <1>1 DEF DecisionsWait
<1>2. ASSUME NEW from, NEW q, CreateRequest(r, from, q)
      PROVE  PaperInv' /\ DecisionsWait'
  <2>1. /\ \A s \in Requests : s # r => req'[s] = req[s] /\ pend'[s] = pend[s]
        /\ req[r].st = "Not drawn" /\ req'[r].st = "Request sent" /\ UNCHANGED <<tkt, ord, ask>>
    BY <1>0, <1>2 DEF CreateRequest, Drawn
  <2>2. req[r].st \notin Walked /\ req'[r].st \notin Walked
    BY <2>1 DEF Walked
  <2> QED
    BY <1>0, <1>1, <2>1, <2>2, RequestMoves
<1>3. CASE CancelRequest(r) \/ RejectRequest(r)
  <2>1. /\ \A s \in Requests : s # r => req'[s] = req[s] /\ pend'[s] = pend[s]
        /\ req'[r].st \in {"Cancelled", "Rejected"} /\ pend'[r].at = "idle"
        /\ UNCHANGED <<tkt, ord, ask>>
    <3>1. PICK st \in {"Cancelled", "Rejected"} :
              req' = [req EXCEPT ![r].st = st] /\ pend[r].at = "idle" /\ UNCHANGED <<pend, tkt, ord, ask>>
      BY <1>3 DEF CancelRequest, RejectRequest, RowFree
    <3> QED
      BY <1>0, <3>1 DEF RequestRow
  <2>2. req[r].st \notin Walked
    BY <1>3 DEF CancelRequest, RejectRequest, REQUEST_TRANSITIONS, Walked
  <2>3. req'[r].st \notin Walked
    BY <2>1 DEF Walked
  <2> QED
    BY <1>0, <1>1, <2>1, <2>2, <2>3, RequestMoves
<1>4. ASSUME UNCHANGED <<tkt, req, ord, ask>>, req[r].st = "Request sent" \/ pend'[r].at = "idle",
             \A s \in Requests : s # r => pend'[s] = pend[s]
      PROVE  PaperInv' /\ DecisionsWait'
  BY <1>0, <1>1, <1>4, PaperUntouched
<1>5. CASE ApproveReadStock(r) \/ ApproveReadHeld(r) \/ ApproveReadOpen(r)
  <2>1. req[r].st = "Request sent"
    BY <1>0, <1>5 DEF ApproveReadStock, ApproveReadHeld, ApproveReadOpen, DecisionsWait
  <2>2. UNCHANGED <<tkt, req, ord, ask>> /\ \A s \in Requests : s # r => pend'[s] = pend[s]
    BY <1>0, <1>5 DEF ApproveReadStock, ApproveReadHeld, ApproveReadOpen
  <2> QED
    BY <1>4, <2>1, <2>2
<1>6. ASSUME NEW want, ApproveCommit(r, want)
      PROVE  PaperInv' /\ DecisionsWait'
  <2>1. PICK appr : appr = PlanApproval(req[r].lines, want, pend[r].free)
    OBVIOUS
  <2>2. PICK st : st = IF appr = Nothing THEN "Rejected" ELSE ApprovedStatus(req[r].lines, appr)
    OBVIOUS
  <2>3. st \notin Walked
    BY <2>2 DEF ApprovedStatus, Walked
  <2>4. req' = [req EXCEPT ![r] = [req[r] EXCEPT !.st = st, !.appr = appr]]
        /\ pend' = [pend EXCEPT ![r] = Idle] /\ UNCHANGED <<tkt, ord, ask>>
    BY <1>0, <1>6, <2>1, <2>2 DEF ApproveCommit, RequestRow
  <2>5. /\ \A s \in Requests : s # r => req'[s] = req[s] /\ pend'[s] = pend[s]
        /\ req'[r].st = st /\ pend'[r].at = "idle"
    BY <1>0, <2>4 DEF RequestRow, Idle
  <2>6. req[r].st = "Request sent"
    BY <1>0, <1>6 DEF ApproveCommit, DecisionsWait
  <2>7. req[r].st \notin Walked
    BY <2>6 DEF Walked
  <2> QED
    BY <1>0, <1>1, <2>3, <2>4, <2>5, <2>7, RequestMoves
<1>7. ASSUME NEW src, RedirectRead(r, src)
      PROVE  PaperInv' /\ DecisionsWait'
  BY <1>0, <1>4, <1>7 DEF RedirectRead
<1>8. CASE Rollback(r)
  <2>1. pend'[r].at = "idle" /\ UNCHANGED <<tkt, req, ord, ask>>
        /\ \A s \in Requests : s # r => pend'[s] = pend[s]
    BY <1>0, <1>8 DEF Rollback, Idle
  <2> QED
    BY <1>4, <2>1
\* The two that write a ticket for the request.
<1>9. ASSUME NEW t \in Tickets, NEW kind \in {"request", "shop_transfer"}, NEW from \in Locs, NEW q,
             WriteTicket(t, kind, r, from, req[r].from, q),
             req[r].st \notin Walked,
             req'[r].st = "Ticket issued", req'[r].ticket = t, pend'[r].at = "idle",
             \A s \in Requests : s # r => req'[s] = req[s] /\ pend'[s] = pend[s],
             UNCHANGED <<ord, ask>>
      PROVE  PaperInv' /\ DecisionsWait'
  <2>1. r \in Documents /\ r \notin Orders /\ r \notin Asks /\ r # NoDocument
    BY DocumentAssumption DEF Documents
  <2>2. req[r].from \in Locs /\ kind \in RefTypes /\ kind # "prod_order" /\ kind # "shop_ask"
    BY <1>0 DEF RequestRow, RefTypes
  <2>3. \A u \in Tickets : Alive(u) => tkt[u].ref # r
    BY <1>0, <1>9, NoTicketYet
  <2>4. /\ \A s \in Requests : s # r => req'[s] = req[s]
        /\ \A e \in Orders : e # r => ord'[e] = ord[e]
        /\ \A b \in Asks : b # r => ask'[b] = ask[b]
        /\ kind = "prod_order" <=> r \in Orders
        /\ kind = "shop_ask" <=> r \in Asks
    BY <1>9, <2>1, <2>2
  <2>5. WrittenFor(t, kind, r, from, req[r].from)
    BY <1>9, <2>1, <2>3, <2>4 DEF WrittenFor
  <2>6. PaperInv'
    BY <1>0, <1>9, <2>1, <2>2, <2>5, TicketWritten
  <2> QED
    BY <1>1, <1>9, <2>6
<1>10. ASSUME NEW t \in Tickets, RedirectCommit(r, t)
       PROVE  PaperInv' /\ DecisionsWait'
  <2>1. req[r].st = "Request sent"
    BY <1>0, <1>10 DEF RedirectCommit, DecisionsWait
  <2>2. req[r].st \notin Walked /\ pend[r].src \in Locs
    BY <1>0, <2>1 DEF Walked, DecisionRow
  <2>3. req' = [req EXCEPT ![r] = [req[r] EXCEPT !.st = "Ticket issued", !.appr = req[r].lines, !.ticket = t]]
        /\ pend' = [pend EXCEPT ![r] = Idle] /\ UNCHANGED <<ord, ask>>
        /\ WriteTicket(t, "shop_transfer", r, pend[r].src, req[r].from, req[r].lines)
    BY <1>0, <1>10 DEF RedirectCommit, RequestRow
  <2>4. /\ \A s \in Requests : s # r => req'[s] = req[s] /\ pend'[s] = pend[s]
        /\ req'[r].st = "Ticket issued" /\ req'[r].ticket = t /\ pend'[r].at = "idle"
    BY <1>0, <2>3 DEF RequestRow, Idle
  <2> QED
    BY <1>9, <2>2, <2>3, <2>4
<1>11. ASSUME NEW t \in Tickets, Issue(r, t)
       PROVE  PaperInv' /\ DecisionsWait'
  <2>1. req[r].st \notin Walked
    BY <1>11 DEF Issue, REQUEST_TRANSITIONS, Walked
  <2>2. req' = [req EXCEPT ![r] = [req[r] EXCEPT !.st = "Ticket issued", !.ticket = t]]
        /\ UNCHANGED <<pend, ord, ask>> /\ pend[r].at = "idle"
        /\ WriteTicket(t, "request", r, Store, req[r].from, req[r].appr)
    BY <1>0, <1>11 DEF Issue, RequestRow, RowFree
  <2>3. /\ \A s \in Requests : s # r => req'[s] = req[s] /\ pend'[s] = pend[s]
        /\ req'[r].st = "Ticket issued" /\ req'[r].ticket = t /\ pend'[r].at = "idle"
    BY <1>0, <2>2 DEF RequestRow
  <2> QED
    BY <1>9, <2>1, <2>2, <2>3, LocsType
<1> QED
  BY <1>2, <1>3, <1>5, <1>6, <1>7, <1>8, <1>10, <1>11

\* And the steps of shops, kitchen, scans, shelves and outlets.
LEMMA OtherStepPaper ==
    ASSUME DocInv, ShopStep \/ KitchenStep \/ ScanStep \/ ShelfStep \/ OutletStep \/ UNCHANGED vars
    PROVE  PaperInv' /\ DecisionsWait'
<1>0. PaperInv /\ DecisionsWait /\ TypeOK
  BY DEF DocInv
<1>1. ASSUME UNCHANGED <<req, pend>> PROVE DecisionsWait'
  BY <1>0, <1>1 DEF DecisionsWait
<1>2. ASSUME UNCHANGED <<tkt, req, pend, ord, ask>> PROVE PaperInv' /\ DecisionsWait'
  BY <1>0, <1>1, <1>2, PaperUntouched
\* A ticket without a document behind it.
<1>3. ASSUME NEW t \in Tickets, NEW kind \in {"shop_transfer", "direct"}, NEW from \in Locs,
             NEW to \in Locs, NEW q, WriteTicket(t, kind, NoDocument, from, to, q),
             UNCHANGED <<req, pend, ord, ask>>
      PROVE  PaperInv' /\ DecisionsWait'
  <2>1. NoDocument \notin Requests /\ NoDocument \notin Orders /\ NoDocument \notin Asks
    BY DocumentAssumption DEF Documents
  <2>2. kind \in RefTypes /\ kind \notin {"request", "prod_order", "shop_ask"}
    BY DEF RefTypes
  <2> QED
    <3>1. WrittenFor(t, kind, NoDocument, from, to)
      BY <1>3, <2>1, <2>2 DEF WrittenFor
    <3> QED
      BY <1>0, <1>1, <1>3, <2>2, <3>1, TicketWritten
<1>4. ASSUME NEW a \in Asks, NEW from, NEW to, NEW i, NEW q, AskShop(a, from, to, i, q)
      PROVE  PaperInv' /\ DecisionsWait'
  <2>1. /\ ask[a].st = "Not drawn" /\ ask'[a].st = "Asked" /\ \A b \in Asks : b # a => ask'[b] = ask[b]
        /\ UNCHANGED <<tkt, req, pend, ord>>
    BY <1>0, <1>4, Rows DEF AskShop, Drawn
  <2> QED
    BY <1>0, <1>1, <2>1, AskMoves
<1>5. ASSUME NEW a \in Asks, DeclineAsk(a)
      PROVE  PaperInv' /\ DecisionsWait'
  <2>1. /\ ask[a].st = "Asked" /\ ask'[a].st = "Declined" /\ \A b \in Asks : b # a => ask'[b] = ask[b]
        /\ UNCHANGED <<tkt, req, pend, ord>>
    BY <1>0, <1>5, Rows DEF DeclineAsk, SHOP_ASK_TRANSITIONS, AskRow
  <2> QED
    BY <1>0, <1>1, <2>1, AskMoves
<1>6. ASSUME NEW a \in Asks, NEW t \in Tickets, NEW grant, Answer(a, t, grant)
      PROVE  PaperInv' /\ DecisionsWait'
  <2>1. /\ ask[a].st = "Asked" /\ ask' = [ask EXCEPT ![a].st = "Sent"] /\ ask[a] \in AskRow
        /\ UNCHANGED <<req, pend, ord>> /\ WriteTicket(t, "shop_ask", a, ask[a].to, ask[a].from, grant)
    BY <1>0, <1>6, Rows DEF Answer, SHOP_ASK_TRANSITIONS
  <2>2. /\ ask'[a].st = "Sent" /\ ask'[a].from = ask[a].from /\ ask'[a].to = ask[a].to
        /\ \A b \in Asks : b # a => ask'[b] = ask[b]
    BY <1>0, <2>1, Rows DEF AskRow
  <2>3. a \in Documents /\ a \notin Orders /\ a \notin Requests /\ a # NoDocument
    BY DocumentAssumption DEF Documents
  <2>4. \A u \in Tickets : Alive(u) => tkt[u].ref # a
    BY <1>0, <2>1, NoTicketYet
  <2>5. ask[a].to \in Locs /\ ask[a].from \in Locs /\ "shop_ask" \in RefTypes
    BY <2>1 DEF AskRow, RefTypes
  <2>6. {ask[a].to, ask[a].from} = {ask'[a].from, ask'[a].to}
    BY <2>2
  <2>7. /\ \A s \in Requests : s # a => req'[s] = req[s]
        /\ \A e \in Orders : e # a => ord'[e] = ord[e]
    BY <2>1
  <2>8. WrittenFor(t, "shop_ask", a, ask[a].to, ask[a].from)
    BY <2>2, <2>3, <2>4, <2>6, <2>7 DEF WrittenFor
  <2>9. PaperInv'
    BY <1>0, <2>1, <2>3, <2>5, <2>8, TicketWritten
  <2> QED
    BY <1>1, <2>1, <2>9
<1>7. CASE ShopStep
  <2>1. ASSUME NEW t \in Tickets, NEW from \in Outlets, NEW to \in Outlets, NEW i, NEW q,
               Transfer(t, from, to, i, q)
        PROVE  PaperInv' /\ DecisionsWait'
    BY <1>3, <2>1, LocsType DEF Transfer
  <2> QED
    BY <1>4, <1>5, <1>6, <1>7, <2>1 DEF ShopStep
<1>8. ASSUME NEW d \in Orders, NEW from, NEW q, RaiseOrder(d, from, q)
      PROVE  PaperInv' /\ DecisionsWait'
  <2>1. /\ ord[d].st = "Not drawn" /\ ord'[d].st = "New" /\ \A e \in Orders : e # d => ord'[e] = ord[e]
        /\ UNCHANGED <<tkt, req, pend, ask>>
    BY <1>0, <1>8, Rows DEF RaiseOrder, Drawn
  <2> QED
    BY <1>0, <1>1, <2>1, OrderMoves
<1>9. ASSUME NEW d \in Orders, NEW st, SetOrderStatus(d, st)
      PROVE  PaperInv' /\ DecisionsWait'
  <2>1. /\ ord[d].st # "Dispatched" /\ ord'[d].st = st /\ st # "Dispatched"
        /\ \A e \in Orders : e # d => ord'[e] = ord[e] /\ UNCHANGED <<tkt, req, pend, ask>>
    BY <1>0, <1>9, Rows DEF SetOrderStatus, OrderRow
  <2>2. UNCHANGED <<tkt, req, pend, ask>>
    BY <1>9 DEF SetOrderStatus
  <2> QED
    BY <1>0, <1>1, <2>1, <2>2, OrderMoves
<1>10. ASSUME NEW d \in Orders, NEW t \in Tickets, Dispatch(d, t)
       PROVE  PaperInv' /\ DecisionsWait'
  <2>1. /\ ord[d].st # "Dispatched" /\ ord' = [ord EXCEPT ![d].st = "Dispatched"] /\ ord[d] \in OrderRow
        /\ UNCHANGED <<req, pend, ask>>
        /\ WriteTicket(t, "prod_order", d, Kitchen, ord[d].from, ord[d].lines)
    BY <1>0, <1>10, Rows DEF Dispatch, PROD_ORDER_TRANSITIONS
  <2>2. /\ ord'[d].st = "Dispatched" /\ ord'[d].from = ord[d].from
        /\ \A e \in Orders : e # d => ord'[e] = ord[e]
    BY <1>0, <2>1, Rows DEF OrderRow
  <2>3. d \in Documents /\ d \notin Requests /\ d \notin Asks /\ d # NoDocument
    BY DocumentAssumption DEF Documents
  <2>4. \A u \in Tickets : Alive(u) => tkt[u].ref # d
    BY <1>0, <2>1, NoTicketYet
  <2>5. ord[d].from \in Locs /\ "prod_order" \in RefTypes
    BY <2>1 DEF OrderRow, RefTypes
  <2>6. /\ \A s \in Requests : s # d => req'[s] = req[s]
        /\ \A b \in Asks : b # d => ask'[b] = ask[b]
    BY <2>1
  <2>7. WrittenFor(t, "prod_order", d, Kitchen, ord[d].from)
    BY <2>2, <2>3, <2>4, <2>6 DEF WrittenFor
  <2>8. PaperInv'
    BY <1>0, <2>1, <2>3, <2>5, <2>7, LocsType, TicketWritten
  <2> QED
    BY <1>1, <2>1, <2>8
<1>11. CASE KitchenStep
  <2>1. ASSUME NEW t \in Tickets, NEW to \in Locs, NEW i, NEW q, Distribute(t, to, i, q)
        PROVE  PaperInv' /\ DecisionsWait'
    BY <1>3, <2>1, LocsType DEF Distribute
  <2>2. ASSUME NEW i, NEW q, MakeBatch(i, q)
        PROVE  PaperInv' /\ DecisionsWait'
    BY <1>2, <2>2 DEF MakeBatch
  <2> QED
    BY <1>8, <1>9, <1>10, <1>11, <2>1, <2>2 DEF KitchenStep
<1>12. ASSUME NEW t \in Tickets, NEW st, FollowRequest(t, st), UNCHANGED pend,
              \A r \in LinkedRequest(t) : RowFree(r)
       PROVE  DecisionsWait'
  <2>1. \A r \in Requests : pend[r].at # "idle" => req'[r] = req[r]
    BY <1>12 DEF FollowRequest, RowFree
  <2> QED
    BY <1>0, <1>12, <2>1 DEF DecisionsWait
<1>13. CASE ScanStep
  <2> PICK t \in Tickets : Handover(t) \/ WrongOtp(t) \/ Receive(t) \/ CancelTicket(t)
    BY <1>13 DEF ScanStep
  <2>1. CASE Handover(t)
    <3>1. tkt[t].st = "Issued" /\ FollowRequest(t, "Collected") /\ UNCHANGED <<pend, ord, ask>>
          /\ tkt' = [tkt EXCEPT ![t].st = "Collected"] /\ \A r \in LinkedRequest(t) : RowFree(r)
      BY <2>1 DEF Handover, TICKET_TRANSITIONS
    <3> QED
      BY <1>0, <1>12, <3>1, TicketWalks
  <2>2. CASE Receive(t)
    <3>1. tkt[t].st = "Collected" /\ FollowRequest(t, "Closed") /\ UNCHANGED <<pend, ord, ask>>
          /\ tkt' = [tkt EXCEPT ![t].st = "Received"] /\ \A r \in LinkedRequest(t) : RowFree(r)
      BY <2>2 DEF Receive, TICKET_TRANSITIONS
    <3> QED
      BY <1>0, <1>12, <3>1, TicketWalks
  <2>3. CASE WrongOtp(t)
    <3>1. UNCHANGED <<req, pend, ord, ask>>
      BY <2>3 DEF WrongOtp
    <3>2. ASSUME NEW u \in Tickets
          PROVE  /\ tkt'[u].st = tkt[u].st /\ tkt'[u].refType = tkt[u].refType
                 /\ tkt'[u].ref = tkt[u].ref /\ tkt'[u].from = tkt[u].from /\ tkt'[u].to = tkt[u].to
      BY <1>0, <2>3, Rows DEF WrongOtp, TicketRow
    <3>3. ASSUME NEW u \in Tickets PROVE TicketKnows(u)'
      <4>1. TicketKnows(u)
        BY <1>0 DEF PaperInv
      <4>2. RefFits(u) => RefFits(u)'
        BY <3>1, <3>2 DEF RefFits
      <4> QED
        BY <3>1, <3>2, <4>1, <4>2 DEF TicketKnows, Alive, RequestStatusOf
    <3>4. ASSUME NEW r \in Requests PROVE RequestKnows(r)'
      <4>1. RequestKnows(r)
        BY <1>0 DEF PaperInv
      <4> QED
        BY <3>1, <3>2, <4>1 DEF RequestKnows, Drawn, Alive, Walked
    <3>5. \A d : HasTicket(d) => HasTicket(d)'
      BY <3>2 DEF HasTicket, Alive
    <3> QED
      BY <1>0, <1>1, <3>1, <3>3, <3>4, <3>5 DEF PaperInv
  <2>4. CASE CancelTicket(t)
    <3>1. \A r \in Requests : pend[r].at # "idle" => req'[r] = req[r]
      BY <2>4 DEF CancelTicket, RowFree
    <3>2. DecisionsWait'
      BY <1>0, <2>4, <3>1 DEF CancelTicket, DecisionsWait
    <3> QED
      BY <1>0, <2>4, <3>2, TicketCancelled
  <2> QED
    BY <2>1, <2>2, <2>3, <2>4
<1>14. CASE ShelfStep \/ OutletStep \/ UNCHANGED vars
  <2>1. UNCHANGED <<tkt, req, pend, ord, ask>>
    BY <1>14 DEF ShelfStep, OutletStep, Sale, VoidBill, Adjust, LandAtStore, CloseBegin, CloseEnd,
                 ReopenOutlet, vars
  <2> QED
    BY <1>2, <2>1
<1> QED
  BY <1>7, <1>11, <1>13, <1>14

\* Before anything is written no document has a ticket.
LEMMA InitDoc == Init => DocInv
<1> SUFFICES ASSUME Init PROVE DocInv
  OBVIOUS
<1>1. TypeOK
  BY InitType
<1>2. /\ \A t \in Tickets : tkt[t] = NoTicket
      /\ \A r \in Requests : req[r] = NoRequest /\ pend[r] = Idle
      /\ \A d \in Orders : ord[d] = NoOrder
      /\ \A a \in Asks : ask[a] = NoAsk
  BY DEF Init
<1>3. /\ NoTicket.st = "Not drawn" /\ NoRequest.st = "Not drawn" /\ Idle.at = "idle"
      /\ NoOrder.st = "Not drawn" /\ NoAsk.st = "Not drawn"
  BY DEF NoTicket, NoRequest, Idle, NoOrder, NoAsk
<1>4. \A t \in Tickets : TicketKnows(t)
  BY <1>2, <1>3 DEF TicketKnows, Alive
<1>5. \A r \in Requests : RequestKnows(r)
  BY <1>2, <1>3 DEF RequestKnows, Walked
<1>6. PaperInv
  BY <1>2, <1>3, <1>4, <1>5 DEF PaperInv
<1>7. DecisionsWait
  BY <1>2, <1>3 DEF DecisionsWait
<1> QED
  BY <1>1, <1>6, <1>7 DEF DocInv

\* Every step keeps documents and tickets telling the same story.
LEMMA DocStep == DocInv /\ [Next]_vars => DocInv'
<1> SUFFICES ASSUME DocInv, [Next]_vars PROVE DocInv'
  OBVIOUS
<1>1. TypeOK'
  BY NextType DEF DocInv
<1>2. PaperInv' /\ DecisionsWait'
  BY RequestStepPaper, OtherStepPaper DEF Next
<1> QED
  BY <1>1, <1>2 DEF DocInv

LEMMA DocInvariant == Spec => []DocInv
  BY InitDoc, DocStep, PTL DEF Spec

LEMMA LiveIsAlive ==
    ASSUME TypeOK, NEW d, NEW t
    PROVE  t \in LiveTickets(d) <=> t \in Tickets /\ Alive(t) /\ tkt[t].ref = d
<1>1. t \in Tickets => tkt[t].st \in TktStatus \cup {"Not drawn"}
  BY DEF TypeOK, TicketRow
<1> QED
  BY <1>1 DEF LiveTickets, Alive, TktStatus

\* For any number of requests, asks, orders and tickets: no document is ever supplied by two
\* tickets, whatever the order of issues, redirects, dispatches, answers, cancels and presses.
THEOREM DocumentsSuppliedOnce == Spec => []OneLiveTicketPerDocument
<1>1. DocInv => OneLiveTicketPerDocument
  <2> SUFFICES ASSUME DocInv, NEW d \in Documents, NEW t \in LiveTickets(d), NEW u \in LiveTickets(d)
               PROVE  t = u
    BY DEF OneLiveTicketPerDocument
  <2>1. d # NoDocument
    BY DocumentAssumption
  <2>2. /\ t \in Tickets /\ Alive(t) /\ tkt[t].ref = d
        /\ u \in Tickets /\ Alive(u) /\ tkt[u].ref = d
    BY LiveIsAlive DEF DocInv
  <2>3. TicketKnows(t)
    BY <2>2 DEF DocInv, PaperInv
  <2> QED
    BY <2>1, <2>2, <2>3 DEF TicketKnows
<1> QED
  BY <1>1, DocInvariant, PTL

\* For any number of requests, asks, orders and tickets: a document's status and its ticket's
\* never contradict each other.
THEOREM StatusesFollowTickets == Spec => []DocumentsFollowTickets
<1>1. DocInv => DocumentsFollowTickets
  <2> SUFFICES ASSUME DocInv PROVE DocumentsFollowTickets
    OBVIOUS
  <2>1. ASSUME NEW r \in Requests, NEW t \in LiveTickets(r)
        PROVE  req[r].ticket = t /\ req[r].st = RequestStatusOf(tkt[t].st)
    <3>1. t \in Tickets /\ Alive(t) /\ tkt[t].ref = r
      BY <2>1, LiveIsAlive DEF DocInv
    <3>2. TicketKnows(t)
      BY <3>1 DEF DocInv, PaperInv
    <3> QED
      BY <3>1, <3>2 DEF TicketKnows
  <2>2. ASSUME NEW r \in Requests, req[r].st \in {"Ticket issued", "Collected", "Closed"},
               tkt[req[r].ticket].refType = "request"
        PROVE  req[r].ticket \in LiveTickets(r)
    <3>1. RequestKnows(r)
      BY DEF DocInv, PaperInv
    <3>2. req[r].ticket \in Tickets /\ Alive(req[r].ticket) /\ tkt[req[r].ticket].ref = r
      BY <2>2, <3>1 DEF RequestKnows, Walked
    <3> QED
      BY <3>2, LiveIsAlive DEF DocInv
  <2>3. ASSUME NEW d \in Orders PROVE ord[d].st = "Dispatched" <=> LiveTickets(d) # {}
    <3>1. ord[d].st = "Dispatched" => HasTicket(d)
      BY DEF DocInv, PaperInv
    <3>2. ASSUME NEW t \in LiveTickets(d) PROVE ord[d].st = "Dispatched"
      BY <3>2, LiveIsAlive, NoTicketYet DEF DocInv
    <3> QED
      BY <3>1, <3>2, LiveIsAlive DEF DocInv, HasTicket
  <2>4. ASSUME NEW a \in Asks PROVE ask[a].st = "Sent" <=> LiveTickets(a) # {}
    <3>1. ask[a].st = "Sent" => HasTicket(a)
      BY DEF DocInv, PaperInv
    <3>2. ASSUME NEW t \in LiveTickets(a) PROVE ask[a].st = "Sent"
      BY <3>2, LiveIsAlive, NoTicketYet DEF DocInv
    <3> QED
      BY <3>1, <3>2, LiveIsAlive DEF DocInv, HasTicket
  <2> QED
    BY <2>1, <2>2, <2>3, <2>4 DEF DocumentsFollowTickets
<1> QED
  BY <1>1, DocInvariant, PTL
-----------------------------------------------------------------------------
(* Closed outlets.  Most writes that reach an outlet take no lock on its   *)
(* row; they stay off a closed one because each of them needs a document,  *)
(* a ticket or stock that the close counted and found none of.             *)

Shut(o) == closing[o] \/ ~active[o]

\* A row that was never drawn names no outlet.
Blank ==
    /\ \A r \in Requests : req[r].st = "Not drawn" => req[r].from \notin Outlets
    /\ \A d \in Orders : ord[d].st = "Not drawn" => ord[d].from \notin Outlets
    /\ \A a \in Asks : ask[a].st = "Not drawn" => {ask[a].from, ask[a].to} \cap Outlets = {}

\* What a step may do around an idle outlet without waking it.
LeavesAlone(o) ==
    /\ onHand'[o] = onHand[o]
    /\ \A t \in Tickets : \/ tkt'[t] = tkt[t]
                          \/ o \notin {tkt'[t].from, tkt'[t].to}
    /\ \A r \in Requests : \/ req'[r] = req[r]
                           \/ req'[r].from # o
                           \/ req'[r].st \in {"Closed", "Rejected", "Cancelled"}
    /\ \A d \in Orders : ord'[d] = ord[d] \/ ord'[d].from # o
    /\ \A a \in Asks : \/ ask'[a] = ask[a]
                       \/ o \notin {ask'[a].from, ask'[a].to}
                       \/ ask'[a].st = "Declined"

LEMMA StaysIdle ==
    ASSUME NEW o \in Outlets, Idleness(o), LeavesAlone(o)
    PROVE  Idleness(o)'
<1>1. \A i \in Items : onHand'[o][i] = 0
  BY DEF Idleness, LeavesAlone
<1>2. \A t \in Tickets : o \in {tkt'[t].from, tkt'[t].to} => tkt'[t].st \notin {"Issued", "Collected"}
  BY DEF Idleness, LeavesAlone
<1>3. \A r \in Requests : req'[r].from = o => req'[r].st \in {"Closed", "Rejected", "Cancelled"}
  BY DEF Idleness, LeavesAlone
<1>4. \A d \in Orders : ord'[d].from = o => ord'[d].st \in {"Dispatched", "Declined"}
  BY DEF Idleness, LeavesAlone
<1>5. \A a \in Asks : o \in {ask'[a].from, ask'[a].to} => ask'[a].st \in {"Sent", "Declined"}
  BY DEF Idleness, LeavesAlone
<1> QED
  BY <1>1, <1>2, <1>3, <1>4, <1>5 DEF Idleness

\* An empty shelf covers nothing.
LEMMA EmptyShelf ==
    ASSUME TypeOK, NEW o \in Outlets, Idleness(o), NEW q \in Lines, Covers(o, q)
    PROVE  q = Nothing
<1>1. ASSUME NEW i \in Items PROVE q[i] = 0
  <2>1. q[i] <= onHand[o][i] - Held(o, i) /\ onHand[o][i] = 0
    BY DEF Covers, Free, Idleness
  <2>2. Held(o, i) \in Nat /\ q[i] \in Nat
    BY HeldIsNat, LocsType, BoundAssumption DEF Lines
  <2> QED
    BY <2>1, <2>2
<1> QED
  BY <1>1 DEF Nothing, Lines

\* A ticket between two other places, beside a move of the documents alone.
LEMMA TicketElsewhere ==
    ASSUME TypeOK, NEW o, NEW t \in Tickets, NEW kind, NEW ref, NEW from, NEW to, NEW q,
           WriteTicket(t, kind, ref, from, to, q), from # o, to # o
    PROVE  \A u \in Tickets : tkt'[u] = tkt[u] \/ o \notin {tkt'[u].from, tkt'[u].to}
<1>1. /\ \A u \in Tickets : u # t => tkt'[u] = tkt[u]
      /\ tkt'[t].from = from /\ tkt'[t].to = to
  BY Rows DEF WriteTicket
<1> QED
  BY <1>1

\* What stands between a shut outlet and a step that would wake it.
LEMMA ShutOutlet ==
    ASSUME NEW o \in Outlets, Shut(o), Idleness(o)
    PROVE  /\ ~MayName(o)
           /\ o # Store /\ o # Kitchen
           /\ \A t \in Tickets : tkt[t].st \in {"Issued", "Collected"} => tkt[t].from # o /\ tkt[t].to # o
           /\ \A r \in Requests : req[r].st \notin {"Closed", "Rejected", "Cancelled"} => req[r].from # o
           /\ \A d \in Orders : ord[d].st \notin {"Dispatched", "Declined"} => ord[d].from # o
           /\ \A a \in Asks : ask[a].st \notin {"Sent", "Declined"} => ask[a].from # o /\ ask[a].to # o
<1>1. ~MayName(o)
  BY DEF Shut, MayName
<1>2. o # Store /\ o # Kitchen
  BY LocationAssumption
<1> QED
  BY <1>1, <1>2 DEF Idleness

LEMMA RequestStepIdle ==
    ASSUME DocInv, NEW o \in Outlets, Shut(o), Idleness(o), RequestStep
    PROVE  LeavesAlone(o)
<1> PICK r \in Requests :
           \/ \E from \in Outlets \cup {Kitchen}, q \in RealLines : CreateRequest(r, from, q)
           \/ CancelRequest(r)
           \/ RejectRequest(r)
           \/ ApproveReadStock(r)
           \/ ApproveReadHeld(r)
           \/ ApproveReadOpen(r)
           \/ \E want \in Lines : ApproveCommit(r, want)
           \/ \E src \in Outlets : RedirectRead(r, src)
           \/ \E t \in Tickets : RedirectCommit(r, t)
           \/ Rollback(r)
           \/ \E t \in Tickets : Issue(r, t)
  BY DEF RequestStep
<1>0. /\ TypeOK /\ DecisionsWait
      /\ req \in [Requests -> RequestRow] /\ req[r] \in RequestRow /\ pend[r] \in DecisionRow
  BY Rows DEF DocInv
<1>1. /\ ~MayName(o) /\ o # Store /\ o # Kitchen
      /\ req[r].st \notin {"Closed", "Rejected", "Cancelled"} => req[r].from # o
  BY ShutOutlet
\* Only request r moves, and where it stood or to a final status.
<1>2. ASSUME UNCHANGED <<onHand, tkt, ord, ask>>, \A s \in Requests : s # r => req'[s] = req[s],
             \/ req'[r] = req[r]
             \/ req'[r].from # o
             \/ req'[r].st \in {"Closed", "Rejected", "Cancelled"}
      PROVE  LeavesAlone(o)
  BY <1>2 DEF LeavesAlone
<1>3. ASSUME NEW from, NEW q, CreateRequest(r, from, q) PROVE LeavesAlone(o)
  <2>1. from # o
    BY <1>1, <1>3 DEF CreateRequest
  <2>2. \A s \in Requests : s # r => req'[s] = req[s]
    BY <1>0, <1>3 DEF CreateRequest
  <2>3. req'[r].from = from
    BY <1>0, <1>3 DEF CreateRequest
  <2> QED
    BY <1>2, <1>3, <2>1, <2>2, <2>3 DEF CreateRequest
<1>4. CASE CancelRequest(r) \/ RejectRequest(r)
  <2>1. /\ \A s \in Requests : s # r => req'[s] = req[s]
        /\ req'[r].st \in {"Rejected", "Cancelled"}
    BY <1>0, <1>4 DEF CancelRequest, RejectRequest, RequestRow
  <2> QED
    BY <1>2, <1>4, <2>1 DEF CancelRequest, RejectRequest
<1>5. ASSUME UNCHANGED <<onHand, tkt, req, ord, ask>> PROVE LeavesAlone(o)
  BY <1>2, <1>5
<1>6. ASSUME NEW want, ApproveCommit(r, want) PROVE LeavesAlone(o)
  <2>1. req[r].st = "Request sent"
    BY <1>0, <1>6 DEF ApproveCommit, DecisionsWait
  <2>2. req[r].from # o
    BY <1>1, <2>1
  <2>3. /\ \A s \in Requests : s # r => req'[s] = req[s]
        /\ req'[r].from = req[r].from
    BY <1>0, <1>6 DEF ApproveCommit, RequestRow
  <2> QED
    BY <1>2, <1>6, <2>2, <2>3 DEF ApproveCommit
\* A ticket for request r, between two other places.
<1>7. ASSUME NEW t \in Tickets, NEW kind, NEW from, NEW q, WriteTicket(t, kind, r, from, req[r].from, q),
             from # o, req[r].from # o, UNCHANGED <<onHand, ord, ask>>,
             \A s \in Requests : s # r => req'[s] = req[s], req'[r].from = req[r].from
      PROVE  LeavesAlone(o)
  <2>1. \A u \in Tickets : tkt'[u] = tkt[u] \/ o \notin {tkt'[u].from, tkt'[u].to}
    BY <1>0, <1>7, TicketElsewhere
  <2> QED
    BY <1>7, <2>1 DEF LeavesAlone
<1>8. ASSUME NEW t \in Tickets, RedirectCommit(r, t) PROVE LeavesAlone(o)
  <2>1. req[r].st = "Request sent" /\ req[r].from # o
    BY <1>0, <1>1, <1>8 DEF RedirectCommit, DecisionsWait
  <2>2. pend[r].src # o
    <3>1. req[r].lines \in Lines /\ req[r].lines # Nothing /\ Covers(pend[r].src, req[r].lines)
      BY <1>0, <1>8 DEF RedirectCommit, WriteTicket, RequestRow
    <3> QED
      BY <1>0, <3>1, EmptyShelf
  <2>3. /\ \A s \in Requests : s # r => req'[s] = req[s]
        /\ req'[r].from = req[r].from
    BY <1>0, <1>8 DEF RedirectCommit, RequestRow
  <2> QED
    BY <1>7, <1>8, <2>1, <2>2, <2>3 DEF RedirectCommit
<1>9. ASSUME NEW t \in Tickets, Issue(r, t) PROVE LeavesAlone(o)
  <2>1. req[r].from # o
    BY <1>1, <1>9 DEF Issue, REQUEST_TRANSITIONS
  <2>2. /\ \A s \in Requests : s # r => req'[s] = req[s]
        /\ req'[r].from = req[r].from
    BY <1>0, <1>9 DEF Issue, RequestRow
  <2> QED
    BY <1>1, <1>7, <1>9, <2>1, <2>2 DEF Issue
<1> QED
  BY <1>3, <1>4, <1>5, <1>6, <1>8, <1>9 DEF ApproveReadStock, ApproveReadHeld, ApproveReadOpen,
     RedirectRead, Rollback

LEMMA ShopStepIdle ==
    ASSUME DocInv, NEW o \in Outlets, Shut(o), Idleness(o), ShopStep
    PROVE  LeavesAlone(o)
<1>0. TypeOK /\ ask \in [Asks -> AskRow]
  BY Rows DEF DocInv
<1>1. /\ ~MayName(o)
      /\ \A a \in Asks : ask[a].st \notin {"Sent", "Declined"} => ask[a].from # o /\ ask[a].to # o
  BY ShutOutlet
<1>2. ASSUME NEW a \in Asks, NEW from, NEW to, NEW i, NEW q, AskShop(a, from, to, i, q)
      PROVE  LeavesAlone(o)
  <2>1. from # o /\ to # o
    BY <1>1, <1>2 DEF AskShop
  <2>2. /\ \A b \in Asks : b # a => ask'[b] = ask[b]
        /\ ask'[a].from = from /\ ask'[a].to = to
    BY <1>0, <1>2 DEF AskShop
  <2> QED
    BY <1>2, <2>1, <2>2 DEF AskShop, LeavesAlone
<1>3. ASSUME NEW a \in Asks, NEW t \in Tickets, NEW grant, Answer(a, t, grant)
      PROVE  LeavesAlone(o)
  <2>1. ask[a].from # o /\ ask[a].to # o
    BY <1>1, <1>3 DEF Answer, SHOP_ASK_TRANSITIONS
  <2>2. /\ \A b \in Asks : b # a => ask'[b] = ask[b]
        /\ ask'[a].from = ask[a].from /\ ask'[a].to = ask[a].to
    BY <1>0, <1>3 DEF Answer, AskRow
  <2>3. \A u \in Tickets : tkt'[u] = tkt[u] \/ o \notin {tkt'[u].from, tkt'[u].to}
    BY <1>0, <1>3, <2>1, TicketElsewhere DEF Answer
  <2> QED
    BY <1>3, <2>1, <2>2, <2>3 DEF Answer, LeavesAlone
<1>4. ASSUME NEW a \in Asks, DeclineAsk(a)
      PROVE  LeavesAlone(o)
  <2>1. /\ \A b \in Asks : b # a => ask'[b] = ask[b]
        /\ ask'[a].st = "Declined"
    BY <1>0, <1>4 DEF DeclineAsk, AskRow
  <2> QED
    BY <1>4, <2>1 DEF DeclineAsk, LeavesAlone
<1>5. ASSUME NEW t \in Tickets, NEW from, NEW to, NEW i, NEW q, Transfer(t, from, to, i, q)
      PROVE  LeavesAlone(o)
  <2>1. from # o /\ to # o
    BY <1>1, <1>5 DEF Transfer
  <2>2. \A u \in Tickets : tkt'[u] = tkt[u] \/ o \notin {tkt'[u].from, tkt'[u].to}
    BY <1>0, <1>5, <2>1, TicketElsewhere DEF Transfer
  <2> QED
    BY <1>5, <2>2 DEF Transfer, LeavesAlone
<1> QED
  BY <1>2, <1>3, <1>4, <1>5 DEF ShopStep

LEMMA KitchenStepIdle ==
    ASSUME DocInv, NEW o \in Outlets, Shut(o), Idleness(o), KitchenStep
    PROVE  LeavesAlone(o)
<1>0. TypeOK /\ ord \in [Orders -> OrderRow] /\ onHand \in [Locs -> [Items -> Nat]]
  BY Rows DEF DocInv
<1>1. /\ ~MayName(o) /\ o # Kitchen
      /\ \A d \in Orders : ord[d].st \notin {"Dispatched", "Declined"} => ord[d].from # o
  BY ShutOutlet
<1>2. ASSUME NEW d \in Orders, NEW from, NEW q, RaiseOrder(d, from, q)
      PROVE  LeavesAlone(o)
  <2>1. from # o
    BY <1>1, <1>2 DEF RaiseOrder
  <2>2. ord'[d].from = from /\ \A e \in Orders : e # d => ord'[e] = ord[e]
    BY <1>0, <1>2 DEF RaiseOrder
  <2> QED
    BY <1>2, <2>1, <2>2 DEF RaiseOrder, LeavesAlone
<1>3. ASSUME NEW d \in Orders, NEW st, SetOrderStatus(d, st)
      PROVE  LeavesAlone(o)
  <2>1. ord[d].from # o
    BY <1>1, <1>3 DEF SetOrderStatus, PROD_ORDER_TRANSITIONS
  <2>2. ord'[d].from = ord[d].from /\ \A e \in Orders : e # d => ord'[e] = ord[e]
    BY <1>0, <1>3 DEF SetOrderStatus, OrderRow
  <2> QED
    BY <1>3, <2>1, <2>2 DEF SetOrderStatus, LeavesAlone
<1>4. ASSUME NEW d \in Orders, NEW t \in Tickets, Dispatch(d, t)
      PROVE  LeavesAlone(o)
  <2>1. ord[d].from # o
    BY <1>1, <1>4 DEF Dispatch, PROD_ORDER_TRANSITIONS
  <2>2. ord'[d].from = ord[d].from /\ \A e \in Orders : e # d => ord'[e] = ord[e]
    BY <1>0, <1>4 DEF Dispatch, OrderRow
  <2>3. \A u \in Tickets : tkt'[u] = tkt[u] \/ o \notin {tkt'[u].from, tkt'[u].to}
    BY <1>0, <1>1, <1>4, <2>1, TicketElsewhere DEF Dispatch
  <2> QED
    BY <1>4, <2>1, <2>2, <2>3 DEF Dispatch, LeavesAlone
<1>5. ASSUME NEW t \in Tickets, NEW to, NEW i, NEW q, Distribute(t, to, i, q)
      PROVE  LeavesAlone(o)
  <2>1. to # o
    BY <1>1, <1>5 DEF Distribute
  <2>2. \A u \in Tickets : tkt'[u] = tkt[u] \/ o \notin {tkt'[u].from, tkt'[u].to}
    BY <1>0, <1>1, <1>5, <2>1, TicketElsewhere DEF Distribute
  <2> QED
    BY <1>5, <2>2 DEF Distribute, LeavesAlone
<1>6. ASSUME NEW i, NEW q, MakeBatch(i, q)
      PROVE  LeavesAlone(o)
  <2>1. onHand'[o] = onHand[o]
    BY <1>0, <1>1, <1>6, LocsType DEF MakeBatch, Land
  <2> QED
    BY <1>6, <2>1 DEF MakeBatch, LeavesAlone
<1> QED
  BY <1>2, <1>3, <1>4, <1>5, <1>6 DEF KitchenStep

LEMMA ScanStepIdle ==
    ASSUME DocInv, NEW o \in Outlets, Shut(o), Idleness(o), ScanStep
    PROVE  Idleness(o)'
<1> PICK t \in Tickets : Handover(t) \/ WrongOtp(t) \/ Receive(t) \/ CancelTicket(t)
  BY DEF ScanStep
<1>0. /\ TypeOK /\ PaperInv /\ tkt \in [Tickets -> TicketRow] /\ tkt[t] \in TicketRow
      /\ onHand \in [Locs -> [Items -> Nat]] /\ req \in [Requests -> RequestRow]
      /\ ord \in [Orders -> OrderRow] /\ ask \in [Asks -> AskRow]
  BY Rows DEF DocInv
<1>1. /\ tkt[t].st \in {"Issued", "Collected"} => tkt[t].from # o /\ tkt[t].to # o
      /\ \A r \in Requests : req[r].st \notin {"Closed", "Rejected", "Cancelled"} => req[r].from # o
  BY ShutOutlet
\* The ticket's status and its count of wrong codes move, its ends do not.
<1>2. ASSUME tkt[t].st \in {"Issued", "Collected"},
             \A u \in Tickets : u # t => tkt'[u] = tkt[u],
             tkt'[t].from = tkt[t].from, tkt'[t].to = tkt[t].to
      PROVE  \A u \in Tickets : tkt'[u] = tkt[u] \/ o \notin {tkt'[u].from, tkt'[u].to}
  BY <1>1, <1>2
<1>3. ASSUME NEW st, FollowRequest(t, st)
      PROVE  \A r \in Requests : req'[r] = req[r] \/ req'[r].from # o
  <2>1. ASSUME NEW r \in Requests PROVE req'[r] = req[r] \/ req'[r].from # o
    <3>1. CASE st \in REQUEST_TRANSITIONS(req[r].st)
      <4>1. req[r].from # o
        BY <1>1, <3>1 DEF REQUEST_TRANSITIONS
      <4> QED
        BY <1>0, <1>3, <4>1 DEF FollowRequest, RequestRow
    <3>2. CASE st \notin REQUEST_TRANSITIONS(req[r].st)
      BY <1>3, <3>2 DEF FollowRequest
    <3> QED
      BY <3>1, <3>2
  <2> QED
    BY <2>1
<1>4. CASE Handover(t)
  <2>1. /\ tkt[t].st = "Issued" /\ tkt' = [tkt EXCEPT ![t].st = "Collected"]
        /\ onHand' = Take(tkt[t].from, tkt[t].lines) /\ UNCHANGED <<ord, ask>>
        /\ FollowRequest(t, "Collected")
    BY <1>4 DEF Handover, TICKET_TRANSITIONS
  <2>2. onHand'[o] = onHand[o]
    BY <1>0, <1>1, <2>1, LocsType DEF Take
  <2>3. /\ \A u \in Tickets : u # t => tkt'[u] = tkt[u]
        /\ tkt'[t].from = tkt[t].from /\ tkt'[t].to = tkt[t].to
    BY <1>0, <2>1 DEF TicketRow
  <2>4. LeavesAlone(o)
    BY <1>2, <1>3, <2>1, <2>2, <2>3 DEF LeavesAlone
  <2> QED
    BY <2>4, StaysIdle
<1>5. CASE WrongOtp(t)
  <2>1. tkt[t].st = "Issued" /\ UNCHANGED <<onHand, req, ord, ask>>
    BY <1>5 DEF WrongOtp, TICKET_TRANSITIONS
  <2>2. /\ \A u \in Tickets : u # t => tkt'[u] = tkt[u]
        /\ tkt'[t].from = tkt[t].from /\ tkt'[t].to = tkt[t].to
    BY <1>0, <1>5 DEF WrongOtp, TicketRow
  <2>3. LeavesAlone(o)
    BY <1>2, <2>1, <2>2 DEF LeavesAlone
  <2> QED
    BY <2>3, StaysIdle
<1>6. CASE Receive(t)
  <2>1. /\ tkt[t].st = "Collected" /\ tkt' = [tkt EXCEPT ![t].st = "Received"]
        /\ onHand' = Land(tkt[t].to, tkt[t].lines) /\ UNCHANGED <<ord, ask>>
        /\ FollowRequest(t, "Closed")
    BY <1>6 DEF Receive, TICKET_TRANSITIONS
  <2>2. onHand'[o] = onHand[o]
    BY <1>0, <1>1, <2>1, LocsType DEF Land
  <2>3. /\ \A u \in Tickets : u # t => tkt'[u] = tkt[u]
        /\ tkt'[t].from = tkt[t].from /\ tkt'[t].to = tkt[t].to
    BY <1>0, <2>1 DEF TicketRow
  <2>4. LeavesAlone(o)
    BY <1>2, <1>3, <2>1, <2>2, <2>3 DEF LeavesAlone
  <2> QED
    BY <2>4, StaysIdle
\* The document a cancelled ticket sends back belongs to the ticket's own two ends.
<1>7. CASE CancelTicket(t)
  <2>1. /\ tkt[t].st = "Issued" /\ tkt' = [tkt EXCEPT ![t].st = "Cancelled"] /\ UNCHANGED onHand
        /\ tkt[t].refType = "request" => req[tkt[t].ref].st = "Ticket issued"
    BY <1>7 DEF CancelTicket, TICKET_TRANSITIONS
  <2>2. RefFits(t)
    BY <1>0, <2>1 DEF PaperInv, TicketKnows, Alive
  <2>3. /\ \A u \in Tickets : u # t => tkt'[u] = tkt[u]
        /\ tkt'[t].from = tkt[t].from /\ tkt'[t].to = tkt[t].to
    BY <1>0, <2>1 DEF TicketRow
  <2>4. tkt[t].from # o /\ tkt[t].to # o
    BY <1>1, <2>1
  <2>5. ASSUME NEW r \in Requests PROVE req'[r] = req[r] \/ req'[r].from # o
    <3>1. CASE tkt[t].refType = "request" /\ r = tkt[t].ref
      <4>1. req[r].from # o
        BY <1>1, <2>1, <3>1
      <4>2. req'[r].from = req[r].from
        BY <1>0, <1>7, <3>1 DEF CancelTicket, RequestRow
      <4> QED
        BY <4>1, <4>2
    <3>2. CASE ~(tkt[t].refType = "request" /\ r = tkt[t].ref)
      BY <1>7, <3>2 DEF CancelTicket
    <3> QED
      BY <3>1, <3>2
  <2>6. ASSUME NEW d \in Orders PROVE ord'[d] = ord[d] \/ ord'[d].from # o
    <3>1. CASE tkt[t].refType = "prod_order" /\ d = tkt[t].ref
      <4>1. ord[d].from # o
        BY <2>2, <2>4, <3>1 DEF RefFits
      <4>2. ord'[d].from = ord[d].from
        BY <1>0, <1>7, <3>1 DEF CancelTicket, OrderRow
      <4> QED
        BY <4>1, <4>2
    <3>2. CASE ~(tkt[t].refType = "prod_order" /\ d = tkt[t].ref)
      BY <1>7, <3>2 DEF CancelTicket
    <3> QED
      BY <3>1, <3>2
  <2>7. ASSUME NEW a \in Asks PROVE ask'[a] = ask[a] \/ o \notin {ask'[a].from, ask'[a].to}
    <3>1. CASE tkt[t].refType = "shop_ask" /\ a = tkt[t].ref
      <4>1. {tkt[t].from, tkt[t].to} = {ask[a].from, ask[a].to}
        BY <2>2, <3>1 DEF RefFits
      <4>2. ask'[a].from = ask[a].from /\ ask'[a].to = ask[a].to
        BY <1>0, <1>7, <3>1 DEF CancelTicket, AskRow
      <4> QED
        BY <2>4, <4>1, <4>2
    <3>2. CASE ~(tkt[t].refType = "shop_ask" /\ a = tkt[t].ref)
      BY <1>7, <3>2 DEF CancelTicket
    <3> QED
      BY <3>1, <3>2
  <2>8. LeavesAlone(o)
    BY <1>2, <2>1, <2>3, <2>5, <2>6, <2>7 DEF LeavesAlone
  <2> QED
    BY <2>8, StaysIdle
<1> QED
  BY <1>4, <1>5, <1>6, <1>7

LEMMA ShelfStepIdle ==
    ASSUME DocInv, NEW o \in Outlets, Shut(o), Idleness(o), ShelfStep
    PROVE  LeavesAlone(o)
<1>0. TypeOK /\ onHand \in [Locs -> [Items -> Nat]] /\ o \in Locs
  BY Rows, LocsType DEF DocInv
<1>1. ~MayName(o) /\ o # Store
  BY ShutOutlet
<1>2. ASSUME NEW l, l # o, NEW f, onHand' = [onHand EXCEPT ![l] = f], UNCHANGED <<tkt, req, ord, ask>>
      PROVE  LeavesAlone(o)
  <2>1. onHand'[o] = onHand[o]
    BY <1>0, <1>2
  <2> QED
    BY <1>2, <2>1 DEF LeavesAlone
<1>3. ASSUME NEW b \in Bills, NEW loc, NEW q, Sale(b, loc, q) PROVE LeavesAlone(o)
  BY <1>1, <1>2, <1>3 DEF Sale, Take
<1>4. ASSUME NEW b \in Bills, VoidBill(b) PROVE LeavesAlone(o)
  BY <1>1, <1>2, <1>4 DEF VoidBill, LandWithoutUse
<1>5. ASSUME NEW l, NEW down, NEW up, Adjust(l, down, up) PROVE LeavesAlone(o)
  BY <1>1, <1>2, <1>5 DEF Adjust
<1>6. ASSUME NEW i, NEW q, LandAtStore(i, q) PROVE LeavesAlone(o)
  BY <1>1, <1>2, <1>6 DEF LandAtStore, Land
<1> QED
  BY <1>3, <1>4, <1>5, <1>6 DEF ShelfStep

\* A shut outlet that is idle stays idle, whatever the step.
LEMMA ShutStaysIdle ==
    ASSUME DocInv, NEW o \in Outlets, Shut(o), Idleness(o), [Next]_vars
    PROVE  Idleness(o)'
<1>1. CASE OutletStep \/ UNCHANGED vars
  <2>1. UNCHANGED <<onHand, tkt, req, ord, ask>>
    BY <1>1 DEF OutletStep, CloseBegin, CloseEnd, ReopenOutlet, vars
  <2> QED
    BY <2>1, StaysIdle DEF LeavesAlone
<1> QED
  BY <1>1, RequestStepIdle, ShopStepIdle, KitchenStepIdle, ScanStepIdle, ShelfStepIdle, StaysIdle
  DEF Next

\* A row that a step writes is a drawn one.
LEMMA WrittenRowsAreDrawn ==
    ASSUME TypeOK, [Next]_vars
    PROVE  /\ \A r \in Requests : req'[r] = req[r] \/ req'[r].st # "Not drawn"
           /\ \A d \in Orders : ord'[d] = ord[d] \/ ord'[d].st # "Not drawn"
           /\ \A a \in Asks : ask'[a] = ask[a] \/ ask'[a].st # "Not drawn"
<1>0. /\ req \in [Requests -> RequestRow] /\ ord \in [Orders -> OrderRow]
      /\ ask \in [Asks -> AskRow]
  BY Rows
<1>1. CASE RequestStep
  <2> PICK r \in Requests :
             \/ \E from \in Outlets \cup {Kitchen}, q \in RealLines : CreateRequest(r, from, q)
             \/ CancelRequest(r)
             \/ RejectRequest(r)
             \/ ApproveReadStock(r)
             \/ ApproveReadHeld(r)
             \/ ApproveReadOpen(r)
             \/ \E want \in Lines : ApproveCommit(r, want)
             \/ \E src \in Outlets : RedirectRead(r, src)
             \/ \E t \in Tickets : RedirectCommit(r, t)
             \/ Rollback(r)
             \/ \E t \in Tickets : Issue(r, t)
    BY <1>1 DEF RequestStep
  <2>1. ASSUME UNCHANGED <<ord, ask>>, \A s \in Requests : s # r => req'[s] = req[s],
               req'[r] = req[r] \/ req'[r].st # "Not drawn"
        PROVE  /\ \A s \in Requests : req'[s] = req[s] \/ req'[s].st # "Not drawn"
               /\ \A d \in Orders : ord'[d] = ord[d] \/ ord'[d].st # "Not drawn"
               /\ \A a \in Asks : ask'[a] = ask[a] \/ ask'[a].st # "Not drawn"
    BY <2>1
  <2>2. ASSUME UNCHANGED <<req, ord, ask>>
        PROVE  /\ \A s \in Requests : req'[s] = req[s] \/ req'[s].st # "Not drawn"
               /\ \A d \in Orders : ord'[d] = ord[d] \/ ord'[d].st # "Not drawn"
               /\ \A a \in Asks : ask'[a] = ask[a] \/ ask'[a].st # "Not drawn"
    BY <2>2
  <2>3. ASSUME NEW from, NEW q, CreateRequest(r, from, q)
        PROVE  req'[r].st # "Not drawn" /\ \A s \in Requests : s # r => req'[s] = req[s]
    BY <1>0, <2>3 DEF CreateRequest
  <2>4. ASSUME CancelRequest(r) \/ RejectRequest(r)
        PROVE  req'[r].st # "Not drawn" /\ \A s \in Requests : s # r => req'[s] = req[s]
    BY <1>0, <2>4 DEF CancelRequest, RejectRequest, RequestRow
  <2>5. ASSUME NEW want, ApproveCommit(r, want)
        PROVE  req'[r].st # "Not drawn" /\ \A s \in Requests : s # r => req'[s] = req[s]
    <3>1. PICK st : /\ req'[r].st = st /\ st \in REQUEST_TRANSITIONS(req[r].st)
                    /\ \A s \in Requests : s # r => req'[s] = req[s]
      BY <1>0, <2>5 DEF ApproveCommit, RequestRow
    <3> QED
      BY <3>1 DEF REQUEST_TRANSITIONS
  <2>6. ASSUME NEW t, RedirectCommit(r, t) \/ Issue(r, t)
        PROVE  req'[r].st # "Not drawn" /\ \A s \in Requests : s # r => req'[s] = req[s]
    BY <1>0, <2>6 DEF RedirectCommit, Issue, RequestRow
  <2> QED
    BY <2>1, <2>2, <2>3, <2>4, <2>5, <2>6 DEF CreateRequest, CancelRequest, RejectRequest,
       ApproveReadStock, ApproveReadHeld, ApproveReadOpen, ApproveCommit, RedirectRead,
       RedirectCommit, Rollback, Issue
<1>2. CASE ShopStep
  <2>1. UNCHANGED <<req, ord>>
    BY <1>2 DEF ShopStep, AskShop, Answer, DeclineAsk, Transfer
  <2>2. \A a \in Asks : ask'[a] = ask[a] \/ ask'[a].st # "Not drawn"
    <3>1. ASSUME NEW a \in Asks, NEW from, NEW to, NEW i, NEW q, AskShop(a, from, to, i, q)
          PROVE  ask'[a].st # "Not drawn" /\ \A b \in Asks : b # a => ask'[b] = ask[b]
      BY <1>0, <3>1 DEF AskShop
    <3>2. ASSUME NEW a \in Asks, NEW t, NEW grant, Answer(a, t, grant)
          PROVE  ask'[a].st # "Not drawn" /\ \A b \in Asks : b # a => ask'[b] = ask[b]
      BY <1>0, <3>2 DEF Answer, AskRow
    <3>3. ASSUME NEW a \in Asks, DeclineAsk(a)
          PROVE  ask'[a].st # "Not drawn" /\ \A b \in Asks : b # a => ask'[b] = ask[b]
      BY <1>0, <3>3 DEF DeclineAsk, AskRow
    <3>4. ASSUME NEW t, NEW from, NEW to, NEW i, NEW q, Transfer(t, from, to, i, q)
          PROVE  ask' = ask
      BY <3>4 DEF Transfer
    <3> QED
      BY <1>2, <3>1, <3>2, <3>3, <3>4 DEF ShopStep
  <2> QED
    BY <2>1, <2>2
<1>3. CASE KitchenStep
  <2>1. UNCHANGED <<req, ask>>
    BY <1>3 DEF KitchenStep, RaiseOrder, SetOrderStatus, Dispatch, Distribute, MakeBatch
  <2>2. \A d \in Orders : ord'[d] = ord[d] \/ ord'[d].st # "Not drawn"
    <3>1. ASSUME NEW d \in Orders, NEW from, NEW q, RaiseOrder(d, from, q)
          PROVE  ord'[d].st # "Not drawn" /\ \A e \in Orders : e # d => ord'[e] = ord[e]
      BY <1>0, <3>1 DEF RaiseOrder
    <3>2. ASSUME NEW d \in Orders, NEW st \in PordStatus, SetOrderStatus(d, st)
          PROVE  ord'[d].st # "Not drawn" /\ \A e \in Orders : e # d => ord'[e] = ord[e]
      BY <1>0, <3>2 DEF SetOrderStatus, OrderRow, PordStatus
    <3>3. ASSUME NEW d \in Orders, NEW t, Dispatch(d, t)
          PROVE  ord'[d].st # "Not drawn" /\ \A e \in Orders : e # d => ord'[e] = ord[e]
      BY <1>0, <3>3 DEF Dispatch, OrderRow
    <3>4. ASSUME NEW t, NEW to, NEW i, NEW q, Distribute(t, to, i, q) \/ MakeBatch(i, q)
          PROVE  ord' = ord
      BY <3>4 DEF Distribute, MakeBatch
    <3> QED
      BY <1>3, <3>1, <3>2, <3>3, <3>4 DEF KitchenStep
  <2> QED
    BY <2>1, <2>2
<1>4. ASSUME NEW t \in Tickets, Handover(t) \/ WrongOtp(t) \/ Receive(t) \/ CancelTicket(t)
      PROVE  /\ \A r \in Requests : req'[r] = req[r] \/ req'[r].st # "Not drawn"
             /\ \A d \in Orders : ord'[d] = ord[d] \/ ord'[d].st # "Not drawn"
             /\ \A a \in Asks : ask'[a] = ask[a] \/ ask'[a].st # "Not drawn"
  <2>1. ASSUME NEW st \in {"Collected", "Closed"}, FollowRequest(t, st), NEW r \in Requests
        PROVE  req'[r] = req[r] \/ req'[r].st # "Not drawn"
    BY <1>0, <2>1 DEF FollowRequest, RequestRow
  <2>2. CASE Handover(t) \/ WrongOtp(t) \/ Receive(t)
    BY <2>1, <2>2 DEF Handover, WrongOtp, Receive
  <2>3. CASE CancelTicket(t)
    <3>1. ASSUME NEW r \in Requests PROVE req'[r] = req[r] \/ req'[r].st # "Not drawn"
      <4>1. \/ req'[r] = req[r]
            \/ req'[r] = [req[r] EXCEPT !.st = ApprovedStatus(req[r].lines, req[r].appr),
                                        !.ticket = NoDocument]
        BY <2>3 DEF CancelTicket
      <4> QED
        BY <1>0, <4>1 DEF ApprovedStatus, RequestRow
    <3>2. \A d \in Orders : ord'[d] = ord[d] \/ ord'[d].st # "Not drawn"
      BY <1>0, <2>3 DEF CancelTicket, OrderRow
    <3>3. \A a \in Asks : ask'[a] = ask[a] \/ ask'[a].st # "Not drawn"
      BY <1>0, <2>3 DEF CancelTicket, AskRow
    <3> QED
      BY <3>1, <3>2, <3>3
  <2> QED
    BY <1>4, <2>2, <2>3
<1>5. CASE ShelfStep \/ OutletStep \/ UNCHANGED vars
  <2>1. UNCHANGED <<req, ord, ask>>
    BY <1>5 DEF ShelfStep, OutletStep, Sale, VoidBill, Adjust, LandAtStore, CloseBegin, CloseEnd,
                ReopenOutlet, vars
  <2> QED
    BY <2>1
<1> QED
  BY <1>1, <1>2, <1>3, <1>4, <1>5 DEF Next, ScanStep

LEMMA BlankStep ==
    ASSUME TypeOK, Blank, [Next]_vars
    PROVE  Blank'
<1>1. /\ \A r \in Requests : req'[r] = req[r] \/ req'[r].st # "Not drawn"
      /\ \A d \in Orders : ord'[d] = ord[d] \/ ord'[d].st # "Not drawn"
      /\ \A a \in Asks : ask'[a] = ask[a] \/ ask'[a].st # "Not drawn"
  BY WrittenRowsAreDrawn
<1> QED
  BY <1>1 DEF Blank

\* What a close that counted no blocker has seen.
LEMMA UnblockedIsIdle ==
    ASSUME TypeOK, Blank, NEW o \in Outlets, ~Blocked(o)
    PROVE  Idleness(o)
<1>0. /\ req \in [Requests -> RequestRow] /\ ord \in [Orders -> OrderRow]
      /\ ask \in [Asks -> AskRow]
  BY Rows
<1>1. ASSUME NEW r \in Requests, req[r].from = o
      PROVE  req[r].st \in {"Closed", "Rejected", "Cancelled"}
  BY <1>0, <1>1 DEF Blocked, HoldingRequest, Blank, RequestRow
<1>2. ASSUME NEW d \in Orders, ord[d].from = o
      PROVE  ord[d].st \in {"Dispatched", "Declined"}
  BY <1>0, <1>2 DEF Blocked, HoldingOrder, Blank, OrderRow
<1>3. ASSUME NEW a \in Asks, o \in {ask[a].from, ask[a].to}
      PROVE  ask[a].st \in {"Sent", "Declined"}
  BY <1>0, <1>3 DEF Blocked, HoldingAsk, Blank, AskRow, ShopAskStatus
<1> QED
  BY <1>1, <1>2, <1>3 DEF Idleness, Blocked, HoldingTicket

\* So every outlet that is closing or closed is idle after every step.
LEMMA ClosingStep ==
    ASSUME DocInv, Blank, ClosingIdle, [Next]_vars
    PROVE  ClosingIdle'
<1> SUFFICES ASSUME NEW o \in Outlets, closing'[o] \/ ~active'[o]
             PROVE  Idleness(o)'
  BY DEF ClosingIdle
<1>0. TypeOK /\ active \in [Outlets -> BOOLEAN] /\ closing \in [Outlets -> BOOLEAN]
  BY Rows DEF DocInv
<1>1. CASE Shut(o)
  BY <1>1, ShutStaysIdle DEF ClosingIdle, Shut
<1>2. CASE ~Shut(o)
  <2>1. OutletStep
    BY <1>2 DEF Shut, Next, RequestStep, ShopStep, KitchenStep, ScanStep, ShelfStep, vars,
       CreateRequest, CancelRequest, RejectRequest, ApproveReadStock, ApproveReadHeld,
       ApproveReadOpen, ApproveCommit, RedirectRead, RedirectCommit, Rollback, Issue, AskShop,
       Answer, DeclineAsk, Transfer, RaiseOrder, SetOrderStatus, Dispatch, Distribute, MakeBatch,
       Handover, WrongOtp, Receive, CancelTicket, Sale, VoidBill, Adjust, LandAtStore
  <2>2. PICK k \in Outlets : CloseBegin(k) \/ (\E commit \in BOOLEAN : CloseEnd(k, commit))
                                           \/ ReopenOutlet(k)
    BY <2>1 DEF OutletStep
  <2>3. CloseBegin(o)
    BY <1>0, <1>2, <2>2 DEF Shut, CloseBegin, CloseEnd, ReopenOutlet
  <2>4. Idleness(o) /\ UNCHANGED <<onHand, tkt, req, ord, ask>>
    BY <1>0, <2>3, UnblockedIsIdle DEF CloseBegin
  <2> QED
    BY <2>4, StaysIdle DEF LeavesAlone
<1> QED
  BY <1>1, <1>2

LEMMA InitBlank == Init => Blank /\ ClosingIdle
<1>1. NoRequest.from = Store /\ NoOrder.from = Store /\ NoAsk.from = Store /\ NoAsk.to = Store
  BY DEF NoRequest, NoOrder, NoAsk
<1> SUFFICES ASSUME Init PROVE Blank /\ ClosingIdle
  OBVIOUS
<1>2. Blank
  <2>1. /\ \A r \in Requests : req[r].from = Store
        /\ \A d \in Orders : ord[d].from = Store
        /\ \A a \in Asks : ask[a].from = Store /\ ask[a].to = Store
    BY <1>1 DEF Init
  <2> QED
    BY <2>1, LocationAssumption DEF Blank
<1>3. ClosingIdle
  BY DEF Init, ClosingIdle
<1> QED
  BY <1>2, <1>3

\* For any number of outlets and documents: an outlet that was closed is idle and stays idle until
\* it is opened again, although most of the writes that could reach it take no lock on its row.
THEOREM ClosedOutletsStayIdle == Spec => []ClosedOutletIdle
<1>1. Init => DocInv /\ Blank /\ ClosingIdle
  BY InitDoc, InitBlank
<1>2. DocInv /\ Blank /\ ClosingIdle /\ [Next]_vars => (DocInv /\ Blank /\ ClosingIdle)'
  BY DocStep, BlankStep, ClosingStep DEF DocInv
<1>3. ClosingIdle => ClosedOutletIdle
  BY DEF ClosingIdle, ClosedOutletIdle
<1> QED
  BY <1>1, <1>2, <1>3, PTL DEF Spec
-----------------------------------------------------------------------------
(* The shelf discipline.  Each of Shelf's steps is recognised by what it   *)
(* does to the two functions Shelf sees; a document's step is then one of  *)
(* them, on the shelf where its ticket or its sale stands.                 *)

HeldMap == [l \in Locs |-> [i \in Items |-> Held(l, i)]]

\* What is held changes on shelf l alone, by d.
HeldMoves(l, d) ==
    \A k \in Locs, i \in Items : Held(k, i)' = IF k = l THEN Held(k, i) + d[i] ELSE Held(k, i)

LEMMA ViewTypes ==
    ASSUME TypeOK
    PROVE  /\ onHand \in [Locs -> [Items -> Nat]]
           /\ HeldMap \in [Locs -> [Items -> Nat]]
           /\ HeldMap' \in [Locs -> [Items -> Nat]]
           /\ ShelfView!Qty = Lines
  BY HeldIsNat DEF TypeOK, HeldMap, ShelfView!Qty, Lines

LEMMA MapsToHold ==
    ASSUME TypeOK, NEW l \in Locs, NEW q \in Lines, UNCHANGED onHand, Covers(l, q), HeldMoves(l, q)
    PROVE  ShelfView!ShelfNext
<1>0. /\ onHand \in [Locs -> [Items -> Nat]] /\ HeldMap \in [Locs -> [Items -> Nat]]
      /\ \A i \in Items : q[i] \in Nat /\ Held(l, i) \in Nat
  BY ViewTypes, HeldIsNat, BoundAssumption DEF Lines
<1>1. HeldMap' = [HeldMap EXCEPT ![l] = [i \in Items |-> @[i] + q[i]]]
  BY DEF HeldMap, HeldMoves
<1>2. \A i \in Items : HeldMap[l][i] + q[i] <= onHand[l][i]
  BY <1>0 DEF HeldMap, Covers, Free
<1>3. ShelfView!Hold(l, q)
  BY <1>1, <1>2 DEF ShelfView!Hold, ShelfView!IsFree, ShelfView!Add, HeldMap
<1> QED
  BY <1>3, ViewTypes DEF ShelfView!ShelfNext

LEMMA MapsToRelease ==
    ASSUME TypeOK, NEW l \in Locs, NEW q \in Lines, \A i \in Items : q[i] <= Held(l, i),
           \A k \in Locs, i \in Items : Held(k, i)' = IF k = l THEN Held(k, i) - q[i] ELSE Held(k, i),
           UNCHANGED onHand \/ onHand' = Take(l, q)
    PROVE  ShelfView!ShelfNext
<1>1. HeldMap' = [HeldMap EXCEPT ![l] = [i \in Items |-> @[i] - q[i]]]
  BY DEF HeldMap
<1>2. \A i \in Items : q[i] <= HeldMap[l][i]
  BY DEF HeldMap
<1>3. CASE UNCHANGED onHand
  <2>1. ShelfView!Release(l, q)
    BY <1>1, <1>2, <1>3 DEF ShelfView!Release, ShelfView!IsHeld, ShelfView!Sub, HeldMap
  <2> QED
    BY <2>1, ViewTypes DEF ShelfView!ShelfNext
<1>4. CASE onHand' = Take(l, q)
  <2>1. ShelfView!Collect(l, q)
    BY <1>1, <1>2, <1>4 DEF ShelfView!Collect, ShelfView!IsHeld, ShelfView!Sub, Take, HeldMap
  <2> QED
    BY <2>1, ViewTypes DEF ShelfView!ShelfNext
<1> QED
  BY <1>3, <1>4

LEMMA MapsToPost ==
    ASSUME TypeOK, NEW l \in Locs, NEW out \in Lines, NEW in \in Lines, Covers(l, out),
           onHand' = [onHand EXCEPT ![l] = [i \in Items |-> onHand[l][i] - out[i] + in[i]]],
           \A k \in Locs, i \in Items : Held(k, i)' = Held(k, i)
    PROVE  ShelfView!ShelfNext
<1>0. /\ onHand \in [Locs -> [Items -> Nat]] /\ HeldMap \in [Locs -> [Items -> Nat]]
      /\ \A i \in Items : out[i] \in Nat /\ in[i] \in Nat /\ Held(l, i) \in Nat
  BY ViewTypes, HeldIsNat, BoundAssumption DEF Lines
<1>1. HeldMap' = HeldMap
  BY DEF HeldMap
<1>2. \A i \in Items : HeldMap[l][i] + out[i] <= onHand[l][i]
  BY <1>0 DEF HeldMap, Covers, Free
<1>3. onHand' = ShelfView!Add(ShelfView!Sub(onHand, l, out), l, in)
  BY <1>0 DEF ShelfView!Add, ShelfView!Sub
<1>4. ShelfView!Post(l, out, in)
  BY <1>1, <1>2, <1>3 DEF ShelfView!Post, ShelfView!IsFree, HeldMap
<1> QED
  BY <1>4, ViewTypes DEF ShelfView!ShelfNext

LEMMA MapsToStutter ==
    ASSUME UNCHANGED onHand, \A k \in Locs, i \in Items : Held(k, i)' = Held(k, i)
    PROVE  UNCHANGED ShelfView!shelfVars
<1>1. HeldMap' = HeldMap
  BY DEF HeldMap
<1> QED
  BY <1>1 DEF ShelfView!shelfVars, HeldMap

\* A ticket is a hold at the place it leaves from.
LEMMA TicketIsAHold ==
    ASSUME PromiseInv, NEW t \in Tickets, NEW refType, NEW ref, NEW from \in Locs, NEW to,
           NEW q \in Lines, Covers(from, q), WriteTicket(t, refType, ref, from, to, q),
           UNCHANGED onHand
    PROVE  ShelfView!ShelfNext
<1>1. rsv[t] = Nothing
  BY DEF PromiseInv, HoldsMatchTickets, WriteTicket, Drawn
<1>2. HeldMoves(from, q)
  BY <1>1, HeldAfterWrite DEF PromiseInv, HeldMoves
<1> QED
  BY <1>2, MapsToHold DEF PromiseInv

\* Stock that lands, less what is used as it lands, is a posting.
LEMMA ArrivalIsAPosting ==
    ASSUME TypeOK, NEW l \in Locs, NEW q \in Lines, onHand' = Land(l, q) \/ onHand' = LandWithoutUse(l, q),
           \A k \in Locs, i \in Items : Held(k, i)' = Held(k, i), NoOversell
    PROVE  ShelfView!ShelfNext
<1>0. /\ onHand \in [Locs -> [Items -> Nat]] /\ Nothing \in Lines
      /\ \A i \in Items : q[i] \in Nat /\ Nothing[i] = 0 /\ onHand[l][i] \in Nat
  BY ViewTypes, LinesType, BoundAssumption DEF Lines, Nothing
<1>1. Covers(l, Nothing)
  <2> SUFFICES ASSUME NEW i \in Items PROVE 0 <= onHand[l][i] - Held(l, i)
    BY <1>0 DEF Covers, Free
  <2>1. Held(l, i) \in Nat /\ Held(l, i) <= onHand[l][i]
    BY HeldIsNat DEF NoOversell
  <2> QED
    BY <1>0, <2>1
<1> DEFINE used == [i \in Items |-> IF UsedOnArrival(l, i) THEN 0 ELSE q[i]]
<1>2. used \in Lines
  BY BoundAssumption DEF Lines
<1>3. CASE onHand' = Land(l, q)
  <2>1. onHand' = [onHand EXCEPT ![l] = [i \in Items |-> onHand[l][i] - Nothing[i] + used[i]]]
    <3>1. [i \in Items |-> IF UsedOnArrival(l, i) THEN onHand[l][i] ELSE onHand[l][i] + q[i]]
              = [i \in Items |-> onHand[l][i] - Nothing[i] + used[i]]
      BY <1>0
    <3> QED
      BY <1>3, <3>1 DEF Land
  <2> HIDE DEF used
  <2> QED
    BY <1>0, <1>1, <1>2, <2>1, MapsToPost
<1>4. CASE onHand' = LandWithoutUse(l, q)
  <2>1. onHand' = [onHand EXCEPT ![l] = [i \in Items |-> onHand[l][i] - Nothing[i] + q[i]]]
    <3>1. [i \in Items |-> onHand[l][i] + q[i]] = [i \in Items |-> onHand[l][i] - Nothing[i] + q[i]]
      BY <1>0
    <3> QED
      BY <1>4, <3>1 DEF LandWithoutUse
  <2> QED
    BY <1>0, <1>1, <2>1, MapsToPost
<1> QED
  BY <1>3, <1>4

\* Every step of every document is a step of the shelf discipline or none of its business.
LEMMA ShelfViewStep ==
    ASSUME PromiseInv, [Next]_vars
    PROVE  [ShelfView!ShelfNext]_(ShelfView!shelfVars)
<1> DEFINE Kept == ShelfView!ShelfNext \/ UNCHANGED ShelfView!shelfVars
<1> SUFFICES Kept
  OBVIOUS
<1>t. TypeOK /\ HoldsMatchTickets /\ NoOversell /\ onHand \in [Locs -> [Items -> Nat]]
  BY ViewTypes DEF PromiseInv
<1>h. ASSUME UNCHANGED rsv, \A t \in Tickets : tkt'[t].from = tkt[t].from
      PROVE  \A k \in Locs, i \in Items : Held(k, i)' = Held(k, i)
  BY <1>h, HeldUnchanged
<1>s. ASSUME UNCHANGED <<onHand, rsv, tkt>> PROVE Kept
  BY <1>h, <1>s, MapsToStutter
<1>1. CASE RequestStep
  <2> PICK r \in Requests :
             \/ \E from \in Outlets \cup {Kitchen}, q \in RealLines : CreateRequest(r, from, q)
             \/ CancelRequest(r)
             \/ RejectRequest(r)
             \/ ApproveReadStock(r)
             \/ ApproveReadHeld(r)
             \/ ApproveReadOpen(r)
             \/ \E want \in Lines : ApproveCommit(r, want)
             \/ \E src \in Outlets : RedirectRead(r, src)
             \/ \E t \in Tickets : RedirectCommit(r, t)
             \/ Rollback(r)
             \/ \E t \in Tickets : Issue(r, t)
    BY <1>1 DEF RequestStep
  <2>0. /\ req[r].lines \in Lines /\ req[r].appr \in Lines
        /\ req[r].from \in Locs /\ pend[r].src \in Locs
    BY <1>t DEF TypeOK, RequestRow, DecisionRow
  <2>1. ASSUME NEW t \in Tickets, RedirectCommit(r, t) PROVE Kept
    BY <2>0, <2>1, TicketIsAHold DEF RedirectCommit
  <2>2. ASSUME NEW t \in Tickets, Issue(r, t) PROVE Kept
    BY <2>0, <2>2, LocsType, TicketIsAHold DEF Issue
  <2> HIDE DEF Kept
  <2> QED
    BY <1>s, <2>1, <2>2 DEF CreateRequest, CancelRequest, RejectRequest, ApproveReadStock,
       ApproveReadHeld, ApproveReadOpen, ApproveCommit, RedirectRead, Rollback
<1>2. CASE ShopStep
  <2>1. ASSUME NEW a \in Asks, NEW t \in Tickets, NEW grant \in RealLines, Answer(a, t, grant)
        PROVE  Kept
    <3>1. ask[a].to \in Locs /\ grant \in Lines
      BY <1>t, LinesType DEF TypeOK, AskRow
    <3> QED
      BY <2>1, <3>1, TicketIsAHold DEF Answer
  <2>2. ASSUME NEW t \in Tickets, NEW from \in Outlets, NEW to \in Outlets, NEW i \in Items,
               NEW q \in 1..MaxQty, Transfer(t, from, to, i, q)
        PROVE  Kept
    <3>1. from \in Locs /\ One(i, q) \in Lines
      BY LinesType, LocsType
    <3> QED
      BY <2>2, <3>1, TicketIsAHold DEF Transfer
  <2> HIDE DEF Kept
  <2> QED
    BY <1>2, <1>s, <2>1, <2>2 DEF ShopStep, AskShop, DeclineAsk
<1>3. CASE KitchenStep
  <2>1. ASSUME NEW d \in Orders, NEW t \in Tickets, Dispatch(d, t) PROVE Kept
    <3>1. ord[d].lines \in Lines
      BY <1>t DEF TypeOK, OrderRow
    <3> QED
      BY <2>1, <3>1, LocsType, TicketIsAHold DEF Dispatch
  <2>2. ASSUME NEW t \in Tickets, NEW to \in Locs, NEW i \in Items, NEW q \in 1..MaxQty,
               Distribute(t, to, i, q)
        PROVE  Kept
    <3>1. One(i, q) \in Lines
      BY LinesType
    <3> QED
      BY <2>2, <3>1, LocsType, TicketIsAHold DEF Distribute
  <2>3. ASSUME NEW i \in Items, NEW q \in 1..MaxQty, MakeBatch(i, q) PROVE Kept
    <3>1. One(i, q) \in Lines
      BY LinesType
    <3> QED
      BY <1>t, <1>h, <2>3, <3>1, LocsType, ArrivalIsAPosting DEF MakeBatch
  <2> HIDE DEF Kept
  <2> QED
    BY <1>3, <1>s, <2>1, <2>2, <2>3 DEF KitchenStep, RaiseOrder, SetOrderStatus
<1>4. ASSUME NEW t \in Tickets, Handover(t) \/ WrongOtp(t) \/ Receive(t) \/ CancelTicket(t)
      PROVE  Kept
  <2>0. /\ tkt[t].from \in Locs /\ tkt[t].to \in Locs /\ tkt[t].lines \in Lines
        /\ rsv \in [Tickets -> Lines] /\ tkt \in [Tickets -> TicketRow]
    BY <1>t DEF TypeOK, TicketRow
  \* The whole of an issued ticket's hold goes, with the stock or without it.
  <2>a. ASSUME tkt[t].st = "Issued", ReleaseForTicket(t), NEW st, tkt' = [tkt EXCEPT ![t].st = st],
               UNCHANGED onHand \/ onHand' = Take(tkt[t].from, tkt[t].lines)
        PROVE  Kept
    <3>1. rsv[t] = tkt[t].lines
      BY <1>t, <2>a DEF HoldsMatchTickets
    <3>2. \A u \in Tickets : tkt'[u].from = tkt[u].from
      BY <2>0, <2>a DEF TicketRow
    <3>3. \A i \in Items : rsv[t][i] <= Held(tkt[t].from, i)
      BY <1>t, HoldIsPartOfHeld
    <3>4. \A k \in Locs, i \in Items :
              Held(k, i)' = IF k = tkt[t].from THEN Held(k, i) - tkt[t].lines[i] ELSE Held(k, i)
      BY <1>t, <2>a, <3>1, <3>2, HeldAfterRelease
    <3> QED
      BY <1>t, <2>0, <2>a, <3>1, <3>3, <3>4, MapsToRelease
  <2>1. CASE Handover(t)
    BY <2>1, <2>a DEF Handover, TICKET_TRANSITIONS
  <2>2. CASE CancelTicket(t)
    BY <2>2, <2>a DEF CancelTicket, TICKET_TRANSITIONS
  <2>3. CASE WrongOtp(t)
    <3>1. \A u \in Tickets : tkt'[u].from = tkt[u].from
      BY <2>0, <2>3 DEF WrongOtp, TicketRow
    <3> QED
      BY <1>h, <2>3, <3>1, MapsToStutter DEF WrongOtp
  <2>4. CASE Receive(t)
    <3>1. \A u \in Tickets : tkt'[u].from = tkt[u].from
      BY <2>0, <2>4 DEF Receive, TicketRow
    <3>2. onHand' = Land(tkt[t].to, tkt[t].lines) /\ UNCHANGED rsv
      BY <2>4 DEF Receive
    <3> QED
      BY <1>t, <1>h, <2>0, <3>1, <3>2, ArrivalIsAPosting
  <2> QED
    BY <1>4, <2>1, <2>2, <2>3, <2>4
<1>5. CASE ShelfStep
  <2>0. Nothing \in Lines /\ \A i \in Items : Nothing[i] = 0
    BY LinesType DEF Nothing
  <2>1. ASSUME NEW b \in Bills, NEW loc \in Outlets, NEW q \in RealLines, Sale(b, loc, q)
        PROVE  Kept
    <3>1. loc \in Locs /\ q \in Lines
      BY LocsType, LinesType
    <3>2. \A i \in Items : q[i] \in Int /\ onHand[loc][i] \in Int
      BY <1>t, <3>1, BoundAssumption DEF Lines
    <3>3. onHand' = [onHand EXCEPT ![loc] = [i \in Items |-> onHand[loc][i] - q[i] + Nothing[i]]]
      <4>1. onHand' = [onHand EXCEPT ![loc] = [i \in Items |-> onHand[loc][i] - q[i]]]
        BY <1>t, <2>1, <3>1 DEF Sale, Take
      <4>2. [i \in Items |-> onHand[loc][i] - q[i]] = [i \in Items |-> onHand[loc][i] - q[i] + Nothing[i]]
        BY <2>0, <3>2
      <4> QED
        BY <4>1, <4>2
    <3> QED
      BY <1>t, <1>h, <2>0, <2>1, <3>1, <3>3, MapsToPost DEF Sale
  <2>2. ASSUME NEW b \in Bills, VoidBill(b) PROVE Kept
    <3>1. bill[b].loc \in Locs /\ bill[b].lines \in Lines
      BY <1>t DEF TypeOK, BillRow
    <3> QED
      BY <1>t, <1>h, <2>2, <3>1, ArrivalIsAPosting DEF VoidBill
  <2>3. ASSUME NEW l \in Counted, NEW down \in Lines, NEW up \in Lines, Adjust(l, down, up)
        PROVE  Kept
    <3> DEFINE out == [i \in Items |-> IF UsedOnArrival(l, i) THEN 0 ELSE down[i]]
               in == [i \in Items |-> IF UsedOnArrival(l, i) THEN 0 ELSE up[i]]
    <3>1. out \in Lines /\ in \in Lines /\ l \in Locs
      BY BoundAssumption DEF Lines
    <3>2. Covers(l, out)
      <4> SUFFICES ASSUME NEW i \in Items PROVE out[i] <= onHand[l][i] - Held(l, i)
        BY DEF Covers, Free
      <4>1. down[i] <= onHand[l][i] - Held(l, i)
        BY <2>3 DEF Adjust, Covers, Free
      <4>2. Held(l, i) \in Nat /\ onHand[l][i] \in Nat /\ Held(l, i) <= onHand[l][i]
        BY <1>t, <3>1, HeldIsNat DEF NoOversell
      <4> QED
        BY <4>1, <4>2
    <3>3. \A i \in Items : onHand[l][i] \in Int
      BY <1>t, <3>1
    <3>4. onHand' = [onHand EXCEPT ![l] = [i \in Items |-> onHand[l][i] - out[i] + in[i]]]
      <4>1. onHand' = [onHand EXCEPT ![l] = [i \in Items |-> IF UsedOnArrival(l, i) THEN onHand[l][i]
                                                            ELSE onHand[l][i] - down[i] + up[i]]]
        BY <1>t, <2>3, <3>1 DEF Adjust
      <4>2. [i \in Items |-> IF UsedOnArrival(l, i) THEN onHand[l][i]
                             ELSE onHand[l][i] - down[i] + up[i]]
                = [i \in Items |-> onHand[l][i] - out[i] + in[i]]
        BY <3>3
      <4> QED
        BY <4>1, <4>2
    <3>5. \A k \in Locs, i \in Items : Held(k, i)' = Held(k, i)
      BY <1>h, <2>3 DEF Adjust
    <3> HIDE DEF out, in
    <3> QED
      BY <1>t, <3>1, <3>2, <3>4, <3>5, MapsToPost
  <2>4. ASSUME NEW i \in Items, NEW q \in 1..MaxQty, LandAtStore(i, q) PROVE Kept
    <3>1. One(i, q) \in Lines
      BY LinesType
    <3> QED
      BY <1>t, <1>h, <2>4, <3>1, LocsType, ArrivalIsAPosting DEF LandAtStore
  <2> QED
    BY <1>5, <2>1, <2>2, <2>3, <2>4 DEF ShelfStep
<1>6. CASE OutletStep \/ UNCHANGED vars
  <2>1. UNCHANGED <<onHand, rsv, tkt>>
    BY <1>6 DEF OutletStep, CloseBegin, CloseEnd, ReopenOutlet, vars
  <2> QED
    BY <1>s, <2>1
<1> HIDE DEF Kept
<1> QED
  BY <1>1, <1>2, <1>3, <1>4, <1>5, <1>6 DEF Next, ScanStep

\* For any number of locations, items, tickets and documents: whatever the documents do, on each
\* shelf they only hold what is free, release or collect what is held, and post the rest.
THEOREM DocumentsKeepTheShelfDiscipline == Spec => ImplementsShelf
<1>1. Init => ShelfView!ShelfInit
  <2> SUFFICES ASSUME Init PROVE ShelfView!ShelfInit
    OBVIOUS
  <2>1. \A l, i : i \in Items => HeldUnits(l, i) = {}
    BY DEF Init, HeldUnits, Nothing
  <2>2. \A l \in Locs, i \in Items : Held(l, i) = 0
    BY <2>1, FS_EmptySet DEF Held
  <2> QED
    BY <2>2 DEF Init, Nothing, ShelfView!ShelfInit, ShelfView!Empty
<1>2. PromiseInv /\ [Next]_vars => [ShelfView!ShelfNext]_(ShelfView!shelfVars)
  BY ShelfViewStep
<1> QED
  BY <1>1, <1>2, PromiseInvariant, PTL DEF Spec, ImplementsShelf, ShelfView!ShelfSpec

-----------------------------------------------------------------------------
(* Conservation.  A shelf or a ticket in transit is a block of the units   *)
(* counted; a step that changes one block changes the count by as much.    *)

\* The shelves carry finitely many units of an item, and one shelf's block of them may be set apart.
LEMMA ShelfBlocks ==
    ASSUME TypeOK, NEW l \in Locs, NEW i \in Items,
           NEW Rest, Rest = UNION {{k} \X (1..onHand[k][i]) : k \in Locs \ {l}}
    PROVE  /\ IsFiniteSet(Rest)
           /\ ShelfUnits(i) = Rest \cup ({l} \X (1..onHand[l][i]))
           /\ \A n \in Nat : /\ IsFiniteSet(Rest \cup ({l} \X (1..n)))
                             /\ Cardinality(Rest \cup ({l} \X (1..n))) = Cardinality(Rest) + n
<1> DEFINE block == [k \in Locs \ {l} |-> {k} \X (1..onHand[k][i])]
           Blocks == {{k} \X (1..onHand[k][i]) : k \in Locs \ {l}}
<1>1. \A k \in Locs, n \in Nat : IsFiniteSet({k} \X (1..n)) /\ Cardinality({k} \X (1..n)) = n
  <2> SUFFICES ASSUME NEW k \in Locs, NEW n \in Nat
               PROVE  IsFiniteSet({k} \X (1..n)) /\ Cardinality({k} \X (1..n)) = n
    OBVIOUS
  <2>1. IsFiniteSet(1..n) /\ Cardinality(1..n) = IF 1 > n THEN 0 ELSE n - 1 + 1
    BY FS_Interval
  <2>2. IsFiniteSet({k}) /\ Cardinality({k}) = 1
    BY FS_Singleton
  <2>3. /\ IsFiniteSet({k} \X (1..n))
        /\ Cardinality({k} \X (1..n)) = Cardinality({k}) * Cardinality(1..n)
    BY <2>1, <2>2, FS_Product
  <2> QED
    BY <2>1, <2>2, <2>3
<1>2. IsFiniteSet(Rest)
  <2>1. IsFiniteSet(Locs \ {l})
    <3>1. IsFiniteSet(Outlets \cup {Store})
      BY OutletAssumption, FS_AddElement
    <3>2. IsFiniteSet((Outlets \cup {Store}) \cup {Kitchen})
      BY <3>1, FS_AddElement
    <3>3. (Outlets \cup {Store}) \cup {Kitchen} = Locs
      BY DEF Locs
    <3> QED
      BY <3>2, <3>3, FS_RemoveElement
  <2>2. block \in Surjection(Locs \ {l}, Blocks)
    BY DEF Surjection
  <2>3. IsFiniteSet(Blocks)
    BY <2>1, <2>2, FS_Surjection
  <2>4. \A B \in Blocks : IsFiniteSet(B)
    BY <1>1 DEF TypeOK
  <2> QED
    BY <2>3, <2>4, FS_UNION
<1>3. ShelfUnits(i) = Rest \cup ({l} \X (1..onHand[l][i]))
  BY DEF ShelfUnits
<1>4. ASSUME NEW n \in Nat
      PROVE  /\ IsFiniteSet(Rest \cup ({l} \X (1..n)))
             /\ Cardinality(Rest \cup ({l} \X (1..n))) = Cardinality(Rest) + n
  <2> DEFINE New == {l} \X (1..n)
  <2>1. Rest \cap New = {}
    OBVIOUS
  <2>2. IsFiniteSet(New) /\ Cardinality(New) = n
    BY <1>1
  <2>3. Cardinality(Rest) \in Nat
    BY <1>2, FS_CardinalityType
  <2> HIDE DEF New
  <2>4. /\ IsFiniteSet(Rest \cup New)
        /\ Cardinality(Rest \cup New) = Cardinality(Rest) + Cardinality(New) - Cardinality(Rest \cap New)
    BY <1>2, <2>2, FS_Union
  <2>5. Cardinality(Rest \cap New) = 0
    BY <2>1, FS_EmptySet
  <2>6. IsFiniteSet(Rest \cup New) /\ Cardinality(Rest \cup New) = Cardinality(Rest) + n
    BY <2>2, <2>3, <2>4, <2>5
  <2> QED
    BY <2>6 DEF New
<1> QED
  BY <1>2, <1>3, <1>4

\* What a posting on one shelf does to the units on all of them.
LEMMA ShelfPosting ==
    ASSUME TypeOK, TypeOK', NEW l \in Locs, NEW i \in Items,
           \A k \in Locs : k # l => onHand'[k][i] = onHand[k][i]
    PROVE  /\ Cardinality(ShelfUnits(i)) \in Nat
           /\ Cardinality(ShelfUnits(i))' = Cardinality(ShelfUnits(i)) - onHand[l][i] + onHand'[l][i]
<1> DEFINE Rest == UNION {{k} \X (1..onHand[k][i]) : k \in Locs \ {l}}
<1>1. onHand[l][i] \in Nat /\ onHand'[l][i] \in Nat
  BY DEF TypeOK
<1>2. ShelfUnits(i)' = Rest \cup ({l} \X (1..onHand'[l][i]))
  BY DEF ShelfUnits
<1>3. /\ IsFiniteSet(Rest)
      /\ ShelfUnits(i) = Rest \cup ({l} \X (1..onHand[l][i]))
      /\ \A n \in Nat : Cardinality(Rest \cup ({l} \X (1..n))) = Cardinality(Rest) + n
  BY ShelfBlocks
<1>4. Cardinality(Rest) \in Nat
  BY <1>3, FS_CardinalityType
<1> DEFINE Units(n) == Rest \cup ({l} \X (1..n))
<1>5. /\ ShelfUnits(i) = Units(onHand[l][i]) /\ ShelfUnits(i)' = Units(onHand'[l][i])
      /\ \A n \in Nat : Cardinality(Units(n)) = Cardinality(Rest) + n
  BY <1>2, <1>3
<1> HIDE DEF Rest, Units
<1>6. /\ Cardinality(ShelfUnits(i)) = Cardinality(Rest) + onHand[l][i]
      /\ Cardinality(ShelfUnits(i)') = Cardinality(Rest) + onHand'[l][i]
  BY <1>1, <1>5
<1> QED
  BY <1>1, <1>4, <1>6

\* What one ticket's walk does to the units in transit.
LEMMA TransitStep ==
    ASSUME TypeOK, TypeOK', NEW t \in Tickets, NEW i \in Items,
           \A u \in Tickets : u # t => tkt'[u] = tkt[u],
           NEW before \in Nat, before = IF tkt[t].st = "Collected" THEN tkt[t].lines[i] ELSE 0,
           NEW after \in Nat, after = IF tkt'[t].st = "Collected" THEN tkt'[t].lines[i] ELSE 0
    PROVE  /\ Cardinality(TransitUnits(i)) \in Nat
           /\ Cardinality(TransitUnits(i))' = Cardinality(TransitUnits(i)) - before + after
<1> DEFINE Rest == {u \in TransitUnits(i) : u[1] # t}
<1>1. MaxQty \in Nat /\ before \in 0..MaxQty /\ after \in 0..MaxQty
  <2>1. MaxQty \in Nat
    BY BoundAssumption
  <2>2. tkt[t].lines \in Lines /\ tkt'[t].lines \in Lines
    BY DEF TypeOK, TicketRow
  <2> QED
    BY <2>1, <2>2 DEF Lines
<1>2. /\ TransitUnits(i) = Rest \cup ({t} \X (1..before))
      /\ TransitUnits(i)' = Rest \cup ({t} \X (1..after))
  <2>1. TransitUnits(i) = Rest \cup ({t} \X (1..before))
    BY <1>1 DEF TransitUnits
  <2>2. TransitUnits(i)' = Rest \cup ({t} \X (1..after))
    <3>1. \A u \in Tickets \X (1..MaxQty) : u[1] # t =>
              (u \in TransitUnits(i)' <=> u \in Rest)
      BY DEF TransitUnits
    <3>2. \A n \in 1..MaxQty : <<t, n>> \in TransitUnits(i)' <=> n \in 1..after
      BY <1>1 DEF TransitUnits
    <3>3. \A u \in Tickets \X (1..MaxQty) : u[1] = t => u = <<t, u[2]>> /\ u[2] \in 1..MaxQty
      OBVIOUS
    <3>4. /\ TransitUnits(i)' \subseteq Tickets \X (1..MaxQty)
          /\ Rest \subseteq Tickets \X (1..MaxQty)
      BY DEF TransitUnits
    <3>5. \A u \in {t} \X (1..after) : u = <<t, u[2]>> /\ u[2] \in 1..after /\ u[2] \in 1..MaxQty
      BY <1>1
    <3>6. \A n \in 1..after : <<t, n>> \in {t} \X (1..after)
      OBVIOUS
    <3>7. \A u \in Rest : u[1] # t
      OBVIOUS
    <3> HIDE DEF Rest
    <3>8. TransitUnits(i)' \subseteq Rest \cup ({t} \X (1..after))
      BY <3>1, <3>2, <3>3, <3>4, <3>6
    <3>9. Rest \cup ({t} \X (1..after)) \subseteq TransitUnits(i)'
      BY <3>1, <3>2, <3>4, <3>5, <3>7
    <3> QED
      BY <3>8, <3>9
  <2> QED
    BY <2>1, <2>2
<1>3. IsFiniteSet(Rest) /\ Cardinality(Rest) \in Nat
  <2>1. Rest \in SUBSET (Tickets \X (1..MaxQty))
    BY DEF TransitUnits
  <2> QED
    BY <2>1, UnitsAreCounted
<1>4. ASSUME NEW n \in 0..MaxQty
      PROVE  Cardinality(Rest \cup ({t} \X (1..n))) = Cardinality(Rest) + n
  <2> DEFINE New == {t} \X (1..n)
  <2>1. IsFiniteSet(New) /\ Cardinality(New) = n
    BY UnitsOfOneTicket
  <2>2. Rest \cap New = {}
    OBVIOUS
  <2> HIDE DEF New, Rest
  <2>3. Cardinality(Rest \cup New) = Cardinality(Rest) + Cardinality(New) - Cardinality(Rest \cap New)
    BY <1>3, <2>1, FS_Union
  <2>4. n \in Nat
    BY <1>1
  <2>5. Cardinality(Rest \cap New) = 0
    BY <2>2, FS_EmptySet
  <2>6. Cardinality(Rest \cup New) = Cardinality(Rest) + n
    BY <1>3, <2>1, <2>3, <2>4, <2>5
  <2> QED
    BY <2>6 DEF New
<1> HIDE DEF Rest
<1> QED
  BY <1>1, <1>2, <1>3, <1>4

\* Only a new ticket, a scan or a cancellation changes where a ticket is, and it changes no other.
LEMMA WhoMovesATicket ==
    ASSUME TypeOK, [Next]_vars, NEW t \in Tickets, tkt'[t].st # tkt[t].st
    PROVE  /\ \A u \in Tickets : u # t => tkt'[u] = tkt[u]
           /\ \/ /\ UNCHANGED onHand
                 /\ tkt[t].st # "Collected" /\ tkt'[t].st \notin {"Collected", "Received"}
              \/ Handover(t)
              \/ Receive(t)
<1> DEFINE Goal == /\ \A u \in Tickets : u # t => tkt'[u] = tkt[u]
                   /\ \/ /\ UNCHANGED onHand
                         /\ tkt[t].st # "Collected" /\ tkt'[t].st \notin {"Collected", "Received"}
                      \/ Handover(t)
                      \/ Receive(t)
<1> SUFFICES Goal
  BY DEF Goal
<1>t. tkt \in [Tickets -> TicketRow]
  BY DEF TypeOK
<1>w. ASSUME NEW u \in Tickets, NEW refType, NEW ref, NEW from, NEW to, NEW q,
             WriteTicket(u, refType, ref, from, to, q), UNCHANGED onHand
      PROVE  Goal
  <2>1. /\ tkt[u].st = "Not drawn" /\ tkt'[u].st = "Issued"
        /\ \A v \in Tickets : v # u => tkt'[v] = tkt[v]
    BY <1>t, <1>w DEF WriteTicket, Drawn
  <2>2. u = t
    BY <2>1
  <2> QED
    BY <1>w, <2>1, <2>2
<1>1. CASE UNCHANGED tkt
  BY <1>1
<1>2. CASE RequestStep
  <2>1. PICK r \in Requests :
            \/ \E u \in Tickets : RedirectCommit(r, u) \/ Issue(r, u)
            \/ UNCHANGED tkt
    BY <1>2 DEF RequestStep, CreateRequest, CancelRequest, RejectRequest, ApproveReadStock,
       ApproveReadHeld, ApproveReadOpen, ApproveCommit, RedirectRead, Rollback
  <2>2. ASSUME NEW u \in Tickets, RedirectCommit(r, u) PROVE Goal
    BY <2>2, <1>w DEF RedirectCommit
  <2>3. ASSUME NEW u \in Tickets, Issue(r, u) PROVE Goal
    BY <2>3, <1>w DEF Issue
  <2> QED
    BY <1>1, <2>1, <2>2, <2>3
<1>3. CASE ShopStep
  <2>1. ASSUME NEW a \in Asks, NEW u \in Tickets, NEW grant \in RealLines, Answer(a, u, grant)
        PROVE  Goal
    BY <2>1, <1>w DEF Answer
  <2>2. ASSUME NEW u \in Tickets, NEW from \in Outlets, NEW to \in Outlets, NEW i \in Items,
               NEW q \in 1..MaxQty, Transfer(u, from, to, i, q)
        PROVE  Goal
    BY <2>2, <1>w DEF Transfer
  <2> HIDE DEF Goal
  <2> QED
    BY <1>1, <1>3, <2>1, <2>2 DEF ShopStep, AskShop, DeclineAsk
<1>4. CASE KitchenStep
  <2>1. ASSUME NEW d \in Orders, NEW u \in Tickets, Dispatch(d, u) PROVE Goal
    BY <2>1, <1>w DEF Dispatch
  <2>2. ASSUME NEW u \in Tickets, NEW to \in Locs, NEW i \in Items, NEW q \in 1..MaxQty,
               Distribute(u, to, i, q)
        PROVE  Goal
    BY <2>2, <1>w DEF Distribute
  <2> HIDE DEF Goal
  <2> QED
    BY <1>1, <1>4, <2>1, <2>2 DEF KitchenStep, RaiseOrder, SetOrderStatus, MakeBatch
<1>5. ASSUME NEW u \in Tickets, Handover(u) \/ WrongOtp(u) \/ Receive(u) \/ CancelTicket(u)
      PROVE  Goal
  <2>1. \A v \in Tickets : v # u => tkt'[v] = tkt[v]
    BY <1>t, <1>5 DEF Handover, WrongOtp, Receive, CancelTicket
  <2>2. u = t
    BY <2>1
  <2>3. CASE WrongOtp(u)
    <3>1. tkt'[t].st = tkt[t].st
      BY <1>t, <2>2, <2>3 DEF WrongOtp, TicketRow
    <3> QED
      BY <3>1
  <2>4. CASE CancelTicket(u)
    BY <1>t, <2>1, <2>2, <2>4 DEF CancelTicket, TICKET_TRANSITIONS, TicketRow
  <2> QED
    BY <1>5, <2>1, <2>2, <2>3, <2>4
<1>6. CASE ShelfStep \/ OutletStep \/ UNCHANGED vars
  BY <1>1, <1>6 DEF ShelfStep, OutletStep, Sale, VoidBill, Adjust, LandAtStore, CloseBegin,
     CloseEnd, ReopenOutlet, vars
<1> HIDE DEF Goal
<1> QED
  BY <1>1, <1>2, <1>3, <1>4, <1>5, <1>6 DEF Next, ScanStep

\* A handover takes off the shelf exactly what its ticket then has in transit; a receipt lands
\* exactly that, but for what the kitchen uses at once.
LEMMA ScanKeepsTotal ==
    ASSUME TypeOK, TypeOK', [Next]_vars, NEW t \in Tickets, tkt'[t].st # tkt[t].st, NEW i \in Items
    PROVE  Total(i)' = Total(i) -
               IF tkt'[t].st = "Received" /\ tkt[t].to = Kitchen /\ i \in RawItems
               THEN tkt[t].lines[i] ELSE 0
<1> DEFINE before == IF tkt[t].st = "Collected" THEN tkt[t].lines[i] ELSE 0
           after == IF tkt'[t].st = "Collected" THEN tkt'[t].lines[i] ELSE 0
           s == Cardinality(ShelfUnits(i))
           d == Cardinality(TransitUnits(i))
<1>t. /\ tkt \in [Tickets -> TicketRow] /\ tkt[t].lines[i] \in Nat /\ tkt'[t].lines[i] \in Nat
      /\ tkt[t].from \in Locs /\ tkt[t].to \in Locs /\ Store \in Locs
      /\ onHand \in [Locs -> [Items -> Nat]] /\ onHand' \in [Locs -> [Items -> Nat]]
  <2>1. tkt[t] \in TicketRow /\ tkt'[t] \in TicketRow
    BY DEF TypeOK
  <2>2. tkt[t].lines \in Lines /\ tkt'[t].lines \in Lines /\ MaxQty \in Nat
    BY <2>1, BoundAssumption DEF TicketRow
  <2>3. tkt[t].lines[i] \in Nat /\ tkt'[t].lines[i] \in Nat
    BY <2>2 DEF Lines
  <2> QED
    BY <2>1, <2>3 DEF TypeOK, TicketRow, Locs
<1>1. \A u \in Tickets : u # t => tkt'[u] = tkt[u]
  BY WhoMovesATicket
<1>2. d \in Nat /\ d' = d - before + after
  <2>1. before \in Nat /\ after \in Nat
    BY <1>t
  <2> HIDE DEF before, after
  <2>2. /\ before = IF tkt[t].st = "Collected" THEN tkt[t].lines[i] ELSE 0
        /\ after = IF tkt'[t].st = "Collected" THEN tkt'[t].lines[i] ELSE 0
    BY DEF before, after
  <2> QED
    BY <1>1, <2>1, <2>2, TransitStep
<1>3. CASE /\ UNCHANGED onHand
           /\ tkt[t].st # "Collected" /\ tkt'[t].st \notin {"Collected", "Received"}
  <2>1. s \in Nat /\ s' = s
    BY <1>t, <1>3, ShelfPosting
  <2> QED
    BY <1>2, <1>3, <2>1 DEF Total
<1>4. CASE Handover(t)
  <2>1. /\ tkt[t].st = "Issued" /\ tkt'[t].st = "Collected" /\ tkt'[t].lines = tkt[t].lines
        /\ onHand' = Take(tkt[t].from, tkt[t].lines)
    BY <1>t, <1>4 DEF Handover, TICKET_TRANSITIONS, TicketRow
  <2>2. /\ \A k \in Locs : k # tkt[t].from => onHand'[k][i] = onHand[k][i]
        /\ onHand'[tkt[t].from][i] = onHand[tkt[t].from][i] - tkt[t].lines[i]
    BY <1>t, <2>1 DEF Take
  <2>3. s \in Nat /\ s' = s - tkt[t].lines[i]
    <3>1. s \in Nat /\ s' = s - onHand[tkt[t].from][i] + onHand'[tkt[t].from][i]
      BY <1>t, <2>2, ShelfPosting
    <3> QED
      BY <1>t, <2>2, <3>1
  <2> QED
    BY <1>t, <1>2, <2>1, <2>3 DEF Total
<1>5. CASE Receive(t)
  <2>1. /\ tkt[t].st = "Collected" /\ tkt'[t].st = "Received"
        /\ onHand' = Land(tkt[t].to, tkt[t].lines)
    BY <1>t, <1>5 DEF Receive, TICKET_TRANSITIONS, TicketRow
  <2>2. /\ \A k \in Locs : k # tkt[t].to => onHand'[k][i] = onHand[k][i]
        /\ onHand'[tkt[t].to][i] = onHand[tkt[t].to][i] +
               IF tkt[t].to = Kitchen /\ i \in RawItems THEN 0 ELSE tkt[t].lines[i]
    BY <1>t, <2>1 DEF Land, UsedOnArrival
  <2>3. /\ s \in Nat
        /\ s' = s + IF tkt[t].to = Kitchen /\ i \in RawItems THEN 0 ELSE tkt[t].lines[i]
    <3>1. s \in Nat /\ s' = s - onHand[tkt[t].to][i] + onHand'[tkt[t].to][i]
      BY <1>t, <2>2, ShelfPosting
    <3> QED
      BY <1>t, <2>2, <3>1
  <2> QED
    BY <1>t, <1>2, <2>1, <2>3 DEF Total
<1> QED
  BY <1>3, <1>4, <1>5, WhoMovesATicket

\* For any number of shelves, items and tickets: raising, handing over, receiving or cancelling a
\* ticket never makes or loses a unit of stock, but for what the kitchen uses as it arrives.
THEOREM ScansNeitherMakeNorLoseStock == Spec => ScansConserveStock
<1>1. TypeOK /\ TypeOK' /\ [Next]_vars =>
          [\A t \in Tickets : tkt'[t].st # tkt[t].st =>
              \A i \in Items :
                  Total(i)' = Total(i) -
                      IF tkt'[t].st = "Received" /\ tkt[t].to = Kitchen /\ i \in RawItems
                      THEN tkt[t].lines[i] ELSE 0]_vars
  BY ScanKeepsTotal
<1> QED
  BY <1>1, TypeCorrect, PTL DEF Spec, ScansConserveStock
=============================================================================
