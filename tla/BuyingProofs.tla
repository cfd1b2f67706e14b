----------------------------- MODULE BuyingProofs -----------------------------
(***************************************************************************)
(* Proofs about Buying and RateContracts, for any number of requisitions,  *)
(* orders, items and vendors, of contracts, rates and writes in flight.    *)
(*                                                                         *)
(* Buying: what was approved of a requisition line is on the procurement   *)
(* list, on an order still open, or was accepted for it.  RateContracts:   *)
(* the trail of a contract's rates is never forked or broken, through      *)
(* whichever door a rate is changed.                                       *)
(***************************************************************************)
EXTENDS RateContracts, Buying, FiniteSetTheorems, TLAPS

-----------------------------------------------------------------------------
(* RateContracts.                                                          *)


\* What a trail tells of a rate: it starts at the first one, has no gap and ends at the present one.
Story(t, first, rate) ==
    /\ \A k \in 1..Len(t) : t[k].old = (IF k = 1 THEN first ELSE t[k - 1].new)
    /\ rate = (IF Len(t) = 0 THEN first ELSE t[Len(t)].new)

LEMMA TrailIsAStory ==
    TrailTellsTheRate <=> \A c \in Contracts : con[c].there => Story(trail[c], con[c].first, con[c].rate)
BY DEF TrailTellsTheRate, Story

LEMMA StoryGoesOn ==
    ASSUME NEW R, NEW t \in Seq([old : R, new : R]), NEW first \in R, NEW rate \in R, NEW next \in R,
           Story(t, first, rate)
    PROVE  Story(Append(t, [old |-> rate, new |-> next]), first, next)
<1> DEFINE n == Len(t)
           row == [old |-> rate, new |-> next]
           s == Append(t, row)
<1>1. row \in [old : R, new : R] /\ row.old = rate /\ row.new = next /\ n \in Nat
  OBVIOUS
<1>2. Len(s) = n + 1 /\ s[n + 1] = row /\ \A k \in 1..n : s[k] = t[k]
  BY <1>1
<1> HIDE DEF row, s
<1>3. ASSUME NEW k \in 1..(n + 1)
      PROVE  s[k].old = (IF k = 1 THEN first ELSE s[k - 1].new)
  <2>1. CASE k \in 1..n
    <3>1. s[k] = t[k] /\ (k # 1 => s[k - 1] = t[k - 1])
      BY <1>1, <1>2, <2>1
    <3> QED
      BY <2>1, <3>1 DEF Story
  <2>2. CASE k = n + 1 /\ n = 0
    <3>1. s[k] = row /\ k = 1 /\ rate = first
      BY <1>2, <2>2 DEF Story
    <3> QED
      BY <1>1, <3>1
  <2>3. CASE k = n + 1 /\ n # 0
    <3>1. s[k] = row /\ k # 1 /\ k - 1 = n /\ n \in 1..n
      BY <1>1, <1>2, <2>3
    <3>2. s[k - 1] = t[n] /\ rate = t[n].new
      BY <1>2, <2>3, <3>1 DEF Story
    <3> QED
      BY <1>1, <3>1, <3>2
  <2> QED
    BY <1>1, <2>1, <2>2, <2>3
<1>4. s[Len(s)].new = next /\ Len(s) # 0
  BY <1>1, <1>2
<1>5. Story(s, first, next)
  BY <1>2, <1>3, <1>4 DEF Story
<1> QED
  BY <1>5 DEF s, row

-----------------------------------------------------------------------------
(* The inductive invariant.                                                *)

AnyRate == Rates \cup {0}
ContractRow == [there : BOOLEAN, live : BOOLEAN, rate : AnyRate, first : AnyRate]
WriteRow == [at : {"idle", "patch", "order"}, con : Contracts \cup {"none"}, old : AnyRate,
             new : AnyRate, on : BOOLEAN]

ContractTypes ==
    /\ con \in [Contracts -> ContractRow]
    /\ trail \in [Contracts -> Seq([old : AnyRate, new : AnyRate])]
    /\ write \in [RateWrites -> WriteRow]

\* A write at work holds its contract alone, and the rate it read is the contract's still.
HoldsItsRow(w) ==
    write[w].at # "idle" =>
        LET c == write[w].con
        IN  /\ c \in Contracts /\ con[c].there /\ con[c].rate = write[w].old
            /\ \A v \in RateWrites : write[v].con = c => v = w

IdleHoldsNothing(w) == write[w].at = "idle" => write[w].con = "none"

\* A contract that was never written has no trail.
UnwrittenIsBlank(c) == ~con[c].there => trail[c] = <<>>

ContractsInv ==
    /\ ContractTypes
    /\ \A w \in RateWrites : HoldsItsRow(w) /\ IdleHoldsNothing(w)
    /\ \A c \in Contracts : UnwrittenIsBlank(c)
    /\ TrailTellsTheRate

LEMMA ContractsTyped ==
    ASSUME ContractsInv, ContractsNext
    PROVE  ContractTypes'
<1>0. /\ con \in [Contracts -> ContractRow] /\ write \in [RateWrites -> WriteRow]
      /\ trail \in [Contracts -> Seq([old : AnyRate, new : AnyRate])]
      /\ NoWrite \in WriteRow /\ Rates \subseteq AnyRate
  BY DEF ContractsInv, ContractTypes, NoWrite, WriteRow, AnyRate
<1>1. ASSUME NEW c \in Contracts, CloseContract(c) PROVE ContractTypes'
  BY <1>0, <1>1 DEF CloseContract, ContractTypes, ContractRow
<1>2. ASSUME NEW c \in Contracts, NEW rate \in Rates, CreateContract(c, rate) PROVE ContractTypes'
  BY <1>0, <1>2 DEF CreateContract, ContractTypes, ContractRow
<1>3. ASSUME NEW c \in Contracts, NEW rate \in Rates, NEW w \in RateWrites, PriceOrderRead(w, c, rate)
      PROVE  ContractTypes'
  <2>1. con[c] \in ContractRow
    BY <1>0
  <2>2. [at |-> "order", con |-> c, old |-> con[c].rate, new |-> rate, on |-> TRUE] \in WriteRow
    BY <1>0, <2>1 DEF WriteRow, ContractRow
  <2> QED
    BY <1>0, <1>3, <2>2 DEF PriceOrderRead, ContractTypes
<1>4. ASSUME NEW c \in Contracts, NEW rate \in Rates, NEW w \in RateWrites, NEW on \in BOOLEAN,
             PatchContractRead(w, c, rate, on)
      PROVE  ContractTypes'
  <2>1. con[c] \in ContractRow
    BY <1>0
  <2>2. [at |-> "patch", con |-> c, old |-> con[c].rate, new |-> rate, on |-> on] \in WriteRow
    BY <1>0, <2>1 DEF WriteRow, ContractRow
  <2> QED
    BY <1>0, <1>4, <2>2 DEF PatchContractRead, ContractTypes
<1>5. ASSUME NEW w \in RateWrites, write[w].at # "idle"
      PROVE  /\ LogRateChange(write[w].con, write[w].old, write[w].new)
                   \in [Contracts -> Seq([old : AnyRate, new : AnyRate])]
             /\ write[w].con \in Contracts /\ write[w].new \in AnyRate /\ write[w].on \in BOOLEAN
  <2>1. /\ write[w] \in WriteRow /\ write[w].con \in Contracts
        /\ write[w].old \in AnyRate /\ write[w].new \in AnyRate /\ write[w].on \in BOOLEAN
    BY <1>0, <1>5 DEF ContractsInv, HoldsItsRow, WriteRow
  <2>2. Append(trail[write[w].con], [old |-> write[w].old, new |-> write[w].new])
            \in Seq([old : AnyRate, new : AnyRate])
    <3>1. [old |-> write[w].old, new |-> write[w].new] \in [old : AnyRate, new : AnyRate]
      BY <2>1
    <3>2. trail[write[w].con] \in Seq([old : AnyRate, new : AnyRate])
      BY <1>0, <2>1
    <3> QED
      BY <3>1, <3>2
  <2> QED
    BY <1>0, <2>1, <2>2 DEF LogRateChange
<1>6. ASSUME NEW w \in RateWrites, PatchContractCommit(w) PROVE ContractTypes'
  <2>1. write[w].at # "idle"
    BY <1>6 DEF PatchContractCommit
  <2>2. write' \in [RateWrites -> WriteRow]
    BY <1>0, <1>6 DEF PatchContractCommit
  <2>3. CASE con' = con /\ trail' = trail
    BY <1>0, <2>2, <2>3 DEF ContractTypes
  <2>4. CASE /\ con' = [con EXCEPT ![write[w].con] =
                           [con[write[w].con] EXCEPT !.rate = write[w].new, !.live = write[w].on]]
             /\ trail' = LogRateChange(write[w].con, write[w].old, write[w].new)
    <3>1. con[write[w].con] \in ContractRow
      BY <1>0, <1>5, <2>1
    <3>2. [con[write[w].con] EXCEPT !.rate = write[w].new, !.live = write[w].on] \in ContractRow
      BY <1>5, <2>1, <3>1 DEF ContractRow
    <3> QED
      BY <1>0, <1>5, <2>1, <2>2, <2>4, <3>2 DEF ContractTypes
  <2> QED
    BY <1>0, <1>6, <2>3, <2>4 DEF PatchContractCommit
<1>7. ASSUME NEW w \in RateWrites, SyncContractRates(w) PROVE ContractTypes'
  <2>1. write[w].at # "idle"
    BY <1>7 DEF SyncContractRates
  <2>2. write' \in [RateWrites -> WriteRow]
    BY <1>0, <1>7 DEF SyncContractRates
  <2>3. con[write[w].con] \in ContractRow
    BY <1>0, <1>5, <2>1
  <2>4. [con[write[w].con] EXCEPT !.rate = write[w].new] \in ContractRow
    BY <1>5, <2>1, <2>3 DEF ContractRow
  <2>5. /\ con' = [con EXCEPT ![write[w].con] = [con[write[w].con] EXCEPT !.rate = write[w].new]]
        /\ trail' = LogRateChange(write[w].con, write[w].old, write[w].new)
    BY <1>7 DEF SyncContractRates
  <2> QED
    BY <1>0, <1>5, <2>1, <2>2, <2>4, <2>5 DEF ContractTypes
<1>8. ASSUME NEW w \in RateWrites, WriteAbandoned(w) PROVE ContractTypes'
  BY <1>0, <1>8 DEF WriteAbandoned, ContractTypes
<1> QED
  BY <1>1, <1>2, <1>3, <1>4, <1>6, <1>7, <1>8 DEF ContractsNext

-----------------------------------------------------------------------------
(* The steps, as what they do to one contract and to one write.            *)

\* A write of one contract's rate commits.
RateWritten(w, c) ==
    /\ write[w].at # "idle" /\ c = write[w].con
    /\ con'[c].there = con[c].there /\ con'[c].first = con[c].first /\ con'[c].rate = write[w].new
    /\ trail'[c] = IF write[w].old = write[w].new THEN trail[c]
                   ELSE Append(trail[c], [old |-> write[w].old, new |-> write[w].new])
    /\ \A d \in Contracts : d # c => con'[d] = con[d] /\ trail'[d] = trail[d]

\* A write lets go of its contract.
LetsGo(w) == write'[w] = NoWrite /\ \A v \in RateWrites : v # w => write'[v] = write[v]

\* A write locks a contract nobody holds and reads its rate.
TakesHold(w, c) ==
    /\ con[c].there /\ ContractFree(c)
    /\ write'[w].at # "idle" /\ write'[w].con = c /\ write'[w].old = con[c].rate
    /\ \A v \in RateWrites : v # w => write'[v] = write[v]

LEMMA CommitsAreRateWrites ==
    ASSUME ContractsInv, NEW w \in RateWrites, PatchContractCommit(w) \/ SyncContractRates(w)
    PROVE  LetsGo(w) /\ ((con' = con /\ trail' = trail) \/ \E c \in Contracts : RateWritten(w, c))
<1>0. /\ con \in [Contracts -> ContractRow] /\ write \in [RateWrites -> WriteRow]
      /\ trail \in [Contracts -> Seq([old : AnyRate, new : AnyRate])]
  BY DEF ContractsInv, ContractTypes
<1>1. write[w].at # "idle" /\ write' = [write EXCEPT ![w] = NoWrite]
  BY DEF PatchContractCommit, SyncContractRates
<1>2. PICK c : c = write[w].con
  OBVIOUS
<1>3. c \in Contracts /\ con[c] \in ContractRow
  BY <1>0, <1>1, <1>2 DEF ContractsInv, HoldsItsRow
<1>4. LetsGo(w)
  BY <1>0, <1>1 DEF LetsGo
<1>5. ASSUME NEW row \in ContractRow, con' = [con EXCEPT ![c] = row],
             row.there = con[c].there, row.first = con[c].first, row.rate = write[w].new,
             trail' = LogRateChange(write[w].con, write[w].old, write[w].new)
      PROVE  RateWritten(w, c)
  <2>1. con'[c] = row /\ \A d \in Contracts : d # c => con'[d] = con[d]
    BY <1>0, <1>3, <1>5
  <2>2. /\ trail'[c] = IF write[w].old = write[w].new THEN trail[c]
                       ELSE Append(trail[c], [old |-> write[w].old, new |-> write[w].new])
        /\ \A d \in Contracts : d # c => trail'[d] = trail[d]
    BY <1>0, <1>2, <1>3, <1>5 DEF LogRateChange
  <2> QED
    BY <1>1, <1>2, <1>5, <2>1, <2>2 DEF RateWritten
<1>6. CASE SyncContractRates(w)
  <2> DEFINE row == [con[c] EXCEPT !.rate = write[w].new]
  <2>1. write[w].new \in AnyRate
    <3>1. write[w] \in WriteRow
      BY <1>0
    <3> QED
      BY <3>1 DEF WriteRow
  <2>2. /\ row \in ContractRow /\ row.there = con[c].there /\ row.first = con[c].first
        /\ row.rate = write[w].new
    BY <1>3, <2>1 DEF ContractRow
  <2>3. con' = [con EXCEPT ![c] = row]
    BY <1>2, <1>6 DEF SyncContractRates
  <2>4. trail' = LogRateChange(write[w].con, write[w].old, write[w].new)
    BY <1>6 DEF SyncContractRates
  <2> HIDE DEF row
  <2> QED
    BY <1>3, <1>4, <1>5, <2>2, <2>3, <2>4
<1>7. CASE PatchContractCommit(w)
  <2> DEFINE row == [con[c] EXCEPT !.rate = write[w].new, !.live = write[w].on]
  <2>1. write[w].new \in AnyRate /\ write[w].on \in BOOLEAN
    <3>1. write[w] \in WriteRow
      BY <1>0
    <3> QED
      BY <3>1 DEF WriteRow
  <2>2. /\ row \in ContractRow /\ row.there = con[c].there /\ row.first = con[c].first
        /\ row.rate = write[w].new
    BY <1>3, <2>1 DEF ContractRow
  <2>3. \/ con' = con /\ trail' = trail
        \/ /\ con' = [con EXCEPT ![c] = row]
           /\ trail' = LogRateChange(write[w].con, write[w].old, write[w].new)
    BY <1>2, <1>7 DEF PatchContractCommit
  <2> HIDE DEF row
  <2> QED
    BY <1>3, <1>4, <1>5, <2>2, <2>3
<1> QED
  BY <1>6, <1>7

LEMMA ContractStep ==
    ASSUME ContractsInv, ContractsNext
    PROVE  \/ con' = con /\ trail' = trail /\ \E w \in RateWrites : LetsGo(w)
           \/ \E w \in RateWrites, c \in Contracts : RateWritten(w, c) /\ LetsGo(w)
           \/ con' = con /\ trail' = trail /\ \E w \in RateWrites, c \in Contracts : TakesHold(w, c)
           \/ /\ trail' = trail /\ write' = write
              /\ \E c \in Contracts : /\ ContractFree(c) \/ ~con[c].there
                                      /\ \/ ~con[c].there /\ con'[c].rate = con'[c].first
                                         \/ /\ con'[c].there = con[c].there
                                            /\ con'[c].rate = con[c].rate
                                            /\ con'[c].first = con[c].first
                                      /\ \A d \in Contracts : d # c => con'[d] = con[d]
<1>0. con \in [Contracts -> ContractRow] /\ write \in [RateWrites -> WriteRow]
  BY DEF ContractsInv, ContractTypes
<1>1. ASSUME NEW c \in Contracts, CloseContract(c)
      PROVE  /\ trail' = trail /\ write' = write /\ ContractFree(c)
             /\ con'[c].there = con[c].there /\ con'[c].rate = con[c].rate
             /\ con'[c].first = con[c].first
             /\ \A d \in Contracts : d # c => con'[d] = con[d]
  BY <1>0, <1>1 DEF CloseContract, ContractRow
<1>2. ASSUME NEW c \in Contracts, NEW rate \in Rates, CreateContract(c, rate)
      PROVE  /\ trail' = trail /\ write' = write /\ ~con[c].there
             /\ con'[c].rate = con'[c].first
             /\ \A d \in Contracts : d # c => con'[d] = con[d]
  BY <1>0, <1>2 DEF CreateContract
<1>3. ASSUME NEW c \in Contracts, NEW rate \in Rates, NEW w \in RateWrites, PriceOrderRead(w, c, rate)
      PROVE  con' = con /\ trail' = trail /\ TakesHold(w, c)
  BY <1>0, <1>3 DEF PriceOrderRead, TakesHold, LiveContracts
<1>4. ASSUME NEW c \in Contracts, NEW rate \in Rates, NEW w \in RateWrites, NEW on \in BOOLEAN,
             PatchContractRead(w, c, rate, on)
      PROVE  con' = con /\ trail' = trail /\ TakesHold(w, c)
  BY <1>0, <1>4 DEF PatchContractRead, TakesHold
<1>5. ASSUME NEW w \in RateWrites, WriteAbandoned(w)
      PROVE  con' = con /\ trail' = trail /\ LetsGo(w)
  BY <1>0, <1>5 DEF WriteAbandoned, LetsGo
<1> QED
  BY <1>1, <1>2, <1>3, <1>4, <1>5, CommitsAreRateWrites DEF ContractsNext

-----------------------------------------------------------------------------
(* A step keeps the invariant.                                             *)

LEMMA HoldsKept ==
    ASSUME ContractsInv, ContractsNext
    PROVE  \A w \in RateWrites : (HoldsItsRow(w) /\ IdleHoldsNothing(w))'
<1>0. /\ \A w \in RateWrites : HoldsItsRow(w) /\ IdleHoldsNothing(w)
      /\ NoWrite.at = "idle" /\ NoWrite.con = "none"
  BY DEF ContractsInv, NoWrite
<1>1. ASSUME NEW w \in RateWrites, LetsGo(w), con' = con
      PROVE  \A v \in RateWrites : (HoldsItsRow(v) /\ IdleHoldsNothing(v))'
  BY <1>0, <1>1, ContractAssumption DEF LetsGo, HoldsItsRow, IdleHoldsNothing
<1>2. ASSUME NEW w \in RateWrites, NEW c \in Contracts, RateWritten(w, c), LetsGo(w)
      PROVE  \A v \in RateWrites : (HoldsItsRow(v) /\ IdleHoldsNothing(v))'
  <2> SUFFICES ASSUME NEW v \in RateWrites PROVE (HoldsItsRow(v) /\ IdleHoldsNothing(v))'
    OBVIOUS
  <2>1. CASE v = w
    BY <1>0, <1>2, <2>1 DEF LetsGo, HoldsItsRow, IdleHoldsNothing
  <2>2. CASE v # w
    <3>1. write'[v] = write[v] /\ HoldsItsRow(v) /\ IdleHoldsNothing(v)
      BY <1>0, <1>2, <2>2 DEF LetsGo
    <3>2. write[v].at # "idle" => write[v].con # c
      BY <1>0, <1>2, <2>2 DEF RateWritten, HoldsItsRow
    <3>3. write[v].at # "idle" => con'[write[v].con] = con[write[v].con]
      BY <1>2, <3>1, <3>2 DEF RateWritten, HoldsItsRow
    <3>4. ASSUME NEW u \in RateWrites, write[v].at # "idle", write'[u].con = write[v].con
          PROVE  u = v
      <4>1. u # w
        BY <1>0, <1>2, <3>1, <3>4, ContractAssumption DEF LetsGo, HoldsItsRow
      <4>2. write'[u] = write[u]
        BY <1>2, <4>1 DEF LetsGo
      <4> QED
        BY <3>1, <3>4, <4>2 DEF HoldsItsRow
    <3> QED
      BY <3>1, <3>3, <3>4 DEF HoldsItsRow, IdleHoldsNothing
  <2> QED
    BY <2>1, <2>2
<1>3. ASSUME NEW w \in RateWrites, NEW c \in Contracts, TakesHold(w, c), con' = con
      PROVE  \A v \in RateWrites : (HoldsItsRow(v) /\ IdleHoldsNothing(v))'
  BY <1>0, <1>3 DEF TakesHold, ContractFree, HoldsItsRow, IdleHoldsNothing
<1>4. ASSUME write' = write, NEW c \in Contracts, ContractFree(c) \/ ~con[c].there,
             \A d \in Contracts : d # c => con'[d] = con[d]
      PROVE  \A v \in RateWrites : (HoldsItsRow(v) /\ IdleHoldsNothing(v))'
  <2> SUFFICES ASSUME NEW v \in RateWrites PROVE (HoldsItsRow(v) /\ IdleHoldsNothing(v))'
    OBVIOUS
  <2>1. write[v].at # "idle" => write[v].con # c
    BY <1>0, <1>4 DEF ContractFree, HoldsItsRow
  <2> QED
    BY <1>0, <1>4, <2>1 DEF HoldsItsRow, IdleHoldsNothing
<1> QED
  BY <1>1, <1>2, <1>3, <1>4, ContractStep

LEMMA TrailsKept ==
    ASSUME ContractsInv, ContractsNext
    PROVE  (\A c \in Contracts : UnwrittenIsBlank(c))' /\ TrailTellsTheRate'
<1> DEFINE Fits(d) == /\ ~con'[d].there => trail'[d] = <<>>
                      /\ con'[d].there => Story(trail'[d], con'[d].first, con'[d].rate)
<1>0. /\ con \in [Contracts -> ContractRow] /\ write \in [RateWrites -> WriteRow]
      /\ trail \in [Contracts -> Seq([old : AnyRate, new : AnyRate])]
      /\ \A w \in RateWrites : HoldsItsRow(w)
      /\ \A c \in Contracts : ~con[c].there => trail[c] = <<>>
      /\ \A c \in Contracts : con[c].there => Story(trail[c], con[c].first, con[c].rate)
  BY TrailIsAStory DEF ContractsInv, ContractTypes, UnwrittenIsBlank
<1>1. ASSUME NEW d \in Contracts, con'[d] = con[d], trail'[d] = trail[d]
      PROVE  Fits(d)
  BY <1>0, <1>1
<1>2. ASSUME NEW w \in RateWrites, NEW c \in Contracts, RateWritten(w, c)
      PROVE  Fits(c)
  <2>1. /\ con[c].there /\ con'[c].there /\ con'[c].first = con[c].first
        /\ con'[c].rate = write[w].new /\ con[c].rate = write[w].old
        /\ trail'[c] = IF write[w].old = write[w].new THEN trail[c]
                       ELSE Append(trail[c], [old |-> write[w].old, new |-> write[w].new])
    BY <1>0, <1>2 DEF RateWritten, HoldsItsRow
  <2>2. Story(trail[c], con[c].first, write[w].old)
    BY <1>0, <2>1
  <2>3. /\ con[c].first \in AnyRate /\ write[w].old \in AnyRate /\ write[w].new \in AnyRate
        /\ trail[c] \in Seq([old : AnyRate, new : AnyRate])
    <3>1. con[c] \in ContractRow /\ write[w] \in WriteRow
      BY <1>0
    <3> QED
      BY <1>0, <3>1 DEF ContractRow, WriteRow
  <2>4. Story(Append(trail[c], [old |-> write[w].old, new |-> write[w].new]),
              con[c].first, write[w].new)
    BY <2>2, <2>3, StoryGoesOn
  <2> QED
    BY <2>1, <2>2, <2>4
<1>3. ASSUME trail' = trail, NEW c \in Contracts,
             \/ ~con[c].there /\ con'[c].rate = con'[c].first
             \/ /\ con'[c].there = con[c].there /\ con'[c].rate = con[c].rate
                /\ con'[c].first = con[c].first
      PROVE  Fits(c)
  <2>1. Story(<<>>, con'[c].first, con'[c].first)
    BY DEF Story
  <2> QED
    BY <1>0, <1>3, <2>1
<1>4. \A d \in Contracts : Fits(d)
  <2> SUFFICES ASSUME NEW d \in Contracts PROVE Fits(d)
    OBVIOUS
  <2>1. ASSUME NEW w \in RateWrites, NEW c \in Contracts, RateWritten(w, c) PROVE Fits(d)
    <3>1. CASE c = d
      BY <1>2, <2>1, <3>1
    <3>2. CASE c # d
      <4>1. con'[d] = con[d] /\ trail'[d] = trail[d]
        BY <2>1, <3>2 DEF RateWritten
      <4> QED
        BY <1>1, <4>1
    <3> QED
      BY <3>1, <3>2
  <2>2. ASSUME trail' = trail, NEW c \in Contracts,
               \/ ~con[c].there /\ con'[c].rate = con'[c].first
               \/ /\ con'[c].there = con[c].there /\ con'[c].rate = con[c].rate
                  /\ con'[c].first = con[c].first,
               \A e \in Contracts : e # c => con'[e] = con[e]
        PROVE  Fits(d)
    <3>1. CASE c = d
      BY <1>3, <2>2, <3>1
    <3>2. CASE c # d
      <4>1. con'[d] = con[d] /\ trail'[d] = trail[d]
        BY <2>2, <3>2
      <4> QED
        BY <1>1, <4>1
    <3> QED
      BY <3>1, <3>2
  <2>3. CASE con' = con /\ trail' = trail
    BY <1>1, <2>3
  <2> HIDE DEF Fits
  <2> QED
    BY <2>1, <2>2, <2>3, ContractStep
<1> QED
  BY <1>4 DEF UnwrittenIsBlank, TrailTellsTheRate, Story

\* What every state of the contracts has: the trail is whole because each write holds the row it
\* read, and alone.
THEOREM ContractsInvariant == ContractsSpec => []ContractsInv
<1>1. ContractsInit => ContractsInv
  <2> SUFFICES ASSUME ContractsInit PROVE ContractsInv
    OBVIOUS
  <2>1. ContractTypes
    <3>1. 0 \in AnyRate
      BY DEF AnyRate
    <3>2. NoWrite \in WriteRow
      BY <3>1 DEF NoWrite, WriteRow
    <3>3. [there |-> FALSE, live |-> FALSE, rate |-> 0, first |-> 0] \in ContractRow
      BY <3>1 DEF ContractRow
    <3>4. <<>> \in Seq([old : AnyRate, new : AnyRate])
      OBVIOUS
    <3> QED
      BY <3>2, <3>3, <3>4 DEF ContractsInit, ContractTypes
  <2>2. \A w \in RateWrites : HoldsItsRow(w) /\ IdleHoldsNothing(w)
    BY DEF ContractsInit, HoldsItsRow, IdleHoldsNothing, NoWrite
  <2>3. (\A c \in Contracts : UnwrittenIsBlank(c)) /\ TrailTellsTheRate
    BY DEF ContractsInit, UnwrittenIsBlank, TrailTellsTheRate
  <2> QED
    BY <2>1, <2>2, <2>3 DEF ContractsInv
<1>2. ContractsInv /\ [ContractsNext]_contractVars => ContractsInv'
  <2>1. ASSUME ContractsInv, ContractsNext PROVE ContractsInv'
    BY <2>1, ContractsTyped, HoldsKept, TrailsKept DEF ContractsInv
  <2>2. ASSUME ContractsInv, UNCHANGED contractVars PROVE ContractsInv'
    <3>1. con' = con /\ trail' = trail /\ write' = write
      BY <2>2 DEF contractVars
    <3>2. ContractTypes' /\ \A c \in Contracts : UnwrittenIsBlank(c)'
      BY <2>2, <3>1 DEF ContractsInv, ContractTypes, UnwrittenIsBlank
    <3>3. \A w \in RateWrites : HoldsItsRow(w)' /\ IdleHoldsNothing(w)'
      BY <2>2, <3>1 DEF ContractsInv, HoldsItsRow, IdleHoldsNothing
    <3>4. TrailTellsTheRate'
      BY <2>2, <3>1, Zenon DEF ContractsInv, TrailTellsTheRate
    <3> QED
      BY <3>2, <3>3, <3>4 DEF ContractsInv
  <2> QED
    BY <2>1, <2>2
<1> QED
  BY <1>1, <1>2, PTL DEF ContractsSpec

\* The trail of a contract's rates tells the whole story, whichever door a change came through and
\* however many writers there are.
THEOREM RatesAreTraced == ContractsSpec => []TrailTellsTheRate
<1>1. ContractsInv => TrailTellsTheRate
  BY DEF ContractsInv
<1> QED
  BY <1>1, ContractsInvariant, PTL

-----------------------------------------------------------------------------
(* Demand.  A requisition's units are counted over all orders, so that a   *)
(* step on one order changes the count by that order's own.                *)

\* The units of all orders, F of each.
AllOf(F) == UNION {{o} \X F[o] : o \in Orders}

LEMMA OneOrdersUnits ==
    ASSUME NEW o, NEW U, IsFiniteSet(U)
    PROVE  IsFiniteSet({o} \X U) /\ Cardinality({o} \X U) = Cardinality(U)
<1> DEFINE one == {o}
<1>1. IsFiniteSet(one) /\ Cardinality(one) = 1
  BY FS_Singleton
<1> HIDE DEF one
<1>2. IsFiniteSet(one \X U) /\ Cardinality(one \X U) = Cardinality(one) * Cardinality(U)
  BY <1>1, FS_Product
<1>3. Cardinality(one \X U) = Cardinality(U)
  <2>1. Cardinality(U) \in Nat
    BY FS_CardinalityType
  <2> QED
    BY <1>1, <1>2, <2>1
<1> QED
  BY <1>2, <1>3 DEF one

LEMMA AllUnitsFinite ==
    ASSUME NEW F, NEW some \in SUBSET Orders, \A p \in some : IsFiniteSet(F[p])
    PROVE  IsFiniteSet(UNION {{p} \X F[p] : p \in some})
<1> DEFINE parts == {{p} \X F[p] : p \in some}
           f == [p \in some |-> {p} \X F[p]]
<1>1. IsFiniteSet(some)
  BY OrdersAssumption, FS_Subset
<1>2. f \in Surjection(some, parts)
  BY DEF Surjection
<1>3. \A T \in parts : IsFiniteSet(T)
  BY OneOrdersUnits
<1> HIDE DEF parts, f
<1>4. IsFiniteSet(parts)
  BY <1>1, <1>2, FS_Surjection
<1>5. IsFiniteSet(UNION parts)
  BY <1>3, <1>4, FS_UNION
<1> QED
  BY <1>5 DEF parts

LEMMA OneOrderChanges ==
    ASSUME NEW F, NEW G, NEW o \in Orders,
           \A p \in Orders : IsFiniteSet(F[p]) /\ IsFiniteSet(G[p]),
           \A p \in Orders : p # o => G[p] = F[p]
    PROVE  Cardinality(AllOf(G)) - Cardinality(G[o]) = Cardinality(AllOf(F)) - Cardinality(F[o])
<1> DEFINE Rest == UNION {{p} \X F[p] : p \in Orders \ {o}}
<1>1. IsFiniteSet(Rest)
  BY AllUnitsFinite
<1>2. ASSUME NEW U, IsFiniteSet(U)
      PROVE  Cardinality(Rest \cup ({o} \X U)) = Cardinality(Rest) + Cardinality(U)
  <2> DEFINE own == {o} \X U
  <2>1. IsFiniteSet(own) /\ Cardinality(own) = Cardinality(U)
    BY <1>2, OneOrdersUnits
  <2>2. Rest \cap own = {}
    OBVIOUS
  <2> HIDE DEF own, Rest
  <2>3. Cardinality(Rest \cup own) = Cardinality(Rest) + Cardinality(own) - Cardinality({})
    BY <1>1, <2>1, <2>2, FS_Union
  <2>4. Cardinality(U) \in Nat /\ Cardinality(Rest) \in Nat
    BY <1>1, <1>2, FS_CardinalityType
  <2> QED
    BY <2>1, <2>3, <2>4, FS_EmptySet DEF own
<1>3. AllOf(F) = Rest \cup ({o} \X F[o]) /\ AllOf(G) = Rest \cup ({o} \X G[o])
  BY DEF AllOf
<1> HIDE DEF Rest
<1>4. Cardinality(AllOf(F)) = Cardinality(Rest) + Cardinality(F[o])
  BY <1>2, <1>3
<1>5. Cardinality(AllOf(G)) = Cardinality(Rest) + Cardinality(G[o])
  BY <1>2, <1>3
<1>6. Cardinality(Rest) \in Nat /\ Cardinality(F[o]) \in Nat /\ Cardinality(G[o]) \in Nat
  BY <1>1, FS_CardinalityType
<1> QED
  BY <1>4, <1>5, <1>6

-----------------------------------------------------------------------------
(* The inductive invariant.                                                *)

RequisitionRow == [st : {"none", "Sent", "Declined", "Partially approved", "Approved"},
                   qty : Nat, appr : Nat, ordered : Int]
OrderRow == [st : {"none", "Draft", "Ordered", "Partially received", "Received", "Cancelled"},
             vendor : Vendors \cup {"none"}]
LineRow == [qty : Nat, recv : Int, rejected : Int, src : Seq(Requisitions)]

BuyingTypes ==
    /\ prq \in [Requisitions -> RequisitionRow]
    /\ po \in [Orders -> OrderRow]
    /\ line \in [Orders -> [BuyItems -> LineRow]]

\* What of a requisition is on orders is what they stand for, never more than was approved of it,
\* and nothing is approved of one that nobody has answered or that was declined.
RequisitionAddsUp(r) ==
    /\ prq[r].ordered = Cardinality(UnitsOn(r))
    /\ prq[r].ordered <= prq[r].appr
    /\ prq[r].st \notin {"Approved", "Partially approved"} => prq[r].appr = 0

BuyingInv ==
    /\ BuyingTypes
    /\ SourcesCoverLines
    /\ \A r \in Requisitions : RequisitionAddsUp(r)

LEMMA ItemAsked == \A r \in Requisitions : Asked[r] \in BuyItems
BY DEF BuyItems

LEMMA UnitsAreFinite ==
    ASSUME BuyingTypes, NEW o \in Orders, NEW r \in Requisitions
    PROVE  IsFiniteSet(UnitsFor(o, r))
<1>1. line[o][Asked[r]] \in LineRow
  BY ItemAsked DEF BuyingTypes
<1> DEFINE n == Len(line[o][Asked[r]].src)
<1>2. n \in Nat /\ DOMAIN line[o][Asked[r]].src = 1..n
  BY <1>1 DEF LineRow
<1>3. UnitsFor(o, r) \subseteq 1..n
  BY <1>2 DEF UnitsFor
<1> HIDE DEF n
<1> QED
  BY <1>2, <1>3, FS_Interval, FS_Subset

LEMMA UnitsAdded ==
    ASSUME NEW r
    PROVE  UnitsOn(r) = AllOf([o \in Orders |-> UnitsFor(o, r)])
BY DEF UnitsOn, AllOf

\* The invariant is what the property says, and why.
LEMMA InvariantAddsUp == BuyingInv => BuyingAddsUp
<1> SUFFICES ASSUME BuyingInv PROVE BuyingAddsUp
  OBVIOUS
<1>1. ASSUME NEW r \in Requisitions
      PROVE  /\ prq[r].ordered >= 0 /\ prq[r].ordered <= prq[r].appr
             /\ prq[r].appr = PendingOn(r) + Cardinality(UnitsOn(r))
  <2>1. RequisitionAddsUp(r) /\ prq[r] \in RequisitionRow
    BY DEF BuyingInv, BuyingTypes
  <2>2. IsFiniteSet(UnitsOn(r))
    <3> DEFINE F == [o \in Orders |-> UnitsFor(o, r)]
    <3>1. \A o \in Orders : IsFiniteSet(F[o])
      BY UnitsAreFinite DEF BuyingInv
    <3> HIDE DEF F
    <3>2. IsFiniteSet(AllOf(F))
      BY <3>1, AllUnitsFinite DEF AllOf
    <3> QED
      BY <3>2, UnitsAdded DEF F
  <2>3. Cardinality(UnitsOn(r)) \in Nat
    BY <2>2, FS_CardinalityType
  <2>4. prq[r].appr \in Nat /\ prq[r].ordered \in Nat
    BY <2>1, <2>3 DEF RequisitionAddsUp, RequisitionRow
  <2> DEFINE units == Cardinality(UnitsOn(r))
  <2>7. prq[r].ordered = units /\ prq[r].ordered <= prq[r].appr
    BY <2>1 DEF RequisitionAddsUp
  <2> HIDE DEF units
  <2>8. units \in Nat /\ (units = 0 => prq[r].ordered = 0)
    BY <2>4, <2>7
  <2>5. CASE prq[r].st \in {"Approved", "Partially approved"}
    <3>1. PendingOn(r) = prq[r].appr - prq[r].ordered
      BY <2>5 DEF PendingOn
    <3> QED
      BY <2>4, <2>7, <2>8, <3>1 DEF units
  <2>6. CASE prq[r].st \notin {"Approved", "Partially approved"}
    <3>1. PendingOn(r) = 0 /\ prq[r].appr = 0
      BY <2>1, <2>6 DEF PendingOn, RequisitionAddsUp
    <3>2. prq[r].ordered = 0
      BY <2>4, <2>7, <3>1
    <3> QED
      BY <2>4, <2>7, <2>8, <3>1, <3>2 DEF units
  <2> QED
    BY <2>5, <2>6
<1> QED
  BY <1>1 DEF BuyingAddsUp, ClaimsFitApprovals, DemandIsConserved, BuyingInv

-----------------------------------------------------------------------------
(* What an order's claims come to.                                         *)

\* The units of a requisition past those of their line that stay.
Released(o, r, stays) ==
    {n \in DOMAIN line[o][Asked[r]].src : n > stays[Asked[r]] /\ line[o][Asked[r]].src[n] = r}

LEMMA PlacesFinite ==
    ASSUME NEW src \in Seq(Requisitions), NEW S, S \subseteq DOMAIN src
    PROVE  IsFiniteSet(S) /\ Cardinality(S) \in Nat
<1> DEFINE n == Len(src)
<1>1. n \in Nat /\ DOMAIN src = 1..n
  OBVIOUS
<1> HIDE DEF n
<1>2. IsFiniteSet(S)
  BY <1>1, FS_Interval, FS_Subset
<1> QED
  BY <1>2, FS_CardinalityType

LEMMA ClaimsAreNumbers ==
    ASSUME NEW srcs, \A i \in BuyItems : srcs[i] \in Seq(Requisitions), NEW stays, NEW r \in Requisitions
    PROVE  Claims(srcs, stays)[r] \in Nat
<1>1. srcs[Asked[r]] \in Seq(Requisitions)
  BY ItemAsked
<1> DEFINE S == {n \in DOMAIN srcs[Asked[r]] : n > stays[Asked[r]] /\ srcs[Asked[r]][n] = r}
<1>2. S \subseteq DOMAIN srcs[Asked[r]]
  OBVIOUS
<1>3. Claims(srcs, stays)[r] = Cardinality(S)
  BY DEF Claims
<1> HIDE DEF S
<1> QED
  BY <1>1, <1>2, <1>3, PlacesFinite

LEMMA SourcesTyped ==
    ASSUME BuyingTypes, NEW o \in Orders
    PROVE  \A i \in BuyItems : SourcesOf(o)[i] = line[o][i].src /\ SourcesOf(o)[i] \in Seq(Requisitions)
BY DEF BuyingTypes, LineRow, SourcesOf

LEMMA ReleasedCounted ==
    ASSUME BuyingTypes, NEW o \in Orders, NEW r \in Requisitions, NEW stays
    PROVE  Claims(SourcesOf(o), stays)[r] = Cardinality(Released(o, r, stays))
<1>1. SourcesOf(o)[Asked[r]] = line[o][Asked[r]].src
  BY ItemAsked, SourcesTyped
<1> QED
  BY <1>1 DEF Claims, Released

\* A step on one order changes a requisition's count by that order's own units.
LEMMA CountChanges ==
    ASSUME BuyingTypes, BuyingTypes', NEW o \in Orders, NEW r \in Requisitions,
           \A p \in Orders : p # o => UnitsFor(p, r)' = UnitsFor(p, r)
    PROVE  /\ Cardinality(UnitsOn(r)') - Cardinality(UnitsFor(o, r)') = Cardinality(UnitsOn(r)) - Cardinality(UnitsFor(o, r))
           /\ Cardinality(UnitsOn(r)') \in Nat /\ Cardinality(UnitsOn(r)) \in Nat
           /\ IsFiniteSet(UnitsFor(o, r)') /\ IsFiniteSet(UnitsFor(o, r))
<1> DEFINE F == [p \in Orders |-> UnitsFor(p, r)]
           G == [p \in Orders |-> UnitsFor(p, r)']
<1>1. \A p \in Orders : IsFiniteSet(F[p])
  BY UnitsAreFinite
<1>2. \A p \in Orders : IsFiniteSet(G[p])
  <2> TAKE p \in Orders
  <2>1. line'[p][Asked[r]].src \in Seq(Requisitions)
    BY ItemAsked DEF BuyingTypes, LineRow
  <2>2. UnitsFor(p, r)' \subseteq DOMAIN line'[p][Asked[r]].src
    BY DEF UnitsFor
  <2>3. IsFiniteSet(UnitsFor(p, r)')
    BY <2>1, <2>2, PlacesFinite
  <2> QED
    BY <2>3
<1>3. \A p \in Orders : p # o => G[p] = F[p]
  OBVIOUS
<1>4. F[o] = UnitsFor(o, r) /\ G[o] = UnitsFor(o, r)'
  OBVIOUS
<1>5. UnitsOn(r) = AllOf(F) /\ UnitsOn(r)' = AllOf(G)
  BY DEF UnitsOn, AllOf
<1> HIDE DEF F, G
<1>6. Cardinality(AllOf(G)) - Cardinality(G[o]) = Cardinality(AllOf(F)) - Cardinality(F[o])
  BY <1>1, <1>2, <1>3, OneOrderChanges
<1>7. IsFiniteSet(AllOf(F)) /\ IsFiniteSet(AllOf(G))
  BY <1>1, <1>2, AllUnitsFinite DEF AllOf
<1>8. Cardinality(AllOf(F)) \in Nat /\ Cardinality(AllOf(G)) \in Nat
  BY <1>7, FS_CardinalityType
<1> QED
  BY <1>1, <1>2, <1>4, <1>5, <1>6, <1>8

\* A step that leaves every order standing for what it stood for.
LEMMA NothingClaimed ==
    ASSUME BuyingInv, NEW r \in Requisitions,
           \A p \in Orders : UnitsFor(p, r)' = UnitsFor(p, r), prq'[r] = prq[r]
    PROVE  RequisitionAddsUp(r)'
<1>1. UnitsOn(r)' = UnitsOn(r)
  BY DEF UnitsOn
<1> QED
  BY <1>1 DEF RequisitionAddsUp, BuyingInv

LEMMA RowWritten ==
    ASSUME NEW row \in RequisitionRow, NEW k \in Nat
    PROVE  /\ [row EXCEPT !.ordered = @ + (-1) * k] \in RequisitionRow
           /\ [row EXCEPT !.ordered = @ + 1 * k] \in RequisitionRow
           /\ [row EXCEPT !.ordered = @ + (-1) * k].ordered = row.ordered - k
           /\ [row EXCEPT !.ordered = @ + 1 * k].ordered = row.ordered + k
           /\ [row EXCEPT !.ordered = @ + 1 * k].appr = row.appr
           /\ [row EXCEPT !.ordered = @ + 1 * k].st = row.st
           /\ [row EXCEPT !.ordered = @ + (-1) * k].appr = row.appr
           /\ [row EXCEPT !.ordered = @ + (-1) * k].st = row.st
<1>1. row.ordered \in Int
  BY DEF RequisitionRow
<1>2. (-1) * k = -k
  OBVIOUS
<1>3. 1 * k = k
  OBVIOUS
<1>4. row.ordered + (-1) * k \in Int /\ row.ordered + (-1) * k = row.ordered - k
  BY <1>1, <1>2
<1>5. row.ordered + 1 * k \in Int /\ row.ordered + 1 * k = row.ordered + k
  BY <1>1, <1>3
<1> DEFINE less == row.ordered + (-1) * k
           more == row.ordered + 1 * k
<1> HIDE DEF less, more
<1>6. ASSUME NEW n \in Int
      PROVE  /\ [row EXCEPT !.ordered = n] \in RequisitionRow /\ [row EXCEPT !.ordered = n].ordered = n
             /\ [row EXCEPT !.ordered = n].appr = row.appr /\ [row EXCEPT !.ordered = n].st = row.st
  BY DEF RequisitionRow
<1>7. /\ [row EXCEPT !.ordered = less] \in RequisitionRow /\ [row EXCEPT !.ordered = less].ordered = less
      /\ [row EXCEPT !.ordered = more] \in RequisitionRow /\ [row EXCEPT !.ordered = more].ordered = more
      /\ [row EXCEPT !.ordered = less].appr = row.appr /\ [row EXCEPT !.ordered = less].st = row.st
      /\ [row EXCEPT !.ordered = more].appr = row.appr /\ [row EXCEPT !.ordered = more].st = row.st
  <2>1. less \in Int /\ more \in Int
    BY <1>4, <1>5 DEF less, more
  <2> QED
    BY <1>6, <2>1, Zenon
<1> QED
  BY <1>4, <1>5, <1>7, Zenon DEF less, more

\* Two sets of units that do not overlap.
LEMMA UnitsSplit ==
    ASSUME NEW A, NEW B, IsFiniteSet(A), IsFiniteSet(B), A \cap B = {}
    PROVE  Cardinality(A \cup B) = Cardinality(A) + Cardinality(B)
<1>1. Cardinality(A \cup B) = Cardinality(A) + Cardinality(B) - Cardinality({})
  BY FS_Union
<1>2. Cardinality(A) \in Nat /\ Cardinality(B) \in Nat /\ Cardinality({}) = 0
  BY FS_CardinalityType, FS_EmptySet
<1> DEFINE a == Cardinality(A)
           b == Cardinality(B)
           e == Cardinality({})
           u == Cardinality(A \cup B)
<1>3. u = a + b - e /\ a \in Nat /\ b \in Nat /\ e = 0
  BY <1>1, <1>2
<1> HIDE DEF a, b, e, u
<1>4. u = a + b
  BY <1>3
<1> QED
  BY <1>4 DEF a, b, u

\* An order gives back the units of a requisition that it no longer stands for.
LEMMA UnitsGoBack ==
    ASSUME BuyingInv, BuyingTypes', NEW o \in Orders, NEW r \in Requisitions, NEW stays,
           \A p \in Orders : p # o => UnitsFor(p, r)' = UnitsFor(p, r),
           UnitsFor(o, r) = Released(o, r, stays) \cup UnitsFor(o, r)',
           Released(o, r, stays) \cap UnitsFor(o, r)' = {},
           prq' = AddOrdered(Claims(SourcesOf(o), stays), -1)
    PROVE  RequisitionAddsUp(r)'
<1> DEFINE C == Released(o, r, stays)
           is == UnitsFor(o, r)'
           c == Cardinality(C)
           own == Cardinality(UnitsFor(o, r))
           ownNow == Cardinality(is)
           all == Cardinality(UnitsOn(r))
           allNow == Cardinality(UnitsOn(r)')
<1>1. BuyingTypes /\ RequisitionAddsUp(r) /\ prq[r] \in RequisitionRow
  BY DEF BuyingInv, BuyingTypes
<1>2. IsFiniteSet(C) /\ c \in Nat
  <2>1. line[o][Asked[r]].src \in Seq(Requisitions)
    BY <1>1, ItemAsked DEF BuyingTypes, LineRow
  <2>2. C \subseteq DOMAIN line[o][Asked[r]].src
    BY DEF Released
  <2> HIDE DEF C
  <2> QED
    BY <2>1, <2>2, PlacesFinite
<1>3. prq'[r] = [prq[r] EXCEPT !.ordered = @ + (-1) * c]
  BY <1>1, ReleasedCounted DEF AddOrdered
<1>4. /\ allNow - ownNow = all - own
      /\ allNow \in Nat /\ all \in Nat
      /\ IsFiniteSet(is)
  BY <1>1, CountChanges
<1>5. own = c + ownNow /\ ownNow \in Nat
  <2>1. UnitsFor(o, r) = C \cup is /\ C \cap is = {}
    OBVIOUS
  <2> HIDE DEF C, is
  <2> QED
    BY <1>2, <1>4, <2>1, UnitsSplit, FS_CardinalityType
<1>6. prq[r].ordered = all /\ prq[r].ordered <= prq[r].appr /\ prq[r].appr \in Nat
  BY <1>1 DEF RequisitionAddsUp, RequisitionRow
<1> HIDE DEF c, own, ownNow, all, allNow
<1>7. prq'[r].ordered = prq[r].ordered - c /\ prq'[r].appr = prq[r].appr /\ prq'[r].st = prq[r].st
  <2> DEFINE less == [prq[r] EXCEPT !.ordered = @ + (-1) * c]
  <2>1. less.ordered = prq[r].ordered - c /\ less.appr = prq[r].appr /\ less.st = prq[r].st
    <3>1. prq[r] \in RequisitionRow /\ c \in Nat
      BY <1>1, <1>2
    <3> QED
      BY <3>1, RowWritten, Zenon
  <2>2. prq'[r] = less
    BY <1>3
  <2> HIDE DEF less
  <2> QED
    BY <2>1, <2>2
<1>8. allNow = all - c
  BY <1>2, <1>4, <1>5
<1>9. prq'[r].ordered = allNow /\ prq'[r].ordered <= prq'[r].appr
  BY <1>2, <1>4, <1>6, <1>7, <1>8
<1> QED
  BY <1>1, <1>7, <1>9 DEF RequisitionAddsUp, allNow

\* What two orders' rows decide of the units they stand for.
LEMMA UnitsUnmoved ==
    ASSUME NEW p \in Orders, NEW r \in Requisitions,
           line'[p][Asked[r]].src = line[p][Asked[r]].src, StandsFor(p, Asked[r])' = StandsFor(p, Asked[r])
    PROVE  UnitsFor(p, r)' = UnitsFor(p, r)
BY DEF UnitsFor

LEMMA OrderUntouched ==
    ASSUME NEW p \in Orders, NEW r \in Requisitions, line'[p] = line[p], po'[p].st = po[p].st
    PROVE  UnitsFor(p, r)' = UnitsFor(p, r)
<1>1. StandsFor(p, Asked[r])' = StandsFor(p, Asked[r])
  BY DEF StandsFor, NetReceived
<1> QED
  BY <1>1, UnitsUnmoved

-----------------------------------------------------------------------------
(* Types, and sources that cover their lines.                              *)

LEMMA OrderedTyped ==
    ASSUME BuyingTypes, NEW srcs, \A i \in BuyItems : srcs[i] \in Seq(Requisitions), NEW stays, NEW sign \in {1, -1}
    PROVE  AddOrdered(Claims(srcs, stays), sign) \in [Requisitions -> RequisitionRow]
<1> DEFINE claims == Claims(srcs, stays)
<1>1. \A r \in Requisitions : claims[r] \in Nat
  BY ClaimsAreNumbers
<1> HIDE DEF claims
<1>2. \A r \in Requisitions : prq[r] \in RequisitionRow
  BY DEF BuyingTypes
<1>3. \A r \in Requisitions : [prq[r] EXCEPT !.ordered = @ + sign * claims[r]] \in RequisitionRow
  BY <1>1, <1>2, RowWritten, Zenon
<1> QED
  BY <1>3 DEF AddOrdered, claims

LEMMA PicksTyped ==
    ASSUME NEW picks \in Picks, NEW i \in BuyItems
    PROVE  picks[i] \in Seq(Requisitions)
<1>1. PICK n \in 0..MaxPicked : picks[i] \in [1..n -> Requisitions]
  BY DEF Picks
<1>2. n \in Nat
  BY BuyingBounds
<1> QED
  BY <1>1, <1>2

LEMMA StaysWithin ==
    ASSUME NEW src \in Seq(Requisitions), NEW give \in Int
    PROVE  /\ Stays(src, give) \in 0..Len(src)
           /\ give <= 0 => Stays(src, give) = Len(src)
           /\ give >= Len(src) => Stays(src, give) = 0
           /\ (0 <= give /\ give <= Len(src)) => Stays(src, give) = Len(src) - give
<1> DEFINE n == Len(src)
<1>1. n \in Nat
  OBVIOUS
<1>2. Stays(src, give) = CASE give <= 0 -> n [] give >= n -> 0 [] OTHER -> n - give
  BY DEF Stays
<1> HIDE DEF n
<1>3. CASE give <= 0 /\ give >= n
  BY <1>1, <1>2, <1>3 DEF n
<1>4. CASE give <= 0 /\ ~(give >= n)
  BY <1>1, <1>2, <1>4 DEF n
<1>5. CASE ~(give <= 0) /\ give >= n
  BY <1>1, <1>2, <1>5 DEF n
<1>6. CASE ~(give <= 0) /\ ~(give >= n)
  BY <1>1, <1>2, <1>6 DEF n
<1> QED
  BY <1>3, <1>4, <1>5, <1>6

\* A line cut to the first units of its sources.
LEMMA CutSource ==
    ASSUME NEW src \in Seq(Requisitions), NEW n \in 0..Len(src)
    PROVE  /\ SubSeq(src, 1, n) \in Seq(Requisitions) /\ Len(SubSeq(src, 1, n)) = n
           /\ \A k \in 1..n : SubSeq(src, 1, n)[k] = src[k]
OBVIOUS

\* The rows of every order but one are as they were, and that one has these lines.
LinesWritten(o, lines) == line' = [line EXCEPT ![o] = lines]

LEMMA LinesTyped ==
    ASSUME BuyingInv, NEW o \in Orders, NEW lines \in [BuyItems -> LineRow], LinesWritten(o, lines),
           \A i \in BuyItems : Len(lines[i].src) = lines[i].qty
    PROVE  /\ line' \in [Orders -> [BuyItems -> LineRow]]
           /\ line'[o] = lines /\ \A p \in Orders : p # o => line'[p] = line[p]
           /\ SourcesCoverLines'
<1>1. line \in [Orders -> [BuyItems -> LineRow]]
  BY DEF BuyingInv, BuyingTypes
<1>2. line'[o] = lines /\ \A p \in Orders : p # o => line'[p] = line[p]
  BY <1>1 DEF LinesWritten
<1>3. line' \in [Orders -> [BuyItems -> LineRow]]
  BY <1>1 DEF LinesWritten
<1>4. \A p \in Orders, i \in BuyItems : Len(line'[p][i].src) = line'[p][i].qty
  BY <1>2 DEF BuyingInv, SourcesCoverLines
<1> QED
  BY <1>2, <1>3, <1>4 DEF SourcesCoverLines

LEMMA OrderTyped ==
    ASSUME BuyingTypes, NEW o \in Orders, NEW st \in {"none", "Draft", "Ordered", "Partially received", "Received", "Cancelled"},
           po' = [po EXCEPT ![o].st = st]
    PROVE  /\ po' \in [Orders -> OrderRow] /\ po'[o].st = st
           /\ \A p \in Orders : p # o => po'[p] = po[p]
<1>1. po \in [Orders -> OrderRow] /\ po[o] \in OrderRow
  BY DEF BuyingTypes
<1>2. [po[o] EXCEPT !.st = st] \in OrderRow /\ [po[o] EXCEPT !.st = st].st = st
  BY <1>1 DEF OrderRow
<1> QED
  BY <1>1, <1>2

-----------------------------------------------------------------------------
(* The actions.                                                            *)

\* Releasing on one line releases nothing of the others.
LEMMA OneLineReleased ==
    ASSUME BuyingTypes, NEW o \in Orders, NEW i \in BuyItems, NEW give, NEW r \in Requisitions, Asked[r] # i
    PROVE  Released(o, r, OffOneLine(o, i, give)) = {}
<1> DEFINE src == line[o][Asked[r]].src
<1>1. src \in Seq(Requisitions) /\ Asked[r] \in BuyItems
  BY ItemAsked DEF BuyingTypes, LineRow
<1>2. OffOneLine(o, i, give)[Asked[r]] = Stays(src, 0)
  BY <1>1 DEF OffOneLine
<1> HIDE DEF src
<1>3. Stays(src, 0) = Len(src) /\ Len(src) \in Nat /\ DOMAIN src = 1..Len(src)
  BY <1>1, StaysWithin
<1> QED
  BY <1>2, <1>3 DEF Released, src

LEMMA CutKeeps ==
    ASSUME BuyingInv, NEW o \in Orders, NEW i \in BuyItems, NEW want \in 1..MaxPicked, CutLine(o, i, want)
    PROVE  BuyingInv'
<1> DEFINE src == line[o][i].src
           qty == line[o][i].qty
           stays == OffOneLine(o, i, qty - want)
           cut == [line[o][i] EXCEPT !.qty = want, !.src = SubSeq(src, 1, stays[i])]
           lines == [line[o] EXCEPT ![i] = cut]
<1>1. BuyingTypes /\ line[o] \in [BuyItems -> LineRow]
  BY DEF BuyingInv, BuyingTypes
<1>2. line[o][i] \in LineRow /\ src \in Seq(Requisitions) /\ qty \in Nat /\ Len(src) = qty
  BY <1>1 DEF LineRow, BuyingInv, SourcesCoverLines
<1>3. want \in Nat /\ 1 <= want /\ want <= qty /\ po[o].st = "Draft"
  BY BuyingBounds DEF CutLine
<1>4. stays[i] = want
  <2>1. stays[i] = Stays(src, qty - want)
    BY DEF OffOneLine
  <2> HIDE DEF src, qty
  <2>2. Stays(src, qty - want) = Len(src) - (qty - want)
    <3> DEFINE give == qty - want
    <3>1. give \in Int /\ 0 <= give /\ give <= Len(src)
      BY <1>2, <1>3
    <3> HIDE DEF give
    <3>2. Stays(src, give) = Len(src) - give
      BY <1>2, <3>1, StaysWithin, Zenon
    <3> QED
      BY <3>2 DEF give
  <2> QED
    BY <1>2, <1>3, <2>1, <2>2
<1>5. \A r \in Requisitions : Asked[r] # i => Released(o, r, stays) = {}
  BY <1>1, OneLineReleased
<1>6. /\ prq' = AddOrdered(Claims(SourcesOf(o), stays), -1)
      /\ LinesWritten(o, lines) /\ po' = po
  <2>1. line' = [line EXCEPT ![o][i].qty = want, ![o][i].src = SubSeq(line[o][i].src, 1, stays[i])]
    BY <1>1 DEF CutLine, BuyingTypes, LineRow
  <2>2. line' = [line EXCEPT ![o] = lines]
    BY <1>1, <2>1 DEF BuyingTypes
  <2> QED
    BY <2>2 DEF CutLine, LinesWritten
<1> HIDE DEF stays
<1>7. cut \in LineRow /\ cut.qty = want /\ cut.src = SubSeq(src, 1, want) /\ Len(cut.src) = want
  <2>1. SubSeq(src, 1, want) \in Seq(Requisitions) /\ Len(SubSeq(src, 1, want)) = want
    BY <1>2, <1>3, CutSource
  <2> QED
    BY <1>2, <1>3, <1>4, <2>1 DEF LineRow
<1> HIDE DEF cut
<1>8. lines \in [BuyItems -> LineRow] /\ lines[i] = cut /\ \A j \in BuyItems : j # i => lines[j] = line[o][j]
  BY <1>1, <1>7
<1>9. \A j \in BuyItems : Len(lines[j].src) = lines[j].qty
  BY <1>7, <1>8 DEF BuyingInv, SourcesCoverLines
<1> HIDE DEF lines
<1>10. /\ line' \in [Orders -> [BuyItems -> LineRow]] /\ SourcesCoverLines'
       /\ line'[o] = lines /\ \A p \in Orders : p # o => line'[p] = line[p]
  BY <1>6, <1>8, <1>9, LinesTyped
<1>11. BuyingTypes'
  <2>1. prq' \in [Requisitions -> RequisitionRow]
    BY <1>1, <1>6, SourcesTyped, OrderedTyped
  <2> QED
    BY <1>1, <1>6, <1>10, <2>1 DEF BuyingTypes
<1>12. ASSUME NEW r \in Requisitions PROVE RequisitionAddsUp(r)'
  <2>1. \A p \in Orders : p # o => UnitsFor(p, r)' = UnitsFor(p, r)
    BY <1>6, <1>10, OrderUntouched
  <2>2. /\ UnitsFor(o, r) = Released(o, r, stays) \cup UnitsFor(o, r)'
        /\ Released(o, r, stays) \cap UnitsFor(o, r)' = {}
    <3>1. /\ StandsFor(o, Asked[r]) = line[o][Asked[r]].qty
          /\ StandsFor(o, Asked[r])' = line'[o][Asked[r]].qty
      BY <1>3, <1>6 DEF StandsFor
    <3>2. CASE Asked[r] = i
      <4>1. UnitsFor(o, r) = {n \in 1..qty : src[n] = r}
        BY <1>2, <3>1, <3>2 DEF UnitsFor
      <4>2. UnitsFor(o, r)' = {n \in 1..want : src[n] = r}
        <5>1. DOMAIN cut.src = 1..want /\ \A n \in 1..want : cut.src[n] = src[n]
          BY <1>2, <1>3, <1>7, CutSource
        <5> QED
          BY <1>7, <1>8, <1>10, <3>1, <3>2, <5>1 DEF UnitsFor
      <4>3. Released(o, r, stays) = {n \in 1..qty : n > want /\ src[n] = r}
        BY <1>2, <1>4, <3>2 DEF Released
      <4> QED
        BY <1>2, <1>3, <4>1, <4>2, <4>3
    <3>3. CASE Asked[r] # i
      <4>1. Asked[r] \in BuyItems
        BY ItemAsked
      <4>2. line'[o][Asked[r]] = line[o][Asked[r]]
        BY <1>8, <1>10, <3>3, <4>1
      <4>3. UnitsFor(o, r)' = UnitsFor(o, r)
        BY <3>1, <4>2, UnitsUnmoved
      <4>4. Released(o, r, stays) = {}
        BY <1>5, <3>3
      <4> QED
        BY <4>3, <4>4
    <3> QED
      BY <3>2, <3>3
  <2> QED
    BY <1>6, <1>11, <2>1, <2>2, UnitsGoBack
<1> QED
  BY <1>10, <1>11, <1>12 DEF BuyingInv

LEMMA RemoveKeeps ==
    ASSUME BuyingInv, NEW o \in Orders, NEW i \in BuyItems, RemoveLine(o, i)
    PROVE  BuyingInv'
<1> DEFINE src == line[o][i].src
           stays == OffOneLine(o, i, line[o][i].qty)
           lines == [line[o] EXCEPT ![i] = NoLine]
<1>1. BuyingTypes /\ line[o] \in [BuyItems -> LineRow]
  BY DEF BuyingInv, BuyingTypes
<1>2. src \in Seq(Requisitions) /\ line[o][i].qty = Len(src) /\ Len(src) \in Nat /\ po[o].st = "Draft"
  BY <1>1 DEF LineRow, BuyingInv, SourcesCoverLines, RemoveLine
<1>3. stays[i] = 0
  <2>1. stays[i] = Stays(src, Len(src))
    BY <1>2 DEF OffOneLine
  <2> HIDE DEF src
  <2> QED
    BY <1>2, <2>1, StaysWithin
<1>4. /\ prq' = AddOrdered(Claims(SourcesOf(o), stays), -1)
      /\ LinesWritten(o, lines) /\ po' = po
  BY <1>1 DEF RemoveLine, LinesWritten, BuyingTypes
<1>5. \A r \in Requisitions : Asked[r] # i => Released(o, r, stays) = {}
  BY <1>1, OneLineReleased
<1> HIDE DEF stays
<1>6. NoLine \in LineRow /\ NoLine.src = <<>> /\ NoLine.qty = 0
  BY DEF NoLine, LineRow
<1>7. lines \in [BuyItems -> LineRow] /\ lines[i] = NoLine /\ \A j \in BuyItems : j # i => lines[j] = line[o][j]
  BY <1>1, <1>6
<1>8. \A j \in BuyItems : Len(lines[j].src) = lines[j].qty
  BY <1>6, <1>7 DEF BuyingInv, SourcesCoverLines
<1> HIDE DEF lines
<1>9. /\ line' \in [Orders -> [BuyItems -> LineRow]] /\ SourcesCoverLines'
      /\ line'[o] = lines /\ \A p \in Orders : p # o => line'[p] = line[p]
  BY <1>4, <1>7, <1>8, LinesTyped
<1>10. BuyingTypes'
  <2>1. prq' \in [Requisitions -> RequisitionRow]
    BY <1>1, <1>4, SourcesTyped, OrderedTyped
  <2> QED
    BY <1>1, <1>4, <1>9, <2>1 DEF BuyingTypes
<1>11. ASSUME NEW r \in Requisitions PROVE RequisitionAddsUp(r)'
  <2>1. \A p \in Orders : p # o => UnitsFor(p, r)' = UnitsFor(p, r)
    BY <1>4, <1>9, OrderUntouched
  <2>2. /\ UnitsFor(o, r) = Released(o, r, stays) \cup UnitsFor(o, r)'
        /\ Released(o, r, stays) \cap UnitsFor(o, r)' = {}
    <3>1. /\ StandsFor(o, Asked[r]) = line[o][Asked[r]].qty
          /\ StandsFor(o, Asked[r])' = line'[o][Asked[r]].qty
      BY <1>2, <1>4 DEF StandsFor
    <3>2. CASE Asked[r] = i
      <4>1. UnitsFor(o, r) = {n \in 1..Len(src) : src[n] = r}
        BY <1>2, <3>1, <3>2 DEF UnitsFor
      <4>2. UnitsFor(o, r)' = {}
        BY <1>6, <1>7, <1>9, <3>2 DEF UnitsFor
      <4>3. Released(o, r, stays) = {n \in 1..Len(src) : src[n] = r}
        BY <1>2, <1>3, <3>2 DEF Released
      <4> QED
        BY <4>1, <4>2, <4>3
    <3>3. CASE Asked[r] # i
      <4>1. line'[o][Asked[r]] = line[o][Asked[r]]
        BY <1>7, <1>9, <3>3, ItemAsked
      <4>2. UnitsFor(o, r)' = UnitsFor(o, r)
        BY <3>1, <4>1, UnitsUnmoved
      <4> QED
        BY <1>5, <3>3, <4>2
    <3> QED
      BY <3>2, <3>3
  <2> QED
    BY <1>4, <1>10, <2>1, <2>2, UnitsGoBack
<1> QED
  BY <1>9, <1>10, <1>11 DEF BuyingInv

LEMMA CancelKeeps ==
    ASSUME BuyingInv, NEW o \in Orders, CancelOrder(o)
    PROVE  BuyingInv'
<1>1. BuyingTypes /\ po[o].st \in {"Draft", "Ordered"} /\ line' = line
  BY DEF BuyingInv, CancelOrder
<1>2. po' = [po EXCEPT ![o].st = "Cancelled"] /\ prq' = AddOrdered(Claims(SourcesOf(o), NoneStay), -1)
  BY DEF CancelOrder
<1>3. po' \in [Orders -> OrderRow] /\ po'[o].st = "Cancelled" /\ \A p \in Orders : p # o => po'[p] = po[p]
  BY <1>1, <1>2, OrderTyped
<1>4. BuyingTypes'
  <2>1. prq' \in [Requisitions -> RequisitionRow]
    BY <1>1, <1>2, SourcesTyped, OrderedTyped
  <2> QED
    BY <1>1, <1>3, <2>1 DEF BuyingTypes
<1>5. ASSUME NEW r \in Requisitions PROVE RequisitionAddsUp(r)'
  <2> DEFINE src == line[o][Asked[r]].src
  <2>1. src \in Seq(Requisitions) /\ Len(src) = line[o][Asked[r]].qty /\ Asked[r] \in BuyItems
    BY <1>1, ItemAsked DEF BuyingTypes, LineRow, BuyingInv, SourcesCoverLines
  <2>2. DOMAIN src = 1..Len(src) /\ Len(src) \in Nat
    BY <2>1
  <2>3. UnitsFor(o, r) = {n \in 1..Len(src) : src[n] = r}
    <3>1. StandsFor(o, Asked[r]) = Len(src)
      BY <1>1, <2>1 DEF StandsFor
    <3> QED
      BY <2>2, <3>1 DEF UnitsFor
  <2>4. UnitsFor(o, r)' = {}
    <3>1. StandsFor(o, Asked[r])' = 0
      BY <1>3 DEF StandsFor
    <3> QED
      BY <1>1, <2>2, <3>1 DEF UnitsFor
  <2>5. Released(o, r, NoneStay) = {n \in 1..Len(src) : src[n] = r}
    BY <2>1, <2>2 DEF Released, NoneStay
  <2>6. \A p \in Orders : p # o => UnitsFor(p, r)' = UnitsFor(p, r)
    BY <1>1, <1>3, OrderUntouched
  <2> HIDE DEF src
  <2> QED
    BY <1>2, <1>4, <2>3, <2>4, <2>5, <2>6, UnitsGoBack
<1>6. SourcesCoverLines'
  BY <1>1 DEF BuyingInv, SourcesCoverLines
<1> QED
  BY <1>4, <1>5, <1>6 DEF BuyingInv

LEMMA CloseShortKeeps ==
    ASSUME BuyingInv, NEW o \in Orders, CloseShort(o)
    PROVE  BuyingInv'
<1> DEFINE stays == [i \in BuyItems |-> Stays(line[o][i].src, line[o][i].qty - NetReceived(line[o][i]))]
<1>1. BuyingTypes /\ po[o].st = "Partially received" /\ line' = line
  BY DEF BuyingInv, CloseShort
<1>2. po' = [po EXCEPT ![o].st = "Received"] /\ prq' = AddOrdered(Claims(SourcesOf(o), stays), -1)
  BY DEF CloseShort, ShortfallClaims
<1>3. po' \in [Orders -> OrderRow] /\ po'[o].st = "Received" /\ \A p \in Orders : p # o => po'[p] = po[p]
  BY <1>1, <1>2, OrderTyped
<1>4. BuyingTypes'
  <2>1. prq' \in [Requisitions -> RequisitionRow]
    BY <1>1, <1>2, SourcesTyped, OrderedTyped
  <2> QED
    BY <1>1, <1>3, <2>1 DEF BuyingTypes
<1>5. ASSUME NEW r \in Requisitions PROVE RequisitionAddsUp(r)'
  <2> DEFINE src == line[o][Asked[r]].src
             net == NetReceived(line[o][Asked[r]])
             n == Len(src)
             kept == IF net < n THEN net ELSE n
  <2>1. /\ src \in Seq(Requisitions) /\ n = line[o][Asked[r]].qty /\ Asked[r] \in BuyItems
        /\ net \in Int
    <3>1. Asked[r] \in BuyItems /\ n = line[o][Asked[r]].qty
      BY ItemAsked DEF BuyingInv, SourcesCoverLines
    <3>2. line[o][Asked[r]] \in LineRow
      BY <1>1, <3>1 DEF BuyingTypes
    <3>3. src \in Seq(Requisitions) /\ line[o][Asked[r]].recv \in Int /\ line[o][Asked[r]].rejected \in Int
      BY <3>2 DEF LineRow
    <3> QED
      BY <3>1, <3>3 DEF NetReceived
  <2>2. DOMAIN src = 1..n /\ n \in Nat
    BY <2>1
  <2>3. UnitsFor(o, r) = {k \in 1..n : src[k] = r}
    <3>1. StandsFor(o, Asked[r]) = n
      BY <1>1, <2>1 DEF StandsFor
    <3> QED
      BY <2>2, <3>1 DEF UnitsFor
  <2>4. UnitsFor(o, r)' = {k \in 1..n : k <= kept /\ src[k] = r}
    <3>1. StandsFor(o, Asked[r])' = kept
      BY <1>1, <1>3, <2>1 DEF StandsFor, NetReceived
    <3> QED
      BY <1>1, <2>2, <3>1 DEF UnitsFor
  <2>5. Released(o, r, stays) = {k \in 1..n : k > stays[Asked[r]] /\ src[k] = r}
    BY <2>2 DEF Released
  <2>6. \A k \in 1..n : k <= kept <=> ~(k > stays[Asked[r]])
    <3>1. stays[Asked[r]] = Stays(src, n - net)
      BY <2>1
    <3> HIDE DEF stays, src, net
    <3>2. /\ n - net <= 0 => Stays(src, n - net) = n
          /\ n - net >= n => Stays(src, n - net) = 0
          /\ (0 <= n - net /\ n - net <= n) => Stays(src, n - net) = n - (n - net)
      <4>1. n - net \in Int /\ src \in Seq(Requisitions)
        BY <2>1, <2>2
      <4> QED
        BY <4>1, StaysWithin
    <3> HIDE DEF n
    <3> QED
      BY <2>1, <2>2, <3>1, <3>2
  <2>7. \A p \in Orders : p # o => UnitsFor(p, r)' = UnitsFor(p, r)
    BY <1>1, <1>3, OrderUntouched
  <2> HIDE DEF src, n, kept, stays
  <2>8. /\ UnitsFor(o, r) = Released(o, r, stays) \cup UnitsFor(o, r)'
        /\ Released(o, r, stays) \cap UnitsFor(o, r)' = {}
    BY <2>3, <2>4, <2>5, <2>6
  <2> QED
    BY <1>2, <1>4, <2>7, <2>8, UnitsGoBack
<1>6. SourcesCoverLines'
  BY <1>1 DEF BuyingInv, SourcesCoverLines
<1> QED
  BY <1>4, <1>5, <1>6 DEF BuyingInv

LEMMA LineDrafted ==
    ASSUME NEW src \in Seq(Requisitions)
    PROVE  LET drafted == [NoLine EXCEPT !.qty = Len(src), !.src = src]
           IN  drafted \in LineRow /\ drafted.qty = Len(src) /\ drafted.src = src
<1> DEFINE n == Len(src)
           drafted == [NoLine EXCEPT !.qty = n, !.src = src]
<1>1. n \in Nat
  OBVIOUS
<1> HIDE DEF n
<1> DEFINE numbered == [NoLine EXCEPT !.qty = n]
<1>2. NoLine \in LineRow
  BY DEF NoLine, LineRow
<1>3. numbered \in LineRow /\ numbered.qty = n
  BY <1>1, <1>2 DEF LineRow
<1>4. drafted = [numbered EXCEPT !.src = src]
  OBVIOUS
<1> HIDE DEF numbered, drafted
<1>5. drafted \in LineRow /\ drafted.qty = n /\ drafted.src = src
  BY <1>3, <1>4 DEF LineRow
<1> QED
  BY <1>5 DEF n, drafted

LEMMA CreateKeeps ==
    ASSUME BuyingInv, NEW o \in Orders, NEW v \in Vendors, NEW picks \in Picks, CreateOrder(o, v, picks)
    PROVE  BuyingInv'
<1> DEFINE claims == Claims(picks, NoneStay)
           drafted(i) == [NoLine EXCEPT !.qty = Len(picks[i]), !.src = picks[i]]
           lines == [i \in BuyItems |-> drafted(i)]
<1>1. BuyingTypes /\ po[o].st = "none" /\ PicksFit(claims) /\ LinesWritten(o, lines)
  BY DEF BuyingInv, CreateOrder, LinesWritten
<1>2. po' = [po EXCEPT ![o] = [st |-> "Draft", vendor |-> v]] /\ prq' = AddOrdered(claims, 1)
  BY DEF CreateOrder
<1>3. po' \in [Orders -> OrderRow] /\ po'[o].st = "Draft" /\ \A p \in Orders : p # o => po'[p] = po[p]
  <2>1. [st |-> "Draft", vendor |-> v] \in OrderRow
    BY DEF OrderRow
  <2> QED
    BY <1>1, <1>2, <2>1 DEF BuyingTypes
<1>4. ASSUME NEW i \in BuyItems
      PROVE  drafted(i) \in LineRow /\ drafted(i).qty = Len(picks[i]) /\ drafted(i).src = picks[i]
  <2>1. picks[i] \in Seq(Requisitions)
    BY PicksTyped
  <2> QED
    BY <2>1, LineDrafted
<1> HIDE DEF drafted
<1>5. lines \in [BuyItems -> LineRow] /\ \A i \in BuyItems : Len(lines[i].src) = lines[i].qty
  BY <1>4
<1>6. \A i \in BuyItems : lines[i].src = picks[i] /\ lines[i].qty = Len(picks[i])
  BY <1>4
<1> HIDE DEF lines
<1>7. /\ line' \in [Orders -> [BuyItems -> LineRow]] /\ SourcesCoverLines'
      /\ line'[o] = lines /\ \A p \in Orders : p # o => line'[p] = line[p]
  BY <1>1, <1>5, LinesTyped
<1>8. BuyingTypes'
  <2>1. prq' \in [Requisitions -> RequisitionRow]
    BY <1>1, <1>2, PicksTyped, OrderedTyped
  <2> QED
    BY <1>3, <1>7, <2>1 DEF BuyingTypes
<1>9. ASSUME NEW r \in Requisitions PROVE RequisitionAddsUp(r)'
  <2> DEFINE k == claims[r]
             src == picks[Asked[r]]
             own == Cardinality(UnitsFor(o, r))
             ownNow == Cardinality(UnitsFor(o, r)')
             all == Cardinality(UnitsOn(r))
             allNow == Cardinality(UnitsOn(r)')
  <2>1. RequisitionAddsUp(r) /\ prq[r] \in RequisitionRow
    BY DEF BuyingInv, BuyingTypes
  <2>2. src \in Seq(Requisitions) /\ Asked[r] \in BuyItems
    BY PicksTyped, ItemAsked
  <2>14. k \in Nat
    <3>1. \A i \in BuyItems : picks[i] \in Seq(Requisitions)
      BY PicksTyped
    <3> QED
      BY <3>1, ClaimsAreNumbers
  <2>3. UnitsFor(o, r)' = {n \in DOMAIN src : src[n] = r}
    <3>1. StandsFor(o, Asked[r])' = Len(src) /\ line'[o][Asked[r]].src = src
      BY <1>3, <1>6, <1>7, <2>2 DEF StandsFor
    <3>2. DOMAIN src = 1..Len(src) /\ Len(src) \in Nat
      BY <2>2
    <3> HIDE DEF src
    <3> QED
      BY <3>1, <3>2 DEF UnitsFor
  <2>4. k = ownNow
    <3>1. k = Cardinality({n \in DOMAIN src : n > 0 /\ src[n] = r})
      BY <2>2 DEF Claims, NoneStay
    <3>2. {n \in DOMAIN src : n > 0 /\ src[n] = r} = {n \in DOMAIN src : src[n] = r}
      <4>1. DOMAIN src = 1..Len(src) /\ Len(src) \in Nat
        BY <2>2
      <4> HIDE DEF src
      <4> QED
        BY <4>1
    <3> QED
      BY <2>3, <3>1, <3>2
  <2>5. own = 0
    <3>1. StandsFor(o, Asked[r]) = 0
      BY <1>1 DEF StandsFor
    <3>2. line[o][Asked[r]].src \in Seq(Requisitions)
      BY <1>1, <2>2 DEF BuyingTypes, LineRow
    <3>3. UnitsFor(o, r) = {}
      BY <3>1, <3>2 DEF UnitsFor
    <3> QED
      BY <3>3, FS_EmptySet
  <2>6. \A p \in Orders : p # o => UnitsFor(p, r)' = UnitsFor(p, r)
    BY <1>3, <1>7, OrderUntouched
  <2>7. allNow - ownNow = all - own /\ allNow \in Nat /\ all \in Nat
    BY <1>1, <1>8, <2>6, CountChanges
  <2>8. prq[r].ordered = all /\ prq[r].ordered <= prq[r].appr /\ prq[r].appr \in Nat /\ prq[r].ordered \in Int
    BY <2>1 DEF RequisitionAddsUp, RequisitionRow
  <2>9. prq'[r] = [prq[r] EXCEPT !.ordered = @ + 1 * k]
    BY <1>2 DEF AddOrdered
  <2>10. k > 0 => k <= PendingOn(r)
    BY <1>1 DEF PicksFit
  <2> HIDE DEF k, own, ownNow, all, allNow, claims
  <2>11. prq'[r].ordered = prq[r].ordered + k /\ prq'[r].appr = prq[r].appr /\ prq'[r].st = prq[r].st
    BY <2>1, <2>9, <2>14, RowWritten, Zenon
  <2>12. prq'[r].ordered = allNow
    BY <2>14, <2>4, <2>5, <2>7, <2>8, <2>11
  <2>13. prq'[r].ordered <= prq'[r].appr
    <3>1. CASE k = 0
      BY <2>8, <2>11, <2>14, <3>1
    <3>2. CASE k > 0
      <4> DEFINE pending == PendingOn(r)
                 left == prq[r].appr - prq[r].ordered
      <4>1. pending = left \/ pending = 0
        BY DEF PendingOn
      <4> HIDE DEF pending
      <4>2. k <= pending
        BY <2>10, <3>2 DEF pending
      <4> QED
        BY <2>8, <2>11, <2>14, <3>2, <4>1, <4>2
    <3> QED
      BY <2>14, <3>1, <3>2
  <2> QED
    BY <2>1, <2>11, <2>12, <2>13 DEF RequisitionAddsUp, allNow
<1> QED
  BY <1>7, <1>8, <1>9 DEF BuyingInv

LEMMA ReceiveKeeps ==
    ASSUME BuyingInv, NEW o \in Orders, NEW came \in [BuyItems -> Nat], NEW bad \in [BuyItems -> Nat],
           Receive(o, came, bad)
    PROVE  BuyingInv'
<1> DEFINE booked(i) == [line[o][i] EXCEPT !.recv = @ + came[i], !.rejected = @ + bad[i]]
           lines == [i \in BuyItems |-> booked(i)]
           st == ReceiptStatus([i \in OnOrder(o) |-> lines[i]])
<1>1. BuyingTypes /\ po[o].st \in {"Ordered", "Partially received"} /\ prq' = prq
  BY DEF BuyingInv, Receive
<1>2. LinesWritten(o, lines) /\ po' = [po EXCEPT ![o].st = st]
  BY DEF Receive, LinesWritten
<1>3. ASSUME NEW i \in BuyItems
      PROVE  /\ booked(i) \in LineRow /\ booked(i).qty = line[o][i].qty /\ booked(i).src = line[o][i].src
             /\ line[o][i].qty \in Nat /\ line[o][i].src \in Seq(Requisitions) /\ Len(line[o][i].src) = line[o][i].qty
  <2>1. line[o][i] \in LineRow /\ came[i] \in Nat /\ bad[i] \in Nat
    BY <1>1 DEF BuyingTypes
  <2>2. line[o][i].recv + came[i] \in Int /\ line[o][i].rejected + bad[i] \in Int
    BY <2>1 DEF LineRow
  <2> QED
    BY <2>1, <2>2 DEF LineRow, BuyingInv, SourcesCoverLines
<1> HIDE DEF booked
<1>4. lines \in [BuyItems -> LineRow] /\ \A i \in BuyItems : Len(lines[i].src) = lines[i].qty
  BY <1>3
<1>5. \A i \in BuyItems : lines[i].src = line[o][i].src /\ lines[i].qty = line[o][i].qty
  BY <1>3
<1>6. /\ st \in {"Received", "Partially received"}
      /\ st = "Received" => \A i \in OnOrder(o) : NetReceived(lines[i]) >= lines[i].qty
  BY DEF ReceiptStatus
<1> HIDE DEF lines, st
<1>7. /\ line' \in [Orders -> [BuyItems -> LineRow]] /\ SourcesCoverLines'
      /\ line'[o] = lines /\ \A p \in Orders : p # o => line'[p] = line[p]
  BY <1>2, <1>4, LinesTyped
<1>8. po' \in [Orders -> OrderRow] /\ po'[o].st = st /\ \A p \in Orders : p # o => po'[p] = po[p]
  BY <1>1, <1>2, <1>6, OrderTyped
<1>9. BuyingTypes'
  BY <1>1, <1>7, <1>8 DEF BuyingTypes
<1>10. ASSUME NEW r \in Requisitions PROVE UnitsFor(o, r)' = UnitsFor(o, r)
  <2> DEFINE i == Asked[r]
  <2>1. i \in BuyItems /\ line'[o][i] = lines[i]
    BY <1>7, ItemAsked
  <2>2. StandsFor(o, i) = line[o][i].qty
    BY <1>1 DEF StandsFor
  <2>3. CASE st = "Partially received"
    <3>1. StandsFor(o, i)' = lines[i].qty
      BY <1>8, <2>1, <2>3 DEF StandsFor
    <3> QED
      BY <1>5, <2>1, <2>2, <3>1, UnitsUnmoved
  <2>4. CASE st = "Received" /\ i \in OnOrder(o)
    <3>1. NetReceived(lines[i]) >= lines[i].qty /\ lines[i].qty \in Nat /\ NetReceived(lines[i]) \in Int
      BY <1>4, <1>6, <2>1, <2>4 DEF LineRow, NetReceived
    <3>2. StandsFor(o, i)' = IF NetReceived(lines[i]) < lines[i].qty THEN NetReceived(lines[i]) ELSE lines[i].qty
      BY <1>8, <2>1, <2>4 DEF StandsFor, NetReceived
    <3>3. StandsFor(o, i)' = lines[i].qty
      BY <3>1, <3>2
    <3> QED
      BY <1>5, <2>1, <2>2, <3>3, UnitsUnmoved
  <2>5. CASE i \notin OnOrder(o)
    <3>1. line[o][i].qty = 0
      BY <1>3, <2>1, <2>5 DEF OnOrder
    <3>2. line[o][i].src = <<>> /\ line'[o][i].src = <<>>
      BY <1>3, <1>5, <2>1, <3>1
    <3> QED
      BY <3>2 DEF UnitsFor
  <2> QED
    BY <1>6, <2>3, <2>4, <2>5
<1>11. ASSUME NEW r \in Requisitions PROVE RequisitionAddsUp(r)'
  <2>1. \A p \in Orders : UnitsFor(p, r)' = UnitsFor(p, r)
    <3> TAKE p \in Orders
    <3>1. CASE p = o
      BY <1>10, <3>1
    <3>2. CASE p # o
      BY <1>7, <1>8, <3>2, OrderUntouched
    <3> QED
      BY <3>1, <3>2
  <2> QED
    BY <1>1, <2>1, NothingClaimed
<1> QED
  BY <1>7, <1>9, <1>11 DEF BuyingInv

LEMMA NothingFits == \A a \in Int, b \in Nat : a <= 0 => a <= b
OBVIOUS

\* A requisition is written or answered: nothing of it is on an order yet.
LEMMA RequisitionKeeps ==
    ASSUME BuyingInv, NEW r \in Requisitions, prq[r].st \in {"none", "Sent"}, NEW row \in RequisitionRow,
           row.ordered = prq[r].ordered, row.st \notin {"Approved", "Partially approved"} => row.appr = 0,
           prq' = [prq EXCEPT ![r] = row], po' = po, line' = line
    PROVE  BuyingInv'
<1>1. BuyingTypes
  BY DEF BuyingInv
<1>2. prq'[r] = row /\ (\A q \in Requisitions : q # r => prq'[q] = prq[q]) /\ prq' \in [Requisitions -> RequisitionRow]
  BY <1>1 DEF BuyingTypes
<1>3. BuyingTypes' /\ SourcesCoverLines'
  <2>1. SourcesCoverLines'
    BY DEF BuyingInv, SourcesCoverLines
  <2> QED
    BY <1>1, <1>2, <2>1 DEF BuyingTypes
<1>4. \A q \in Requisitions, p \in Orders : UnitsFor(p, q)' = UnitsFor(p, q)
  BY OrderUntouched
<1>5. ASSUME NEW q \in Requisitions PROVE RequisitionAddsUp(q)'
  <2>1. CASE q # r
    BY <1>2, <1>4, <2>1, NothingClaimed
  <2>2. CASE q = r
    <3>1. UnitsOn(r)' = UnitsOn(r)
      BY <1>4 DEF UnitsOn
    <3>2. prq[r].ordered = Cardinality(UnitsOn(r))
      BY DEF BuyingInv, RequisitionAddsUp
    <3>3. row.appr \in Nat /\ row.ordered \in Int
      BY DEF RequisitionRow
    <3>5. row.ordered <= 0
      BY DEF BuyingInv, RequisitionAddsUp
    <3> DEFINE ordered == row.ordered
               appr == row.appr
    <3>6. ordered <= 0 /\ ordered \in Int /\ appr \in Nat
      BY <3>3, <3>5
    <3> HIDE DEF ordered, appr
    <3>7. ordered <= appr
      BY <3>6, NothingFits, Zenon
    <3>4. row.ordered <= row.appr
      BY <3>7 DEF ordered, appr
    <3> QED
      BY <1>2, <2>2, <3>1, <3>2, <3>4 DEF RequisitionAddsUp
  <2> QED
    BY <2>1, <2>2
<1> QED
  BY <1>3, <1>5 DEF BuyingInv

LEMMA RequisitionsKeep == ASSUME BuyingInv, RequisitionStep PROVE BuyingInv'
<1> USE BuyingBounds
<1>1. PICK r \in Requisitions :
         \/ \E q \in 1..MaxBuyQty : SendRequisition(r, q) \/ AddToProcurementList(r, q)
         \/ \E q \in 0..MaxBuyQty : ApproveRequisition(r, q)
         \/ DeclineRequisition(r)
  BY DEF RequisitionStep
<1>2. prq \in [Requisitions -> RequisitionRow] /\ prq[r] \in RequisitionRow
  BY DEF BuyingInv, BuyingTypes
<1>3. prq[r].st \in {"none", "Sent"} => prq[r].appr = 0 /\ prq[r].ordered = 0
  <2> DEFINE ordered == prq[r].ordered
             appr == prq[r].appr
  <2>1. ordered >= 0 /\ ordered <= appr /\ ordered \in Int
    BY <1>2, InvariantAddsUp DEF BuyingAddsUp, ClaimsFitApprovals, RequisitionRow
  <2>2. prq[r].st \in {"none", "Sent"} => appr = 0
    BY DEF BuyingInv, RequisitionAddsUp
  <2> HIDE DEF ordered, appr
  <2>3. appr = 0 => ordered = 0
    BY <2>1
  <2> QED
    BY <2>2, <2>3 DEF ordered, appr
<1>4. ASSUME NEW q \in 1..MaxBuyQty, SendRequisition(r, q) PROVE BuyingInv'
  <2> DEFINE row == [st |-> "Sent", qty |-> q, appr |-> 0, ordered |-> 0]
  <2>1. row \in RequisitionRow
    BY DEF RequisitionRow
  <2>2. prq[r].st \in {"none", "Sent"} /\ row.ordered = prq[r].ordered /\ row.appr = 0
    BY <1>3, <1>4 DEF SendRequisition
  <2>3. prq' = [prq EXCEPT ![r] = row] /\ po' = po /\ line' = line
    BY <1>4 DEF SendRequisition
  <2> HIDE DEF row
  <2> QED
    BY <2>1, <2>2, <2>3, RequisitionKeeps
<1>5. ASSUME NEW q \in 1..MaxBuyQty, AddToProcurementList(r, q) PROVE BuyingInv'
  <2> DEFINE row == [st |-> "Approved", qty |-> q, appr |-> q, ordered |-> 0]
  <2>1. row \in RequisitionRow
    BY DEF RequisitionRow
  <2>2. prq[r].st \in {"none", "Sent"} /\ row.ordered = prq[r].ordered /\ row.st = "Approved"
    BY <1>3, <1>5 DEF AddToProcurementList
  <2>3. prq' = [prq EXCEPT ![r] = row] /\ po' = po /\ line' = line
    BY <1>5 DEF AddToProcurementList
  <2> HIDE DEF row
  <2> QED
    BY <2>1, <2>2, <2>3, RequisitionKeeps
<1>6. ASSUME NEW st \in {"Declined", "Partially approved", "Approved"}, NEW appr \in Nat,
             st = "Declined" => appr = 0, prq[r].st = "Sent", po' = po, line' = line,
             prq' = [prq EXCEPT ![r].st = st, ![r].appr = appr]
      PROVE  BuyingInv'
  <2> DEFINE answered == [prq[r] EXCEPT !.st = st]
             row == [answered EXCEPT !.appr = appr]
  <2>3. prq' = [prq EXCEPT ![r] = row]
    BY <1>2, <1>6
  <2>4. answered \in RequisitionRow /\ answered.st = st /\ answered.ordered = prq[r].ordered
    BY <1>2 DEF RequisitionRow
  <2> HIDE DEF answered
  <2>1. row \in RequisitionRow /\ row.ordered = prq[r].ordered /\ row.st = st /\ row.appr = appr
    BY <2>4 DEF RequisitionRow
  <2>2. row.st \notin {"Approved", "Partially approved"} => row.appr = 0
    BY <1>6, <2>1
  <2> HIDE DEF row
  <2> QED
    BY <1>6, <2>1, <2>2, <2>3, RequisitionKeeps
<1>7. ASSUME NEW q \in 0..MaxBuyQty, ApproveRequisition(r, q) PROVE BuyingInv'
  <2> DEFINE appr == IF q < prq[r].qty THEN q ELSE prq[r].qty
             st == PrqStatus(prq[r].qty, appr)
  <2>1. appr \in Nat
    <3>1. prq[r].qty \in Nat
      BY <1>2 DEF RequisitionRow
    <3>2. q \in Nat
      OBVIOUS
    <3> QED
      BY <3>1, <3>2
  <2>2. st \in {"Declined", "Partially approved", "Approved"} /\ (st = "Declined" => appr = 0)
    BY DEF PrqStatus
  <2>3. /\ prq[r].st = "Sent" /\ po' = po /\ line' = line
        /\ prq' = [prq EXCEPT ![r].st = st, ![r].appr = appr]
    BY <1>7 DEF ApproveRequisition
  <2> HIDE DEF appr, st
  <2> QED
    BY <1>6, <2>1, <2>2, <2>3
<1>8. ASSUME DeclineRequisition(r) PROVE BuyingInv'
  BY <1>6, <1>8 DEF DeclineRequisition
<1> QED
  BY <1>1, <1>4, <1>5, <1>7, <1>8

\* Orders moved to another vendor or sent, and vendors switched on and off, claim nothing.
LEMMA NothingMoved ==
    ASSUME BuyingInv, prq' = prq, line' = line, po' \in [Orders -> OrderRow],
           \A p \in Orders : po'[p].st = po[p].st \/ (po[p].st = "Draft" /\ po'[p].st = "Ordered")
    PROVE  BuyingInv'
<1>1. BuyingTypes' /\ SourcesCoverLines'
  <2>1. SourcesCoverLines'
    BY DEF BuyingInv, SourcesCoverLines
  <2> QED
    BY <2>1 DEF BuyingInv, BuyingTypes
<1>2. ASSUME NEW p \in Orders, NEW r \in Requisitions PROVE UnitsFor(p, r)' = UnitsFor(p, r)
  <2>1. StandsFor(p, Asked[r])' = StandsFor(p, Asked[r])
    <3>1. CASE po'[p].st = po[p].st
      BY <3>1 DEF StandsFor, NetReceived
    <3>2. CASE po[p].st = "Draft" /\ po'[p].st = "Ordered"
      BY <3>2 DEF StandsFor
    <3> QED
      BY <3>1, <3>2
  <2> QED
    BY <2>1, UnitsUnmoved
<1>3. \A r \in Requisitions : RequisitionAddsUp(r)'
  BY <1>2, NothingClaimed
<1> QED
  BY <1>1, <1>3 DEF BuyingInv

LEMMA OrdersKeep == ASSUME BuyingInv, OrderStep PROVE BuyingInv'
<1>1. PICK o \in Orders :
        \/ \E v \in Vendors : MoveOrder(o, v) \/ \E picks \in Picks : CreateOrder(o, v, picks)
        \/ \E i \in BuyItems : RemoveLine(o, i) \/ \E q \in 1..MaxPicked : CutLine(o, i, q)
        \/ SendOrder(o) \/ CancelOrder(o) \/ CloseShort(o)
        \/ \E came, bad \in [BuyItems -> 0..Tolerated(MaxPicked)] : Receive(o, came, bad)
  BY DEF OrderStep
<1>2. BuyingTypes /\ po[o] \in OrderRow
  BY DEF BuyingInv, BuyingTypes
<1>3. ASSUME NEW v \in Vendors, MoveOrder(o, v) PROVE BuyingInv'
  <2>1. [po[o] EXCEPT !.vendor = v] \in OrderRow /\ [po[o] EXCEPT !.vendor = v].st = po[o].st
    BY <1>2 DEF OrderRow
  <2>2. po' = [po EXCEPT ![o] = [po[o] EXCEPT !.vendor = v]] /\ prq' = prq /\ line' = line
    BY <1>2, <1>3 DEF MoveOrder, BuyingTypes
  <2>3. po' \in [Orders -> OrderRow] /\ \A p \in Orders : po'[p].st = po[p].st
    BY <1>2, <2>1, <2>2 DEF BuyingTypes
  <2> QED
    BY <2>2, <2>3, NothingMoved
<1>4. ASSUME SendOrder(o) PROVE BuyingInv'
  <2>1. po[o].st = "Draft" /\ prq' = prq /\ line' = line /\ po' = [po EXCEPT ![o].st = "Ordered"]
    BY <1>4 DEF SendOrder
  <2>2. po' \in [Orders -> OrderRow] /\ po'[o].st = "Ordered" /\ \A p \in Orders : p # o => po'[p] = po[p]
    BY <1>2, <2>1, OrderTyped
  <2>3. \A p \in Orders : po'[p].st = po[p].st \/ (po[p].st = "Draft" /\ po'[p].st = "Ordered")
    BY <2>1, <2>2
  <2> QED
    BY <2>1, <2>2, <2>3, NothingMoved
<1>5. ASSUME NEW came \in [BuyItems -> 0..Tolerated(MaxPicked)], NEW bad \in [BuyItems -> 0..Tolerated(MaxPicked)],
             Receive(o, came, bad)
      PROVE  BuyingInv'
  <2>1. came \in [BuyItems -> Nat] /\ bad \in [BuyItems -> Nat]
    OBVIOUS
  <2> QED
    BY <1>5, <2>1, ReceiveKeeps
<1> QED
  BY <1>1, <1>3, <1>4, <1>5, CreateKeeps, RemoveKeeps, CutKeeps, CancelKeeps, CloseShortKeeps

LEMMA BuyingStarts == BuyingInit => BuyingInv
<1> SUFFICES ASSUME BuyingInit PROVE BuyingInv
  OBVIOUS
<1>1. BuyingTypes
  <2>1. NoLine \in LineRow
    BY DEF NoLine, LineRow
  <2> QED
    BY <2>1 DEF BuyingInit, BuyingTypes, RequisitionRow, OrderRow
<1>2. SourcesCoverLines
  BY DEF BuyingInit, SourcesCoverLines, NoLine
<1>3. ASSUME NEW r \in Requisitions PROVE RequisitionAddsUp(r)
  <2>1. prq[r].st = "none" /\ prq[r].appr = 0 /\ prq[r].ordered = 0
    BY DEF BuyingInit
  <2>2. UnitsOn(r) = {}
    <3>1. \A o \in Orders : UnitsFor(o, r) = {}
      BY ItemAsked DEF BuyingInit, UnitsFor, NoLine
    <3> QED
      BY <3>1 DEF UnitsOn
  <2> QED
    BY <2>1, <2>2, FS_EmptySet DEF RequisitionAddsUp
<1> QED
  BY <1>1, <1>2, <1>3 DEF BuyingInv

\* Lines, orders and claims agree, whoever drafts, cuts, receives or cancels what, over any number of
\* requisitions, orders and items: a requisition's demand is on the list, on an open order or was
\* accepted for it, and no claim is given back twice.
THEOREM DemandAddsUp == BuyingSpec => []BuyingAddsUp
<1>1. BuyingInv /\ [BuyingNext]_buyingVars => BuyingInv'
  <2> SUFFICES ASSUME BuyingInv, [BuyingNext]_buyingVars PROVE BuyingInv'
    OBVIOUS
  <2>1. CASE RequisitionStep
    BY <2>1, RequisitionsKeep
  <2>2. CASE OrderStep
    BY <2>2, OrdersKeep
  <2>3. ASSUME prq' = prq, line' = line, po' = po PROVE BuyingInv'
    BY <2>3, NothingMoved DEF BuyingInv, BuyingTypes
  <2>4. CASE \E v \in Vendors, on \in BOOLEAN : SetVendorActive(v, on)
    BY <2>3, <2>4 DEF SetVendorActive
  <2>5. CASE UNCHANGED buyingVars
    BY <2>3, <2>5 DEF buyingVars
  <2> QED
    BY <2>1, <2>2, <2>4, <2>5 DEF BuyingNext
<1> QED
  BY <1>1, BuyingStarts, InvariantAddsUp, PTL DEF BuyingSpec
=============================================================================
