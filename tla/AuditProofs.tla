----------------------------- MODULE AuditProofs ------------------------------
(***************************************************************************)
(* Proofs about the audit trail and its readers.                           *)
(*                                                                         *)
(* AuditTrail, for every number of writes, drainers and faults and every   *)
(* size of batch: a committed row is in exactly one of the outbox, the log *)
(* and the dead letters, and the rows tell what the writes did.            *)
(*                                                                         *)
(* AuditList, for every number of events and of reads and every size of    *)
(* page: the list on screen reads down through its own filter whatever     *)
(* order its calls land in, and a finished export misses nothing.          *)
(***************************************************************************)
EXTENDS AuditTrail, AuditList, FiniteSetTheorems, SequenceTheorems, TLAPS

Outcomes == {"refused", "error", "done"}
Rows == [id : Nat, of : AuditedWrites \cup {"none"}, outcome : Outcomes \cup {"none"}, bad : BOOLEAN]
RequestRows == [at : {"new", "tx", "over"} \cup Outcomes,
                did : {"nothing", "recorded", "unrecorded"}, row : Rows]
Passes == [at : {"idle", "due", "taken"}, rows : SUBSET Rows, again : BOOLEAN]

TrailTypes ==
    /\ auditReq \in [AuditedWrites -> RequestRows]
    /\ outbox \in SUBSET Rows /\ auditLog \in SUBSET Rows /\ deadLetters \in SUBSET Rows
    /\ stored \in SUBSET Rows
    /\ rowSeq \in Nat
    /\ drainPass \in [Drainers -> Passes]

\* What a request has done by where it is, and the row its transaction carries.
RequestKnows(w) ==
    /\ auditReq[w].at \in {"new", "tx", "refused"} => auditReq[w].did = "nothing"
    /\ auditReq[w].at = "done" => auditReq[w].did = "unrecorded"
    /\ auditReq[w].at = "tx" => /\ auditReq[w].row.of = w
                                /\ auditReq[w].row.outcome = "done"
                                /\ auditReq[w].row.id \in 1..rowSeq

\* The outbox's identities are drawn once each.
RowsNumbered == \A r \in stored : r.id <= rowSeq

\* A pass works on rows that are still in the outbox, and on no other pass's.
PassesApart ==
    /\ \A d \in Drainers : drainPass[d].rows \subseteq outbox
    /\ \A d, e \in Drainers : d # e => drainPass[d].rows \cap drainPass[e].rows = {}

Done(w) == {r \in stored : r.of = w /\ r.outcome = "done"}

TrailInv ==
    /\ TrailTypes
    /\ \A w \in AuditedWrites : RequestKnows(w)
    /\ RowsNumbered
    /\ PassesApart
    /\ TrailIsWhole

\* An event is a row, and no row before it has its number.
LEMMA NewRow ==
    ASSUME TrailInv, NEW w \in AuditedWrites, NEW outcome \in Outcomes, NEW bad \in BOOLEAN
    PROVE  /\ OutboxRow(rowSeq + 1, w, outcome, bad) \in Rows
           /\ OutboxRow(rowSeq + 1, w, outcome, bad) \notin stored
           /\ OutboxRow(rowSeq + 1, w, outcome, bad).id = rowSeq + 1
           /\ OutboxRow(rowSeq + 1, w, outcome, bad).of = w
           /\ OutboxRow(rowSeq + 1, w, outcome, bad).outcome = outcome
<1>1. rowSeq \in Nat /\ \A r \in stored : r.id <= rowSeq
  BY DEF TrailInv, TrailTypes, RowsNumbered
<1> QED
  BY <1>1 DEF OutboxRow, Rows

\* A row that reaches the outbox lies nowhere else, and no pass holds it.
LEMMA RowArrives ==
    ASSUME TrailInv, NEW row \in Rows, row \notin stored,
           outbox' = outbox \cup {row}, stored' = stored \cup {row},
           UNCHANGED <<auditLog, deadLetters, drainPass>>
    PROVE  EachRowInOnePlace' /\ PassesApart'
<1>1. EachRowInOnePlace /\ PassesApart
  BY DEF TrailInv, TrailIsWhole
<1>2. row \notin auditLog /\ row \notin deadLetters
  BY <1>1 DEF EachRowInOnePlace
<1>3. EachRowInOnePlace'
  BY <1>1, <1>2 DEF EachRowInOnePlace
<1> QED
  BY <1>1, <1>3 DEF PassesApart

\* A write's rows are those it had, when nothing of it is stored.
LEMMA TrailKept ==
    ASSUME TrailTellsTheWrites, NEW w \in AuditedWrites,
           {r \in stored' : r.of = w /\ r.outcome = "done"} = Done(w),
           auditReq'[w].did = auditReq[w].did \/ auditReq'[w].did = "unrecorded"
    PROVE  /\ auditReq'[w].did = "recorded" => Cardinality(Done(w)') = 1
           /\ auditReq'[w].did = "nothing" => Done(w)' = {}
<1>1. /\ auditReq[w].did = "recorded" => Cardinality(Done(w)) = 1
      /\ auditReq[w].did = "nothing" => Done(w) = {}
  BY DEF TrailTellsTheWrites, Done
<1>2. Done(w)' = Done(w)
  BY DEF Done
<1> QED
  BY <1>1, <1>2

\* The request's own steps that store nothing.
RequestMoves(w) ==
    /\ \A v \in AuditedWrites : v # w => auditReq'[v] = auditReq[v]
    /\ auditReq' \in [AuditedWrites -> RequestRows]
    /\ auditReq'[w].did = auditReq[w].did \/ auditReq'[w].did = "unrecorded"
    /\ rowSeq' \in Nat /\ rowSeq <= rowSeq'
    /\ RequestKnows(w)'
    /\ UNCHANGED <<outbox, stored, auditLog, deadLetters, drainPass>>

LEMMA RequestAlone ==
    ASSUME TrailInv, NEW w \in AuditedWrites, RequestMoves(w)
    PROVE  TrailInv'
<1>0. /\ \A v \in AuditedWrites : v # w => auditReq'[v] = auditReq[v]
      /\ auditReq' \in [AuditedWrites -> RequestRows]
      /\ auditReq'[w].did = auditReq[w].did \/ auditReq'[w].did = "unrecorded"
      /\ rowSeq \in Nat /\ rowSeq' \in Nat /\ rowSeq <= rowSeq'
      /\ UNCHANGED <<outbox, stored, auditLog, deadLetters, drainPass>>
  BY DEF RequestMoves, TrailInv, TrailTypes
<1>1. TrailTypes'
  BY <1>0 DEF TrailInv, TrailTypes
<1>2. ASSUME NEW v \in AuditedWrites PROVE RequestKnows(v)'
  <2>1. CASE v = w
    BY <2>1 DEF RequestMoves
  <2>2. CASE v # w
    <3>1. RequestKnows(v) /\ auditReq'[v] = auditReq[v]
      BY <1>0, <2>2 DEF TrailInv
    <3> QED
      BY <1>0, <3>1 DEF RequestKnows
  <2> QED
    BY <2>1, <2>2
<1>3. RowsNumbered'
  <2> SUFFICES ASSUME NEW r \in stored PROVE r.id <= rowSeq'
    BY <1>0 DEF RowsNumbered
  <2>1. r.id \in Nat /\ r.id <= rowSeq
    BY DEF TrailInv, TrailTypes, RowsNumbered, Rows
  <2> QED
    BY <1>0, <2>1
<1>4. PassesApart'
  BY <1>0 DEF TrailInv, PassesApart
<1>5. TrailIsWhole'
  <2>1. EachRowInOnePlace'
    BY <1>0 DEF TrailInv, TrailIsWhole, EachRowInOnePlace
  <2>2. ASSUME NEW v \in AuditedWrites
        PROVE  /\ auditReq'[v].did = "recorded" => Cardinality(Done(v)') = 1
               /\ auditReq'[v].did = "nothing" => Done(v)' = {}
    <3>1. /\ {r \in stored' : r.of = v /\ r.outcome = "done"} = Done(v)
          /\ auditReq'[v].did = auditReq[v].did \/ auditReq'[v].did = "unrecorded"
      BY <1>0 DEF Done
    <3>2. TrailTellsTheWrites
      BY DEF TrailInv, TrailIsWhole
    <3> QED
      BY <3>1, <3>2, TrailKept
  <2> QED
    BY <2>1, <2>2 DEF TrailIsWhole, TrailTellsTheWrites, Done
<1> QED
  BY <1>1, <1>2, <1>3, <1>4, <1>5 DEF TrailInv

\* A row of w's is committed: with its write, or once the reply has gone.
RowOf(w, row) ==
    /\ row \in Rows /\ row \notin stored /\ row.of = w
    /\ row.id <= rowSeq' /\ rowSeq' \in Nat /\ rowSeq <= rowSeq'
    /\ outbox' = outbox \cup {row} /\ stored' = stored \cup {row}
    /\ UNCHANGED <<auditLog, deadLetters, drainPass>>
    /\ \A v \in AuditedWrites : v # w => auditReq'[v] = auditReq[v]
    /\ auditReq' \in [AuditedWrites -> RequestRows]
    /\ RequestKnows(w)'
    /\ \/ auditReq'[w].did = "recorded" /\ Done(w) = {} /\ row.outcome = "done"
       \/ auditReq'[w].did = auditReq[w].did /\ row.outcome # "done"
       \/ auditReq'[w].did = "unrecorded"

LEMMA RowStored ==
    ASSUME TrailInv, NEW w \in AuditedWrites, NEW row, RowOf(w, row)
    PROVE  TrailInv'
<1>0. /\ row \in Rows /\ row \notin stored /\ row.of = w
      /\ row.id <= rowSeq' /\ rowSeq \in Nat /\ rowSeq' \in Nat /\ rowSeq <= rowSeq'
      /\ outbox' = outbox \cup {row} /\ stored' = stored \cup {row}
      /\ UNCHANGED <<auditLog, deadLetters, drainPass>>
      /\ \A v \in AuditedWrites : v # w => auditReq'[v] = auditReq[v]
      /\ auditReq' \in [AuditedWrites -> RequestRows]
      /\ \/ auditReq'[w].did = "recorded" /\ Done(w) = {} /\ row.outcome = "done"
         \/ auditReq'[w].did = auditReq[w].did /\ row.outcome # "done"
         \/ auditReq'[w].did = "unrecorded"
  BY DEF RowOf, TrailInv, TrailTypes
<1>1. TrailTypes'
  BY <1>0 DEF TrailInv, TrailTypes
<1>2. ASSUME NEW v \in AuditedWrites PROVE RequestKnows(v)'
  <2>1. CASE v = w
    BY <2>1 DEF RowOf
  <2>2. CASE v # w
    <3>1. RequestKnows(v) /\ auditReq'[v] = auditReq[v]
      BY <1>0, <2>2 DEF TrailInv
    <3> QED
      BY <1>0, <3>1 DEF RequestKnows
  <2> QED
    BY <2>1, <2>2
<1>3. RowsNumbered'
  <2> SUFFICES ASSUME NEW r \in stored PROVE r.id <= rowSeq'
    BY <1>0 DEF RowsNumbered
  <2>1. r.id \in Nat /\ r.id <= rowSeq
    BY DEF TrailInv, TrailTypes, RowsNumbered, Rows
  <2> QED
    BY <1>0, <2>1
<1>4. EachRowInOnePlace' /\ PassesApart'
  BY <1>0, RowArrives
<1>5. ASSUME NEW v \in AuditedWrites
      PROVE  /\ auditReq'[v].did = "recorded" => Cardinality(Done(v)') = 1
             /\ auditReq'[v].did = "nothing" => Done(v)' = {}
  <2>1. TrailTellsTheWrites
    BY DEF TrailInv, TrailIsWhole
  <2>2. CASE v # w
    <3>1. {r \in stored' : r.of = v /\ r.outcome = "done"} = Done(v) /\ auditReq'[v] = auditReq[v]
      BY <1>0, <2>2 DEF Done
    <3> QED
      BY <2>1, <3>1, TrailKept
  <2>3. CASE v = w /\ auditReq'[w].did = "recorded" /\ Done(w) = {} /\ row.outcome = "done"
    <3>1. Done(w)' = {row}
      BY <1>0, <2>3 DEF Done
    <3>2. Cardinality(Done(w)') = 1
      BY <3>1, FS_Singleton
    <3> QED
      BY <2>3, <3>2
  <2>4. CASE v = w /\ auditReq'[w].did = auditReq[w].did /\ row.outcome # "done"
    <3>1. {r \in stored' : r.of = w /\ r.outcome = "done"} = Done(w)
      BY <1>0, <2>4 DEF Done
    <3> QED
      BY <2>1, <2>4, <3>1, TrailKept
  <2>5. CASE v = w /\ auditReq'[w].did = "unrecorded"
    BY <2>5
  <2> QED
    BY <1>0, <2>2, <2>3, <2>4, <2>5
<1>6. TrailIsWhole'
  BY <1>4, <1>5 DEF TrailIsWhole, TrailTellsTheWrites, Done
<1> QED
  BY <1>1, <1>2, <1>3, <1>4, <1>6 DEF TrailInv

\* The steps of a request.
LEMMA WriteStep ==
    ASSUME TrailInv, NEW w \in AuditedWrites,
           \/ \E how \in {"refused", "error"} : AnswerRefused(w, how)
           \/ \E bad \in BOOLEAN : RecordAudit(w, bad) \/ StoreAfterReply(w, bad)
           \/ \E acked \in BOOLEAN : CommitWrite(w, acked)
           \/ RollbackWrite(w) \/ CommitUnrecorded(w) \/ NothingStored(w)
    PROVE  TrailInv'
<1>0. /\ auditReq \in [AuditedWrites -> RequestRows] /\ auditReq[w] \in RequestRows
      /\ rowSeq \in Nat /\ RequestKnows(w) /\ TrailTellsTheWrites
  BY DEF TrailInv, TrailTypes, TrailIsWhole
<1>1. ASSUME NEW at \in RequestRows, auditReq' = [auditReq EXCEPT ![w] = at],
             at.did = auditReq[w].did \/ at.did = "unrecorded",
             rowSeq' \in Nat, rowSeq <= rowSeq', RequestKnows(w)',
             UNCHANGED <<outbox, stored, auditLog, deadLetters, drainPass>>
      PROVE  TrailInv'
  <2>1. RequestMoves(w)
    BY <1>0, <1>1 DEF RequestMoves
  <2> QED
    BY <2>1, RequestAlone
<1>2. ASSUME NEW at \in {"refused", "error", "over"}, auditReq' = [auditReq EXCEPT ![w].at = at],
             at = "refused" => auditReq[w].at = "new",
             UNCHANGED <<outbox, stored, rowSeq, auditLog, deadLetters, drainPass>>
      PROVE  TrailInv'
  <2>1. /\ auditReq' \in [AuditedWrites -> RequestRows]
        /\ \A v \in AuditedWrites : v # w => auditReq'[v] = auditReq[v]
        /\ auditReq'[w].at = at /\ auditReq'[w].did = auditReq[w].did
    BY <1>0, <1>2 DEF RequestRows, Outcomes
  <2>2. RequestKnows(w)'
    BY <1>0, <1>2, <2>1 DEF RequestKnows
  <2>3. RequestMoves(w)
    BY <1>0, <1>2, <2>1, <2>2 DEF RequestMoves
  <2> QED
    BY <2>3, RequestAlone
<1>3. ASSUME NEW how \in {"refused", "error"}, AnswerRefused(w, how) PROVE TrailInv'
  BY <1>2, <1>3 DEF AnswerRefused, drainSide
<1>4. CASE RollbackWrite(w) \/ NothingStored(w)
  BY <1>2, <1>4 DEF RollbackWrite, NothingStored, drainSide
<1>5. CASE CommitUnrecorded(w)
  <2>1. /\ auditReq' \in [AuditedWrites -> RequestRows]
        /\ \A v \in AuditedWrites : v # w => auditReq'[v] = auditReq[v]
        /\ auditReq'[w].at = "done" /\ auditReq'[w].did = "unrecorded"
        /\ UNCHANGED <<outbox, stored, rowSeq, auditLog, deadLetters, drainPass>>
    BY <1>0, <1>5 DEF CommitUnrecorded, RequestRows, Outcomes, drainSide
  <2>2. RequestKnows(w)'
    BY <2>1 DEF RequestKnows
  <2>3. RequestMoves(w)
    BY <1>0, <2>1, <2>2 DEF RequestMoves
  <2> QED
    BY <2>3, RequestAlone
<1>6. ASSUME NEW bad \in BOOLEAN, RecordAudit(w, bad) PROVE TrailInv'
  <2> DEFINE row == OutboxRow(rowSeq + 1, w, "done", bad)
  <2>1. row \in Rows /\ row.id = rowSeq + 1 /\ row.of = w /\ row.outcome = "done"
    BY NewRow DEF Outcomes
  <2>2. /\ auditReq[w].at = "new" /\ rowSeq' = rowSeq + 1
        /\ auditReq' = [auditReq EXCEPT ![w] = [auditReq[w] EXCEPT !.at = "tx", !.row = row]]
        /\ UNCHANGED <<outbox, stored, auditLog, deadLetters, drainPass>>
    BY <1>0, <1>6 DEF RecordAudit, drainSide
  <2> HIDE DEF row
  <2>3. /\ auditReq' \in [AuditedWrites -> RequestRows]
        /\ \A v \in AuditedWrites : v # w => auditReq'[v] = auditReq[v]
        /\ auditReq'[w].at = "tx" /\ auditReq'[w].did = auditReq[w].did /\ auditReq'[w].row = row
    BY <1>0, <2>1, <2>2 DEF RequestRows
  <2>4. RequestKnows(w)'
    BY <1>0, <2>1, <2>2, <2>3 DEF RequestKnows
  <2>5. RequestMoves(w)
    BY <1>0, <2>2, <2>3, <2>4 DEF RequestMoves
  <2> QED
    BY <2>5, RequestAlone
<1>7. ASSUME NEW acked \in BOOLEAN, CommitWrite(w, acked) PROVE TrailInv'
  <2>1. /\ auditReq[w].at = "tx" /\ rowSeq' = rowSeq
        /\ outbox' = outbox \cup {auditReq[w].row} /\ stored' = stored \cup {auditReq[w].row}
        /\ UNCHANGED <<auditLog, deadLetters, drainPass>>
    BY <1>7 DEF CommitWrite, drainSide
  <2>2. PICK at \in {"over", "error"} :
            auditReq' = [auditReq EXCEPT ![w] = [auditReq[w] EXCEPT !.at = at, !.did = "recorded"]]
    BY <1>0, <1>7 DEF CommitWrite
  <2>3. /\ auditReq' \in [AuditedWrites -> RequestRows]
        /\ \A v \in AuditedWrites : v # w => auditReq'[v] = auditReq[v]
        /\ auditReq'[w].at = at /\ auditReq'[w].did = "recorded"
    BY <1>0, <2>2 DEF RequestRows, Outcomes
  <2>4. /\ auditReq[w].row \in Rows /\ auditReq[w].row.of = w
        /\ auditReq[w].row.outcome = "done" /\ auditReq[w].row.id \in 1..rowSeq
        /\ auditReq[w].did = "nothing"
    BY <1>0, <2>1 DEF RequestKnows, RequestRows
  <2>5. Done(w) = {}
    BY <1>0, <2>4 DEF TrailTellsTheWrites, Done
  <2>6. auditReq[w].row \notin stored
    BY <2>4, <2>5 DEF Done
  <2>7. RequestKnows(w)'
    BY <2>3 DEF RequestKnows
  <2>8. RowOf(w, auditReq[w].row)
    BY <1>0, <2>1, <2>3, <2>4, <2>5, <2>6, <2>7 DEF RowOf
  <2> QED
    BY <2>8, RowStored
<1>8. ASSUME NEW bad \in BOOLEAN, StoreAfterReply(w, bad) PROVE TrailInv'
  <2> DEFINE row == OutboxRow(rowSeq + 1, w, auditReq[w].at, bad)
  <2>1. auditReq[w].at \in Outcomes
    BY <1>8 DEF StoreAfterReply, Outcomes
  <2>2. row \in Rows /\ row \notin stored /\ row.id = rowSeq + 1 /\ row.of = w
        /\ row.outcome = auditReq[w].at
    BY <2>1, NewRow
  <2>3. /\ rowSeq' = rowSeq + 1 /\ outbox' = outbox \cup {row} /\ stored' = stored \cup {row}
        /\ auditReq' = [auditReq EXCEPT ![w].at = "over"]
        /\ UNCHANGED <<auditLog, deadLetters, drainPass>>
    BY <1>8 DEF StoreAfterReply, drainSide
  <2> HIDE DEF row
  <2>4. /\ auditReq' \in [AuditedWrites -> RequestRows]
        /\ \A v \in AuditedWrites : v # w => auditReq'[v] = auditReq[v]
        /\ auditReq'[w].at = "over" /\ auditReq'[w].did = auditReq[w].did
    BY <1>0, <2>3 DEF RequestRows
  <2>5. RequestKnows(w)'
    BY <2>4 DEF RequestKnows
  <2>6. row.outcome # "done" \/ auditReq'[w].did = "unrecorded"
    BY <1>0, <2>2, <2>4 DEF RequestKnows
  <2>7. RowOf(w, row)
    BY <1>0, <2>2, <2>3, <2>4, <2>5, <2>6 DEF RowOf
  <2> QED
    BY <2>7, RowStored
<1> QED
  BY <1>3, <1>4, <1>5, <1>6, <1>7, <1>8

\* A drainer's step that leaves the requests alone and the rows apart.
LEMMA DrainAlone ==
    ASSUME TrailInv, UNCHANGED requestSide, EachRowInOnePlace', PassesApart',
           outbox' \in SUBSET Rows, auditLog' \in SUBSET Rows, deadLetters' \in SUBSET Rows,
           drainPass' \in [Drainers -> Passes]
    PROVE  TrailInv'
<1>1. TrailTypes'
  BY DEF TrailInv, TrailTypes, requestSide
<1>2. \A w \in AuditedWrites : RequestKnows(w)'
  BY DEF TrailInv, RequestKnows, requestSide
<1>3. RowsNumbered'
  BY DEF TrailInv, RowsNumbered, requestSide
<1>4. TrailTellsTheWrites'
  BY DEF TrailInv, TrailIsWhole, TrailTellsTheWrites, requestSide
<1> QED
  BY <1>1, <1>2, <1>3, <1>4 DEF TrailInv, TrailIsWhole

\* A pass begins, ends or fails, and no row moves.
LEMMA PassMoves ==
    ASSUME TrailInv, NEW d \in Drainers, NEW pass \in Passes,
           drainPass' = [drainPass EXCEPT ![d] = pass],
           pass.rows \subseteq drainPass[d].rows \/ pass.rows \subseteq Unheld(d),
           UNCHANGED <<requestSide, outbox, auditLog, deadLetters>>
    PROVE  TrailInv'
<1>0. /\ drainPass \in [Drainers -> Passes] /\ PassesApart /\ EachRowInOnePlace
      /\ outbox \in SUBSET Rows /\ auditLog \in SUBSET Rows /\ deadLetters \in SUBSET Rows
  BY DEF TrailInv, TrailTypes, TrailIsWhole
<1>1. EachRowInOnePlace'
  BY <1>0 DEF EachRowInOnePlace, requestSide
<1>2. \A e \in Drainers : drainPass'[e] = IF e = d THEN pass ELSE drainPass[e]
  BY <1>0
<1>3. pass.rows \subseteq outbox
  BY <1>0 DEF PassesApart, Unheld
<1>4. \A e \in Drainers : e # d => pass.rows \cap drainPass[e].rows = {}
  BY <1>0 DEF PassesApart, Unheld
<1>5. PassesApart'
  <2>1. \A e \in Drainers : drainPass'[e].rows \subseteq outbox
    BY <1>0, <1>2, <1>3 DEF PassesApart
  <2>2. ASSUME NEW e \in Drainers, NEW f \in Drainers, e # f
        PROVE  drainPass'[e].rows \cap drainPass'[f].rows = {}
    <3>1. CASE e = d
      BY <1>2, <1>4, <2>2, <3>1
    <3>2. CASE f = d
      BY <1>2, <1>4, <2>2, <3>2
    <3>3. CASE e # d /\ f # d
      BY <1>0, <1>2, <2>2, <3>3 DEF PassesApart
    <3> QED
      BY <3>1, <3>2, <3>3
  <2> QED
    BY <2>1, <2>2 DEF PassesApart
<1> QED
  BY <1>0, <1>1, <1>5, DrainAlone

\* A pass commits: each of its rows leaves the outbox for one of the two other places.
LEMMA PassLands ==
    ASSUME TrailInv, NEW d \in Drainers, PassCommits(d)
    PROVE  TrailInv'
<1> DEFINE rows == drainPass[d].rows
<1>0. /\ drainPass \in [Drainers -> Passes] /\ PassesApart /\ EachRowInOnePlace
      /\ outbox \in SUBSET Rows /\ auditLog \in SUBSET Rows /\ deadLetters \in SUBSET Rows
  BY DEF TrailInv, TrailTypes, TrailIsWhole
<1>1. /\ outbox' = outbox \ rows
      /\ auditLog' = auditLog \cup Storable(rows)
      /\ deadLetters' = deadLetters \cup SetAside(rows)
      /\ UNCHANGED requestSide
  BY DEF PassCommits
<1>2. rows \subseteq outbox
  BY <1>0 DEF PassesApart
<1>3. Storable(rows) \subseteq rows /\ SetAside(rows) = rows \ Storable(rows)
  BY DEF Storable, SetAside
<1>4. EachRowInOnePlace'
  <2> HIDE DEF rows
  <2> QED
    BY <1>0, <1>1, <1>2, <1>3 DEF EachRowInOnePlace, requestSide
<1>5. AfterPass(d) \in Passes /\ AfterPass(d).rows = {}
  BY DEF AfterPass, NoPass, Passes
<1>6. /\ drainPass' \in [Drainers -> Passes]
      /\ \A e \in Drainers : drainPass'[e].rows = IF e = d THEN {} ELSE drainPass[e].rows
  BY <1>0, <1>5 DEF PassCommits
<1>7. PassesApart'
  <2>1. ASSUME NEW e \in Drainers PROVE drainPass'[e].rows \subseteq outbox'
    <3>1. e # d => drainPass[e].rows \subseteq outbox /\ drainPass[e].rows \cap rows = {}
      BY <1>0 DEF PassesApart
    <3> HIDE DEF rows
    <3> QED
      BY <1>1, <1>6, <3>1
  <2>2. ASSUME NEW e \in Drainers, NEW f \in Drainers, e # f
        PROVE  drainPass'[e].rows \cap drainPass'[f].rows = {}
    BY <1>0, <1>6, <2>2 DEF PassesApart
  <2> QED
    BY <2>1, <2>2 DEF PassesApart
<1>8. outbox' \in SUBSET Rows /\ auditLog' \in SUBSET Rows /\ deadLetters' \in SUBSET Rows
  BY <1>0, <1>1, <1>2, <1>3
<1> QED
  BY <1>1, <1>4, <1>6, <1>7, <1>8, DrainAlone

LEMMA DrainStep ==
    ASSUME TrailInv, NEW d \in Drainers,
           KickDrainer(d) \/ TakeRows(d) \/ PassCommits(d) \/ PassFails(d) \/ DrainerRestarts(d)
    PROVE  TrailInv'
<1>0. drainPass \in [Drainers -> Passes] /\ drainPass[d] \in Passes /\ outbox \in SUBSET Rows
  BY DEF TrailInv, TrailTypes
<1>1. CASE KickDrainer(d)
  <2> DEFINE pass == IF drainPass[d].at = "idle" THEN [NoPass EXCEPT !.at = "due"]
                     ELSE [drainPass[d] EXCEPT !.again = TRUE]
  <2>1. drainPass' = [drainPass EXCEPT ![d] = pass] /\ UNCHANGED <<requestSide, outbox, auditLog, deadLetters>>
    BY <1>1 DEF KickDrainer, Kicked
  <2>2. pass \in Passes /\ pass.rows \subseteq drainPass[d].rows
    BY <1>0 DEF NoPass, Passes
  <2> HIDE DEF pass
  <2> QED
    BY <2>1, <2>2, PassMoves
<1>2. CASE TakeRows(d)
  <2> DEFINE pass == [at |-> "taken", rows |-> OldestRows(Unheld(d)), again |-> FALSE]
  <2>1. drainPass' = [drainPass EXCEPT ![d] = pass] /\ UNCHANGED <<requestSide, outbox, auditLog, deadLetters>>
    BY <1>2 DEF TakeRows
  <2>2. OldestRows(Unheld(d)) \subseteq Unheld(d) /\ Unheld(d) \subseteq Rows
    BY <1>0 DEF OldestRows, Unheld
  <2>3. pass \in Passes /\ pass.rows \subseteq Unheld(d)
    BY <2>2 DEF Passes
  <2> HIDE DEF pass
  <2> QED
    BY <2>1, <2>3, PassMoves
<1>3. ASSUME NEW pass \in Passes, pass.rows = {}, drainPass' = [drainPass EXCEPT ![d] = pass],
             UNCHANGED <<requestSide, outbox, auditLog, deadLetters>>
      PROVE  TrailInv'
  BY <1>3, PassMoves
<1>4. CASE PassFails(d)
  <2>1. NoPass \in Passes /\ NoPass.rows = {}
    BY DEF NoPass, Passes
  <2> QED
    BY <1>3, <1>4, <2>1 DEF PassFails
<1>5. CASE DrainerRestarts(d)
  <2>1. [NoPass EXCEPT !.at = "due"] \in Passes /\ [NoPass EXCEPT !.at = "due"].rows = {}
    BY DEF NoPass, Passes
  <2> QED
    BY <1>3, <1>5, <2>1 DEF DrainerRestarts
<1> QED
  BY <1>1, <1>2, <1>4, <1>5, PassLands

LEMMA AuditInitTrail == AuditInit => TrailInv
<1> SUFFICES ASSUME AuditInit PROVE TrailInv
  OBVIOUS
<1>1. TrailTypes
  BY DEF AuditInit, TrailTypes, RequestRows, Rows, NoRowYet, OutboxRow, Passes, NoPass, Outcomes
<1>2. \A w \in AuditedWrites : auditReq[w].at = "new" /\ auditReq[w].did = "nothing"
  BY DEF AuditInit
<1>3. \A d \in Drainers : drainPass[d].rows = {}
  BY DEF AuditInit, NoPass
<1>4. TrailIsWhole
  BY <1>2 DEF AuditInit, TrailIsWhole, EachRowInOnePlace, TrailTellsTheWrites
<1> QED
  BY <1>1, <1>2, <1>3, <1>4 DEF AuditInit, TrailInv, RequestKnows, RowsNumbered, PassesApart

LEMMA TrailStep == TrailInv /\ [AuditNext]_auditVars => TrailInv'
<1> SUFFICES ASSUME TrailInv, [AuditNext]_auditVars PROVE TrailInv'
  OBVIOUS
<1>1. CASE UNCHANGED auditVars
  <2>1. UNCHANGED requestSide /\ UNCHANGED <<outbox, auditLog, deadLetters, drainPass>>
    BY <1>1 DEF auditVars, requestSide
  <2>2. EachRowInOnePlace' /\ PassesApart'
    BY <2>1 DEF TrailInv, TrailIsWhole, EachRowInOnePlace, PassesApart, requestSide
  <2> QED
    BY <2>1, <2>2, DrainAlone DEF TrailInv, TrailTypes
<1> QED
  BY <1>1, WriteStep, DrainStep DEF AuditNext

\* For any number of audited writes and of replicas of the audit service, any batch size and any
\* number of failed passes, deaths and lost acknowledgements: a committed row is in exactly one of
\* the outbox, the log and the dead letters, and the rows tell what each write did.
THEOREM TrailWhole == AuditSpec => []TrailIsWhole
<1>1. TrailInv => TrailIsWhole
  BY DEF TrailInv
<1> QED
  BY <1>1, AuditInitTrail, TrailStep, PTL DEF AuditSpec

-----------------------------------------------------------------------------
(* The readers.  A page is the top of what the log holds below a cursor:   *)
(* its k-th row is the event that k of them reach.                         *)

Reach(S, e) == {x \in S : x >= e}

\* The lower the number, the more reach it.
LEMMA LowerReachesMore ==
    ASSUME NEW S, S \subseteq Nat, IsFiniteSet(S), NEW d \in S, NEW e \in S, e < d
    PROVE  /\ Cardinality(Reach(S, d)) \in Nat /\ Cardinality(Reach(S, e)) \in Nat
           /\ Cardinality(Reach(S, d)) < Cardinality(Reach(S, e))
<1> DEFINE D == Reach(S, d)
           E == Reach(S, e)
<1>1. E \in SUBSET S /\ D \in SUBSET E /\ e \in E /\ e \notin D
  <2>1. d \in Nat /\ e \in Nat /\ ~(e >= d) /\ e >= e
    OBVIOUS
  <2>2. ASSUME NEW x \in S, x >= d PROVE x >= e
    BY <2>1, <2>2
  <2> QED
    BY <2>1, <2>2 DEF Reach
<1> HIDE DEF D, E
<1>2. IsFiniteSet(E)
  BY <1>1, FS_Subset
<1>3. Cardinality(D) <= Cardinality(E) /\ Cardinality(E) # Cardinality(D) /\ IsFiniteSet(D)
  BY <1>1, <1>2, FS_Subset
<1>4. Cardinality(D) \in Nat /\ Cardinality(E) \in Nat
  BY <1>2, <1>3, FS_CardinalityType
<1>5. Cardinality(D) < Cardinality(E)
  BY <1>3, <1>4
<1> QED
  BY <1>4, <1>5 DEF D, E

\* Of a finite set of numbers there is a highest, a second, and so on to the last.
LEMMA EveryRankIsTaken ==
    ASSUME NEW S, S \subseteq Nat, IsFiniteSet(S), NEW k \in 1..Cardinality(S)
    PROVE  \E e \in S : Cardinality(Reach(S, e)) = k
<1> DEFINE n == Cardinality(S)
           rank == [e \in S |-> Cardinality(Reach(S, e))]
<1>1. n \in Nat
  BY FS_CardinalityType
<1>2. ASSUME NEW e \in S PROVE rank[e] \in 1..n
  <2> DEFINE E == Reach(S, e)
  <2>1. E \in SUBSET S /\ e \in E
    <3>1. e \in Nat /\ e >= e
      OBVIOUS
    <3> QED
      BY <3>1 DEF Reach
  <2> HIDE DEF E
  <2>2. IsFiniteSet(E) /\ Cardinality(E) <= n
    BY <2>1, FS_Subset
  <2>3. Cardinality(E) \in Nat
    BY <2>2, FS_CardinalityType
  <2>4. Cardinality(E) # 0
    <3>1. E # {}
      BY <2>1
    <3> QED
      BY <2>2, <3>1, FS_EmptySet
  <2> QED
    BY <1>1, <2>2, <2>3, <2>4 DEF E
<1>3. ASSUME NEW d \in S, NEW e \in S, d # e PROVE rank[d] # rank[e]
  <2>1. d \in Nat /\ e \in Nat
    OBVIOUS
  <2>2. CASE d < e
    <3>1. /\ Cardinality(Reach(S, e)) \in Nat /\ Cardinality(Reach(S, d)) \in Nat
          /\ Cardinality(Reach(S, e)) < Cardinality(Reach(S, d))
      BY <2>2, LowerReachesMore
    <3>2. rank[d] = Cardinality(Reach(S, d)) /\ rank[e] = Cardinality(Reach(S, e))
      OBVIOUS
    <3> HIDE DEF rank
    <3> QED
      BY <3>1, <3>2
  <2>3. CASE e < d
    <3>1. /\ Cardinality(Reach(S, d)) \in Nat /\ Cardinality(Reach(S, e)) \in Nat
          /\ Cardinality(Reach(S, d)) < Cardinality(Reach(S, e))
      BY <2>3, LowerReachesMore
    <3>2. rank[d] = Cardinality(Reach(S, d)) /\ rank[e] = Cardinality(Reach(S, e))
      OBVIOUS
    <3> HIDE DEF rank
    <3> QED
      BY <3>1, <3>2
  <2> QED
    BY <1>3, <2>1, <2>2, <2>3
<1>4. rank = [e \in S |-> rank[e]]
  OBVIOUS
<1> HIDE DEF rank
<1>5. rank \in Injection(S, 1..n)
  BY <1>2, <1>3, <1>4 DEF Injection, IsInjective
<1>6. IsFiniteSet(1..n) /\ Cardinality(1..n) = n
  <2>1. Cardinality(1..n) = IF 1 > n THEN 0 ELSE n - 1 + 1
    BY <1>1, FS_Interval
  <2> QED
    BY <1>1, <2>1, FS_Interval
<1>7. rank \in Surjection(S, 1..n)
  <2> DEFINE N == 1..n
  <2>1. rank \in Injection(S, N) /\ IsFiniteSet(N) /\ Cardinality(S) = Cardinality(N)
    BY <1>5, <1>6
  <2> HIDE DEF N
  <2>2. rank \in Surjection(S, N)
    BY <2>1, FS_Injection
  <2> QED
    BY <2>2 DEF N
<1>8. PICK e \in S : rank[e] = k
  BY <1>7 DEF Surjection
<1> QED
  BY <1>8 DEF rank

LastOf(rows) == rows[Len(rows)]

\* A whole page of the filter's events is not below x.
Full(f, x) == Cardinality({e \in events \cap Matching(f) : e >= x}) >= PageLimit

\* Rows that read down through a filter.
Down(rows, f) ==
    /\ \A i \in 1..Len(rows) : rows[i] \in Matching(f)
    /\ \A i \in 1..(Len(rows) - 1) : rows[i] > rows[i + 1]

LEMMA IdsAreFinite ==
    ASSUME NEW f, NEW S \in SUBSET EventIds
    PROVE  /\ IsFiniteSet(S) /\ Cardinality(S) \in Nat /\ S \subseteq Nat
           /\ Matching(f) \subseteq EventIds
<1>1. EventIds = 1..MaxEvents /\ MaxEvents \in Nat
  BY ListBounds DEF EventIds
<1>2. IsFiniteSet(EventIds)
  BY <1>1, FS_Interval
<1>3. IsFiniteSet(S)
  BY <1>2, FS_Subset
<1>4. Cardinality(S) \in Nat
  BY <1>3, FS_CardinalityType
<1> QED
  BY <1>1, <1>3, <1>4 DEF Matching, EventIds

\* The k-th row of a page is reached by k of what was found; every event found that is not on
\* the page is below its last row, and then the page is full.
LEMMA PageIsTheTop ==
    ASSUME events \subseteq EventIds, NEW f, NEW before
    PROVE  LET rows == PageRows(f, before)
               found == Found(f, before)
           IN  /\ rows \in Seq(EventIds)
               /\ \A i \in 1..Len(rows) : rows[i] \in found
               /\ \A i \in 1..(Len(rows) - 1) : rows[i] > rows[i + 1]
               /\ rows # <<>> => Cardinality(Reach(found, LastOf(rows))) = Len(rows)
               /\ \A e \in found : \/ \E i \in 1..Len(rows) : rows[i] = e
                                   \/ rows # <<>> /\ e < LastOf(rows)
               /\ rows # <<>> /\ (\E e \in found : e < LastOf(rows)) => Len(rows) = PageLimit
               /\ Len(rows) < PageLimit => Len(rows) = Cardinality(found)
               /\ Len(rows) <= PageLimit
<1> DEFINE rows == PageRows(f, before)
           found == Found(f, before)
           n == Cardinality(found)
           top == IF n < PageLimit THEN n ELSE PageLimit
           R(e) == Cardinality(Reach(found, e))
<1>1. found \in SUBSET EventIds
  BY DEF Found
<1>2. IsFiniteSet(found) /\ n \in Nat /\ found \subseteq Nat
  BY <1>1, IdsAreFinite
<1>3. PageLimit \in Nat /\ PageLimit # 0 /\ top \in Nat /\ top <= n /\ top <= PageLimit
  BY <1>2, ListBounds
<1>4. rows = [k \in 1..top |-> Ranked(found, k)]
  BY DEF PageRows
<1> HIDE DEF found, rows, n
<1>5. ASSUME NEW k \in 1..top
      PROVE  rows[k] \in found /\ R(rows[k]) = k
  <2>1. k \in 1..n
    BY <1>2, <1>3
  <2>2. \E e \in found : Cardinality(Reach(found, e)) = k
    BY <1>2, <2>1, EveryRankIsTaken DEF n
  <2>3. Ranked(found, k) \in found /\ Cardinality(Reach(found, Ranked(found, k))) = k
    BY <2>2 DEF Ranked, Reach
  <2> QED
    BY <1>4, <2>3
<1> HIDE DEF top
<1>6. /\ rows \in Seq(EventIds) /\ Len(rows) = top /\ DOMAIN rows = 1..top
      /\ rows # <<>> => top \in 1..top
      /\ top # 0 => rows # <<>>
  <2>1. \A k \in 1..top : Ranked(found, k) \in EventIds
    BY <1>1, <1>4, <1>5
  <2>2. rows \in Seq(EventIds) /\ Len(rows) = top /\ DOMAIN rows = 1..top
    BY <1>3, <1>4, <2>1
  <2>3. rows # <<>> => top # 0
    BY <1>3, <2>2
  <2>4. top # 0 => rows # <<>>
    BY <1>3, <2>2
  <2> QED
    BY <1>3, <2>2, <2>3, <2>4
<1>7. ASSUME NEW d \in found, NEW e \in found, R(d) < R(e) PROVE e < d
  <2>1. d \in Nat /\ e \in Nat
    BY <1>2
  <2>2. CASE e = d
    <3>1. R(d) \in Nat
      <4>1. Reach(found, d) \in SUBSET found
        BY DEF Reach
      <4>2. IsFiniteSet(Reach(found, d))
        BY <1>2, <4>1, FS_Subset
      <4> QED
        BY <4>2, FS_CardinalityType
    <3> QED
      BY <1>7, <2>2, <3>1
  <2>3. CASE d < e
    <3>1. R(e) < R(d) /\ R(e) \in Nat /\ R(d) \in Nat
      BY <1>2, <2>3, LowerReachesMore
    <3> HIDE DEF R
    <3> QED
      BY <1>7, <3>1
  <2> QED
    BY <2>1, <2>2, <2>3
<1>8. ASSUME NEW e \in found PROVE R(e) \in 1..n
  <2>1. Reach(found, e) \in SUBSET found /\ e \in Reach(found, e)
    <3>1. e \in Nat /\ e >= e
      BY <1>2
    <3> QED
      BY <3>1 DEF Reach
  <2>2. IsFiniteSet(Reach(found, e)) /\ R(e) <= n
    BY <1>2, <2>1, FS_Subset DEF n
  <2>3. R(e) \in Nat /\ R(e) # 0
    <3>1. R(e) \in Nat
      BY <2>2, FS_CardinalityType
    <3>2. Reach(found, e) # {}
      BY <2>1
    <3> QED
      BY <2>2, <3>1, <3>2, FS_EmptySet
  <2> HIDE DEF R
  <2> QED
    BY <1>2, <2>2, <2>3
<1>9. ASSUME NEW d \in found, NEW e \in found, R(d) = R(e) PROVE d = e
  <2>1. d \in Nat /\ e \in Nat
    BY <1>2
  <2>2. CASE d < e
    <3>1. R(e) < R(d) /\ R(e) \in Nat /\ R(d) \in Nat
      BY <1>2, <2>2, LowerReachesMore
    <3> HIDE DEF R
    <3> QED
      BY <1>9, <3>1
  <2>3. CASE e < d
    <3>1. R(d) < R(e) /\ R(e) \in Nat /\ R(d) \in Nat
      BY <1>2, <2>3, LowerReachesMore
    <3> HIDE DEF R
    <3> QED
      BY <1>9, <3>1
  <2> QED
    BY <2>1, <2>2, <2>3
<1>10. ASSUME NEW e \in found
       PROVE  \/ \E i \in 1..top : rows[i] = e
              \/ top \in 1..top /\ top = PageLimit /\ R(e) > top /\ e < rows[top]
  <2>1. R(e) \in 1..n
    BY <1>8
  <2>2. CASE R(e) \in 1..top
    <3>1. rows[R(e)] \in found /\ R(rows[R(e)]) = R(e)
      BY <1>5, <2>2
    <3> HIDE DEF R
    <3> QED
      BY <1>9, <2>2, <3>1
  <2>3. CASE R(e) \notin 1..top
    <3> HIDE DEF R
    <3>1. R(e) > top /\ top < n
      BY <1>2, <1>3, <2>1, <2>3
    <3>2. top = PageLimit /\ top \in 1..top
      BY <1>2, <1>3, <3>1 DEF top
    <3>3. rows[top] \in found /\ R(rows[top]) < R(e)
      BY <1>5, <2>1, <3>1, <3>2
    <3> QED
      BY <1>7, <3>1, <3>2, <3>3
  <2> QED
    BY <2>2, <2>3
<1>11. ASSUME NEW i \in 1..(top - 1) PROVE rows[i] > rows[i + 1]
  <2>1. i \in 1..top /\ i + 1 \in 1..top /\ i < i + 1
    BY <1>3
  <2>2. rows[i] \in found /\ rows[i + 1] \in found /\ R(rows[i]) < R(rows[i + 1])
    BY <1>5, <2>1
  <2>3. rows[i + 1] < rows[i]
    BY <1>7, <2>2
  <2> QED
    BY <1>2, <2>2, <2>3
<1>12. ASSUME top \in 1..top, NEW e \in found, e < rows[top] PROVE top = PageLimit
  <2>1. rows[top] \in found /\ R(rows[top]) = top
    BY <1>5, <1>12
  <2>2. ~\E i \in 1..top : rows[i] = e
    <3> SUFFICES ASSUME NEW i \in 1..top, rows[i] = e PROVE FALSE
      OBVIOUS
    <3>1. R(rows[top]) < R(e) /\ R(e) = i
      BY <1>2, <1>5, <1>12, <2>1, LowerReachesMore
    <3> QED
      BY <1>3, <2>1, <3>1
  <2> QED
    BY <1>10, <2>2
<1>13. top < PageLimit => top = n
  BY <1>2, <1>3 DEF top
<1>14. rows # <<>> => Cardinality(Reach(found, LastOf(rows))) = Len(rows)
  BY <1>5, <1>6 DEF LastOf
<1>15. \A e \in found : \/ \E i \in 1..Len(rows) : rows[i] = e
                        \/ rows # <<>> /\ e < LastOf(rows)
  <2> HIDE DEF R
  <2> QED
    BY <1>3, <1>6, <1>10 DEF LastOf
<1>16. rows # <<>> /\ (\E e \in found : e < LastOf(rows)) => Len(rows) = PageLimit
  BY <1>6, <1>12 DEF LastOf
<1> QED
  <2>1. /\ rows \in Seq(EventIds)
        /\ \A i \in 1..Len(rows) : rows[i] \in found
        /\ \A i \in 1..(Len(rows) - 1) : rows[i] > rows[i + 1]
        /\ Len(rows) < PageLimit => Len(rows) = Cardinality(found)
        /\ Len(rows) <= PageLimit
    BY <1>3, <1>5, <1>6, <1>11, <1>13 DEF n
  <2> QED
    BY <2>1, <1>14, <1>15, <1>16 DEF rows, found

\* The cursor a page gives: none when nothing found is left out, and its last row, with a whole
\* page above it, when something is.
LEMMA PageAndCursor ==
    ASSUME events \subseteq EventIds, NEW f, NEW before \in Nat
    PROVE  LET rows == PageRows(f, before)
               next == PageNext(f, before)
           IN  /\ rows \in Seq(EventIds) /\ Down(rows, f)
               /\ before # 0 => \A i \in 1..Len(rows) : rows[i] < before
               /\ next \in Nat
               /\ next # 0 => rows # <<>> /\ next = LastOf(rows) /\ Full(f, next)
               /\ \A e \in events \cap Matching(f) :
                      before = 0 \/ e < before =>
                          (\E i \in 1..Len(rows) : rows[i] = e) \/ (next # 0 /\ e < next)
<1> DEFINE rows == PageRows(f, before)
           next == PageNext(f, before)
           found == Found(f, before)
           more == {e \in events \cap Matching(f) : rows # <<>> /\ e < rows[Len(rows)]}
<1>1. /\ rows \in Seq(EventIds)
      /\ \A i \in 1..Len(rows) : rows[i] \in found
      /\ \A i \in 1..(Len(rows) - 1) : rows[i] > rows[i + 1]
      /\ rows # <<>> => Cardinality(Reach(found, LastOf(rows))) = Len(rows)
      /\ \A e \in found : \/ \E i \in 1..Len(rows) : rows[i] = e
                          \/ rows # <<>> /\ e < LastOf(rows)
      /\ rows # <<>> /\ (\E e \in found : e < LastOf(rows)) => Len(rows) = PageLimit
  BY PageIsTheTop
<1>2. found = {e \in events \cap Matching(f) : before = 0 \/ e < before}
  BY DEF Found
<1>3. next = IF more = {} THEN 0 ELSE rows[Len(rows)]
  BY DEF PageNext
<1>4. EventIds \subseteq Nat /\ \A e \in EventIds : e \in Nat /\ e # 0
  BY ListBounds DEF EventIds
<1> HIDE DEF rows, found, next
<1>5. rows # <<>> => LastOf(rows) \in found /\ LastOf(rows) \in EventIds
  <2> SUFFICES ASSUME rows # <<>> PROVE LastOf(rows) \in found /\ LastOf(rows) \in EventIds
    OBVIOUS
  <2>1. Len(rows) \in 1..Len(rows)
    <3>1. Len(rows) \in Nat /\ Len(rows) # 0
      BY <1>1
    <3> QED
      BY <3>1
  <2> QED
    BY <1>1, <1>2, <2>1 DEF LastOf
<1>6. ASSUME more # {}
      PROVE  /\ rows # <<>> /\ next = LastOf(rows) /\ next \in Nat /\ next # 0 /\ Full(f, next)
             /\ \A e \in found : (\E i \in 1..Len(rows) : rows[i] = e) \/ e < next
  <2>1. rows # <<>> /\ next = LastOf(rows)
    BY <1>3, <1>6 DEF LastOf
  <2>2. next \in Nat /\ next # 0 /\ next \in found
    BY <1>4, <1>5, <2>1
  <2>3. PICK e \in events \cap Matching(f) : e < next
    BY <1>6, <2>1 DEF LastOf
  <2>4. e \in found
    <3>1. e \in Nat /\ (before = 0 \/ next < before)
      BY <1>2, <1>4, <2>2
    <3>2. before = 0 \/ e < before
      BY <2>2, <2>3, <3>1
    <3> QED
      BY <1>2, <3>2
  <2>5. Cardinality(Reach(found, next)) = PageLimit
    BY <1>1, <2>1, <2>3, <2>4
  <2> DEFINE above == {x \in events \cap Matching(f) : x >= next}
  <2>6. Reach(found, next) \in SUBSET above /\ above \in SUBSET EventIds
    BY <1>2 DEF Reach
  <2> HIDE DEF above
  <2>7. IsFiniteSet(above)
    BY <2>6, IdsAreFinite
  <2>8. PageLimit <= Cardinality(above) /\ Cardinality(above) \in Nat
    BY <2>5, <2>6, <2>7, FS_Subset, FS_CardinalityType
  <2>9. Full(f, next)
    <3>1. Cardinality(above) >= PageLimit
      BY <2>8, ListBounds
    <3> QED
      BY <3>1 DEF Full, above
  <2> QED
    BY <1>1, <2>1, <2>2, <2>9
<1>7. ASSUME more = {}
      PROVE  next = 0 /\ \A e \in found : \E i \in 1..Len(rows) : rows[i] = e
  BY <1>1, <1>2, <1>3, <1>7 DEF LastOf
<1>8. Down(rows, f)
  BY <1>1, <1>2 DEF Down
<1>9. before # 0 => \A i \in 1..Len(rows) : rows[i] < before
  BY <1>1, <1>2
<1>10. next \in Nat
  BY <1>6, <1>7
<1>11. next # 0 => rows # <<>> /\ next = LastOf(rows) /\ Full(f, next)
  BY <1>6, <1>7
<1>12. ASSUME NEW e \in events \cap Matching(f), before = 0 \/ e < before
       PROVE  (\E i \in 1..Len(rows) : rows[i] = e) \/ (next # 0 /\ e < next)
  <2>1. e \in found
    BY <1>2, <1>12
  <2> QED
    BY <1>6, <1>7, <2>1
<1> QED
  <2>1. /\ rows \in Seq(EventIds) /\ Down(rows, f)
        /\ before # 0 => \A i \in 1..Len(rows) : rows[i] < before
        /\ next \in Nat
        /\ next # 0 => rows # <<>> /\ next = LastOf(rows) /\ Full(f, next)
    BY <1>1, <1>8, <1>9, <1>10, <1>11
  <2> HIDE DEF more
  <2> QED
    BY <2>1, <1>12 DEF rows, next

\* With a whole page not below x, the first page does not reach below x.
LEMMA FirstPageEndsAbove ==
    ASSUME events \subseteq EventIds, NEW f, NEW x \in Nat, Full(f, x)
    PROVE  PageRows(f, 0) # <<>> /\ LastOf(PageRows(f, 0)) >= x
<1> DEFINE rows == PageRows(f, 0)
           found == Found(f, 0)
           above == {e \in events \cap Matching(f) : e >= x}
<1>1. /\ rows \in Seq(EventIds)
      /\ \A i \in 1..Len(rows) : rows[i] \in found
      /\ rows # <<>> => Cardinality(Reach(found, LastOf(rows))) = Len(rows)
      /\ \A e \in found : \/ \E i \in 1..Len(rows) : rows[i] = e
                          \/ rows # <<>> /\ e < LastOf(rows)
      /\ rows # <<>> /\ (\E e \in found : e < LastOf(rows)) => Len(rows) = PageLimit
      /\ Len(rows) < PageLimit => Len(rows) = Cardinality(found)
      /\ Len(rows) <= PageLimit
  BY PageIsTheTop
<1>2. found = events \cap Matching(f) /\ found \in SUBSET EventIds
  BY DEF Found
<1>3. IsFiniteSet(found) /\ Cardinality(found) \in Nat /\ found \subseteq Nat
  BY <1>2, IdsAreFinite
<1>4. above \in SUBSET found
  BY <1>2
<1>5. Cardinality(above) >= PageLimit
  BY DEF Full
<1> HIDE DEF rows, found, above
<1>6. IsFiniteSet(above) /\ Cardinality(above) <= Cardinality(found) /\ Cardinality(above) \in Nat
  BY <1>3, <1>4, FS_Subset, FS_CardinalityType
<1>7. PageLimit \in Nat /\ PageLimit # 0
  BY ListBounds
<1>8. Len(rows) \in Nat /\ Len(rows) >= PageLimit
  BY <1>1, <1>3, <1>5, <1>6, <1>7
<1>9. rows # <<>> /\ Len(rows) \in 1..Len(rows)
  <2>1. Len(rows) # 0
    BY <1>7, <1>8
  <2> QED
    BY <1>8, <2>1
<1>10. LastOf(rows) \in found /\ LastOf(rows) \in Nat
  BY <1>1, <1>3, <1>9 DEF LastOf
<1>11. ASSUME LastOf(rows) < x PROVE FALSE
  <2> DEFINE last == LastOf(rows)
             reach == Reach(found, last)
  <2>1. reach \in SUBSET found /\ last \in reach /\ above \subseteq reach \ {last}
    <3>1. last >= last /\ ~(last >= x)
      BY <1>10, <1>11
    <3>2. \A e \in above : e \in found /\ e >= x /\ e \in Nat
      BY <1>3, <1>4 DEF above
    <3>3. \A e \in above : e >= last
      BY <1>10, <1>11, <3>2
    <3> QED
      BY <1>10, <3>1, <3>2, <3>3 DEF Reach
  <2>2. Cardinality(reach) = Len(rows)
    BY <1>1, <1>9
  <2> HIDE DEF reach, last
  <2>3. IsFiniteSet(reach)
    BY <1>3, <2>1, FS_Subset
  <2>4. IsFiniteSet(reach \ {last}) /\ Cardinality(reach \ {last}) = Cardinality(reach) - 1
    BY <2>1, <2>3, FS_RemoveElement
  <2>5. Cardinality(above) <= Cardinality(reach \ {last})
    BY <2>1, <2>4, FS_Subset
  <2>6. Len(rows) <= PageLimit
    BY <1>1
  <2> QED
    BY <1>5, <1>6, <1>7, <1>8, <2>2, <2>4, <2>5, <2>6
<1>12. LastOf(rows) >= x
  BY <1>10, <1>11
<1> QED
  BY <1>9, <1>12 DEF rows

ListReads == [kind : {"load", "more"}, mine : Nat, visit : Nat, filter : Filters, before : Nat,
              rows : Seq(EventIds), next : Nat, saw : SUBSET EventIds, at : {"asked", "answered"}]
Lists == [rows : Seq(EventIds), next : Nat, filter : Filters]
Visits == [visit : Nat, more : BOOLEAN]
Exports == [at : {"new", "paging", "done"}, rows : Seq(EventIds), before : Nat,
            saw : SUBSET EventIds]

ListTypes ==
    /\ events \subseteq EventIds
    /\ list \in Lists /\ latest \in Nat /\ loads \subseteq ListReads /\ tab \in Visits
    /\ export \in Exports

\* One latest loadAudit, and one Load more out for the visit on screen.
CallsApart ==
    /\ \A r \in loads : r.mine <= latest /\ r.visit <= tab.visit
    /\ \A r \in loads : \A s \in loads :
          r.kind = "load" /\ s.kind = "load" /\ r.mine = latest /\ s.mine = latest => r = s
    /\ \A r \in loads : \A s \in loads :
          r.kind = "more" /\ s.kind = "more" /\ r.visit = tab.visit /\ s.visit = tab.visit => r = s
    /\ \A r \in loads : r.kind = "more" /\ r.visit = tab.visit => tab.more

\* An answer is a page of its filter, below its cursor.
AnswerFits(r) ==
    r.at = "answered" =>
        /\ Down(r.rows, r.filter)
        /\ r.before # 0 => \A i \in 1..Len(r.rows) : r.rows[i] < r.before
        /\ r.next # 0 => r.rows # <<>> /\ r.next = LastOf(r.rows) /\ Full(r.filter, r.next)

\* Where the list on screen may still go on from: its own cursor, or that of a page it asked for.
Cursor(x) ==
    /\ x # 0
    /\ x = list.next \/ \E m \in loads : m.kind = "more" /\ m.mine = latest /\ m.before = x

ScreenReadsDown ==
    /\ Down(list.rows, list.filter)
    /\ list.next # 0 => /\ list.rows # <<>> /\ list.next = LastOf(list.rows)
                        /\ Full(list.filter, list.next)

\* A page the screen still waits for goes on from below its last row.
MoreFits(r) ==
    r.kind = "more" /\ r.mine = latest =>
        /\ r.filter = list.filter /\ r.visit = tab.visit
        /\ r.before # 0 /\ Full(list.filter, r.before)
        /\ list.rows # <<>> => LastOf(list.rows) >= r.before

\* A fresh first page never ends below a cursor somebody still goes on from.
LoadFits(r) ==
    r.kind = "load" /\ r.mine = latest =>
        /\ r.filter = list.filter /\ r.before = 0
        /\ r.at = "answered" => \A x \in Nat : Cursor(x) => r.rows # <<>> /\ LastOf(r.rows) >= x

CallsFit == \A r \in loads : AnswerFits(r) /\ MoreFits(r) /\ LoadFits(r)

ExportFits ==
    /\ export.at = "new" => export.before = 0
    /\ export.at = "paging" =>
          /\ export.before # 0 /\ export.saw \subseteq events
          /\ \A e \in export.saw : e \in ToSet(export.rows) \/ e < export.before
    /\ export.at = "done" => export.saw \subseteq ToSet(export.rows)

ListInv == ListTypes /\ CallsApart /\ ScreenReadsDown /\ CallsFit /\ ExportFits

ScreenSide == ListTypes /\ CallsApart /\ ScreenReadsDown /\ CallsFit

LEMMA FieldsOfReads ==
    ASSUME ListTypes
    PROVE  /\ events \subseteq EventIds /\ EventIds \subseteq Nat /\ \A e \in EventIds : e # 0
           /\ list.rows \in Seq(EventIds) /\ list.next \in Nat /\ list.filter \in Filters
           /\ list = [rows |-> list.rows, next |-> list.next, filter |-> list.filter]
           /\ latest \in Nat /\ tab.visit \in Nat /\ tab.more \in BOOLEAN
           /\ tab = [visit |-> tab.visit, more |-> tab.more]
           /\ \A r \in loads :
                 /\ r \in ListReads /\ r.mine \in Nat /\ r.visit \in Nat /\ r.filter \in Filters
                 /\ r.before \in Nat /\ r.rows \in Seq(EventIds) /\ r.next \in Nat
<1>1. EventIds \subseteq Nat /\ \A e \in EventIds : e # 0
  BY ListBounds DEF EventIds
<1>2. events \subseteq EventIds /\ list \in Lists /\ latest \in Nat /\ tab \in Visits
  BY DEF ListTypes
<1>3. /\ list.rows \in Seq(EventIds) /\ list.next \in Nat /\ list.filter \in Filters
      /\ list = [rows |-> list.rows, next |-> list.next, filter |-> list.filter]
  BY <1>2 DEF Lists
<1>4. /\ tab.visit \in Nat /\ tab.more \in BOOLEAN
      /\ tab = [visit |-> tab.visit, more |-> tab.more]
  BY <1>2 DEF Visits
<1>5. ASSUME NEW r \in loads
      PROVE  /\ r \in ListReads /\ r.mine \in Nat /\ r.visit \in Nat /\ r.filter \in Filters
             /\ r.before \in Nat /\ r.rows \in Seq(EventIds) /\ r.next \in Nat
  <2>1. r \in ListReads
    BY DEF ListTypes
  <2> QED
    BY <2>1 DEF ListReads
<1> QED
  BY <1>1, <1>2, <1>3, <1>4, <1>5

\* The last row of what is not empty is one of its rows.
LEMMA LastIsARow ==
    ASSUME NEW rows \in Seq(EventIds), rows # <<>>
    PROVE  /\ Len(rows) \in 1..Len(rows) /\ LastOf(rows) = rows[Len(rows)]
           /\ LastOf(rows) \in EventIds /\ LastOf(rows) \in Nat /\ LastOf(rows) # 0
<1>1. Len(rows) \in Nat /\ Len(rows) # 0
  OBVIOUS
<1>2. Len(rows) \in 1..Len(rows)
  BY <1>1
<1>3. LastOf(rows) \in EventIds
  BY <1>2 DEF LastOf
<1> QED
  BY <1>2, <1>3, ListBounds DEF LastOf, EventIds

LEMMA NewReadIsRead ==
    ASSUME ListTypes, NEW kind \in {"load", "more"}, NEW mine \in Nat, NEW f \in Filters,
           NEW before \in Nat
    PROVE  LET r == Read(kind, mine, f, before)
           IN  /\ r \in ListReads /\ r.kind = kind /\ r.mine = mine /\ r.filter = f
               /\ r.before = before /\ r.visit = tab.visit /\ r.at = "asked"
<1>1. tab.visit \in Nat /\ <<>> \in Seq(EventIds) /\ {} \in SUBSET EventIds
  BY FieldsOfReads
<1> QED
  BY <1>1 DEF Read, ListReads

\* More events only put more above a cursor.
LEMMA FullStays ==
    ASSUME events \subseteq EventIds, events' \subseteq EventIds, events \subseteq events',
           NEW f, NEW x, Full(f, x)
    PROVE  Full(f, x)'
<1> DEFINE A == {e \in events \cap Matching(f) : e >= x}
           B == {e \in events' \cap Matching(f) : e >= x}
<1>1. A \in SUBSET B /\ B \in SUBSET EventIds
  OBVIOUS
<1>2. Cardinality(A) >= PageLimit
  BY DEF Full
<1> HIDE DEF A, B
<1>3. IsFiniteSet(B) /\ Cardinality(B) \in Nat
  BY <1>1, IdsAreFinite
<1>4. Cardinality(A) <= Cardinality(B) /\ IsFiniteSet(A)
  BY <1>1, <1>3, FS_Subset
<1>5. Cardinality(A) \in Nat
  BY <1>4, FS_CardinalityType
<1>6. Cardinality(B) >= PageLimit
  BY <1>2, <1>3, <1>4, <1>5, ListBounds
<1> QED
  BY <1>6 DEF Full, B, Matching

\* Events commit: what is on screen and what is out still fits.
LEMMA CommitsFit ==
    ASSUME ScreenSide, events \subseteq events', events' \subseteq EventIds,
           UNCHANGED <<list, latest, loads, tab>>, export' \in Exports
    PROVE  ScreenSide'
<1>1. \A f, x : Full(f, x) => Full(f, x)'
  BY FullStays DEF ScreenSide, ListTypes
<1>2. ListTypes' /\ CallsApart'
  BY DEF ScreenSide, ListTypes, CallsApart
<1>3. \A rows, f : Down(rows, f)' <=> Down(rows, f)
  BY DEF Down, Matching
<1>4. ScreenReadsDown'
  <2>1. ScreenReadsDown
    BY DEF ScreenSide
  <2> QED
    BY <1>1, <1>3, <2>1 DEF ScreenReadsDown
<1>5. \A x : Cursor(x)' <=> Cursor(x)
  BY DEF Cursor
<1>6. ASSUME NEW r \in loads PROVE AnswerFits(r)' /\ MoreFits(r)' /\ LoadFits(r)'
  <2>1. AnswerFits(r) /\ MoreFits(r) /\ LoadFits(r)
    BY DEF ScreenSide, CallsFit
  <2>2. AnswerFits(r)'
    BY <1>1, <1>3, <2>1 DEF AnswerFits
  <2>3. MoreFits(r)'
    BY <1>1, <2>1 DEF MoreFits
  <2>4. LoadFits(r)'
    BY <1>5, <2>1 DEF LoadFits
  <2> QED
    BY <2>2, <2>3, <2>4
<1> QED
  BY <1>2, <1>4, <1>6 DEF ScreenSide, CallsFit

\* A call that has gone leaves the rest as they were, for the same list.
LEMMA OneCallLess ==
    ASSUME ScreenSide, NEW r \in loads, loads' = loads \ {r},
           UNCHANGED <<events, list, latest, export>>, tab' = MoreSettled(r)
    PROVE  ScreenSide'
<1>1. ListTypes /\ CallsApart /\ ScreenReadsDown /\ CallsFit
  BY DEF ScreenSide
<1>2. tab' = tab \/ (r.kind = "more" /\ r.visit = tab.visit /\ tab' = [tab EXCEPT !.more = FALSE])
  BY DEF MoreSettled
<1>3. tab' \in Visits /\ tab'.visit = tab.visit
  <2>1. tab \in Visits
    BY <1>1 DEF ListTypes
  <2> QED
    BY <1>2, <2>1 DEF Visits
<1>4. ListTypes'
  BY <1>1, <1>3 DEF ListTypes
<1>5. CallsApart'
  <2>1. ASSUME NEW s \in loads', s.kind = "more", s.visit = tab'.visit PROVE tab'.more
    <3>1. s \in loads /\ s # r /\ s.visit = tab.visit
      BY <1>3, <2>1
    <3>2. ~(r.kind = "more" /\ r.visit = tab.visit)
      BY <1>1, <2>1, <3>1 DEF CallsApart
    <3>3. tab.more
      BY <1>1, <2>1, <3>1 DEF CallsApart
    <3> QED
      BY <1>2, <3>2, <3>3
  <2> QED
    BY <1>1, <1>3, <2>1 DEF CallsApart
<1>6. ScreenReadsDown'
  BY <1>1 DEF ScreenReadsDown, Down, Full, Matching
<1>7. \A x : Cursor(x)' => Cursor(x)
  BY DEF Cursor
<1>8. ASSUME NEW s \in loads' PROVE AnswerFits(s)' /\ MoreFits(s)' /\ LoadFits(s)'
  <2>1. AnswerFits(s) /\ MoreFits(s) /\ LoadFits(s)
    BY <1>1 DEF CallsFit
  <2>2. AnswerFits(s)'
    BY <2>1 DEF AnswerFits, Down, Full, Matching
  <2>3. MoreFits(s)'
    BY <1>3, <2>1 DEF MoreFits, Full, Matching
  <2>4. LoadFits(s)'
    BY <1>7, <2>1 DEF LoadFits
  <2> QED
    BY <2>2, <2>3, <2>4
<1> QED
  BY <1>4, <1>5, <1>6, <1>8 DEF ScreenSide, CallsFit

\* A list read afresh: no call of before is the latest any more.
LEMMA FreshCall ==
    ASSUME ScreenSide, NEW f \in Filters, latest' = latest + 1,
           loads' = loads \cup {Read("load", latest + 1, f, 0)},
           list' \in Lists, list'.filter = f, ScreenReadsDown',
           tab' \in Visits,
           tab' = tab \/ tab'.visit = tab.visit + 1,
           UNCHANGED <<events, export>>
    PROVE  ScreenSide'
<1> DEFINE new == Read("load", latest + 1, f, 0)
<1>1. /\ ListTypes /\ CallsApart /\ CallsFit /\ latest \in Nat /\ tab.visit \in Nat
      /\ tab'.visit \in Nat
  BY FieldsOfReads DEF ScreenSide, Visits
<1>2. /\ new \in ListReads /\ new.kind = "load" /\ new.mine = latest + 1 /\ new.filter = f
      /\ new.before = 0 /\ new.visit = tab.visit /\ new.at = "asked"
  BY <1>1 DEF Read, ListReads
<1> HIDE DEF new
<1>3. loads' = loads \cup {new}
  BY DEF new
<1>4. \A r \in loads : r.mine \in Nat /\ r.visit \in Nat /\ r.mine # latest' /\ r.mine <= latest'
  BY <1>1, FieldsOfReads DEF CallsApart
<1>5. ListTypes'
  BY <1>1, <1>2, <1>3 DEF ListTypes
<1>6. CallsApart'
  <2>1. ASSUME NEW r \in loads' PROVE r.mine <= latest' /\ r.visit <= tab'.visit
    <3>1. CASE r = new
      BY <1>1, <1>2, <3>1
    <3>2. CASE r \in loads
      BY <1>1, <1>4, <3>2 DEF CallsApart
    <3> QED
      BY <1>3, <3>1, <3>2
  <2>2. ASSUME NEW r \in loads', NEW s \in loads', r.mine = latest', s.mine = latest' PROVE r = s
    BY <1>3, <1>4, <2>2
  <2>3. ASSUME NEW r \in loads', r.kind = "more", r.visit = tab'.visit PROVE r \in loads /\ tab' = tab
    <3>1. r \in loads
      BY <1>2, <1>3, <2>3
    <3>2. r.visit <= tab.visit /\ r.visit \in Nat
      BY <1>1, <1>4, <3>1 DEF CallsApart
    <3> QED
      BY <1>1, <2>3, <3>1, <3>2
  <2>4. ASSUME NEW r \in loads', NEW s \in loads', r.kind = "more", s.kind = "more",
               r.visit = tab'.visit, s.visit = tab'.visit
        PROVE  r = s
    <3>1. r \in loads /\ s \in loads /\ tab' = tab
      BY <2>3, <2>4
    <3> QED
      BY <1>1, <2>4, <3>1 DEF CallsApart
  <2>5. ASSUME NEW r \in loads', r.kind = "more", r.visit = tab'.visit PROVE tab'.more
    <3>1. r \in loads /\ tab' = tab
      BY <2>3, <2>5
    <3> QED
      BY <1>1, <2>5, <3>1 DEF CallsApart
  <2> QED
    BY <2>1, <2>2, <2>4, <2>5 DEF CallsApart
<1>7. ASSUME NEW r \in loads' PROVE AnswerFits(r)' /\ MoreFits(r)' /\ LoadFits(r)'
  <2>1. CASE r = new
    BY <1>2, <2>1 DEF AnswerFits, MoreFits, LoadFits
  <2>2. CASE r \in loads
    <3>1. AnswerFits(r) /\ r.mine # latest'
      BY <1>1, <1>4, <2>2 DEF CallsFit
    <3>2. AnswerFits(r)'
      BY <3>1 DEF AnswerFits, Down, Full, Matching
    <3> QED
      BY <3>1, <3>2 DEF MoreFits, LoadFits
  <2> QED
    BY <1>3, <2>1, <2>2
<1> QED
  BY <1>5, <1>6, <1>7 DEF ScreenSide, CallsFit

LEMMA LoadAuditFits ==
    ASSUME ScreenSide, NEW f \in Filters, NEW fresh \in BOOLEAN, LoadAudit(f, fresh)
    PROVE  ScreenSide'
<1>1. ListTypes /\ ScreenReadsDown /\ tab \in Visits /\ list \in Lists
  BY DEF ScreenSide, ListTypes
<1>2. /\ latest' = latest + 1 /\ UNCHANGED <<events, tab, export>>
      /\ loads' = loads \cup {Read("load", latest + 1, f, 0)}
      /\ list' = IF fresh THEN [rows |-> <<>>, next |-> 0, filter |-> f] ELSE list
      /\ ~fresh => f = list.filter
  BY DEF LoadAudit
<1>4. CASE fresh
  <2>1. /\ list' = [rows |-> <<>>, next |-> 0, filter |-> f]
        /\ list'.rows = <<>> /\ list'.next = 0 /\ list'.filter = f
    BY <1>2, <1>4
  <2>2. list' \in Lists
    BY <2>1 DEF Lists
  <2>3. ScreenReadsDown'
    BY <2>1 DEF ScreenReadsDown, Down
  <2> QED
    BY <1>1, <1>2, <2>1, <2>2, <2>3, FreshCall
<1>5. CASE ~fresh
  <2>1. list' = list /\ list'.filter = f /\ list' \in Lists
    BY <1>1, <1>2, <1>5
  <2>2. ScreenReadsDown'
    BY <1>1, <1>2, <2>1 DEF ScreenReadsDown, Down, Full, Matching
  <2> QED
    BY <1>1, <1>2, <2>1, <2>2, FreshCall
<1> QED
  BY <1>4, <1>5

LEMMA ReopenFits ==
    ASSUME ScreenSide, ReopenTab
    PROVE  ScreenSide'
<1>1. /\ ListTypes /\ ScreenReadsDown /\ list \in Lists /\ list.filter \in Filters
      /\ tab.visit \in Nat
  BY FieldsOfReads DEF ScreenSide, ListTypes
<1>2. /\ latest' = latest + 1 /\ UNCHANGED <<events, list, export>>
      /\ loads' = loads \cup {Read("load", latest + 1, list.filter, 0)}
      /\ tab' = [visit |-> tab.visit + 1, more |-> FALSE]
  BY DEF ReopenTab
<1>3. tab' \in Visits /\ tab'.visit = tab.visit + 1
  BY <1>1, <1>2 DEF Visits
<1>4. ScreenReadsDown'
  BY <1>1, <1>2 DEF ScreenReadsDown, Down, Full, Matching
<1> QED
  BY <1>1, <1>2, <1>3, <1>4, FreshCall

LEMMA LoadMoreFits ==
    ASSUME ScreenSide, LoadMoreAudit
    PROVE  ScreenSide'
<1> DEFINE new == Read("more", latest, list.filter, list.next)
<1>1. /\ ListTypes /\ CallsApart /\ ScreenReadsDown /\ CallsFit
      /\ latest \in Nat /\ list.next \in Nat /\ list.filter \in Filters /\ tab.visit \in Nat
      /\ tab = [visit |-> tab.visit, more |-> tab.more]
  BY FieldsOfReads DEF ScreenSide
<1>2. /\ list.next # 0 /\ ~tab.more /\ UNCHANGED <<events, list, latest, export>>
      /\ tab' = [visit |-> tab.visit, more |-> TRUE]
      /\ loads' = loads \cup {new}
  BY <1>1 DEF LoadMoreAudit
<1>3. /\ new \in ListReads /\ new.kind = "more" /\ new.mine = latest
      /\ new.filter = list.filter /\ new.before = list.next /\ new.visit = tab.visit
      /\ new.at = "asked"
  BY <1>1, NewReadIsRead
<1> HIDE DEF new
<1>4. tab' \in Visits /\ tab'.visit = tab.visit /\ tab'.more
  BY <1>1, <1>2 DEF Visits
<1>5. ListTypes'
  BY <1>1, <1>2, <1>3, <1>4 DEF ListTypes
<1>6. \A r \in loads : ~(r.kind = "more" /\ r.visit = tab.visit)
  BY <1>1, <1>2 DEF CallsApart
<1>7. CallsApart'
  <2>1. \A r \in loads' : r.mine <= latest /\ r.visit <= tab.visit
    BY <1>1, <1>2, <1>3 DEF CallsApart
  <2>2. \A r \in loads' : \A s \in loads' :
            r.kind = "load" /\ s.kind = "load" /\ r.mine = latest /\ s.mine = latest => r = s
    BY <1>1, <1>2, <1>3 DEF CallsApart
  <2>3. \A r \in loads' : \A s \in loads' :
            r.kind = "more" /\ s.kind = "more" /\ r.visit = tab.visit /\ s.visit = tab.visit => r = s
    BY <1>2, <1>3, <1>6
  <2> QED
    BY <1>2, <1>4, <2>1, <2>2, <2>3 DEF CallsApart
<1>8. ScreenReadsDown'
  BY <1>1, <1>2 DEF ScreenReadsDown, Down, Full, Matching
<1>9. \A x : Cursor(x)' => Cursor(x)
  BY <1>2, <1>3 DEF Cursor
<1>10. ASSUME NEW r \in loads' PROVE AnswerFits(r)' /\ MoreFits(r)' /\ LoadFits(r)'
  <2>1. CASE r = new
    <3>0. /\ r.kind = "more" /\ r.mine = latest /\ r.filter = list.filter
          /\ r.before = list.next /\ r.visit = tab.visit /\ r.at = "asked"
      BY <1>3, <2>1
    <3>1. MoreFits(r)'
      <4>1. list.rows # <<>> /\ list.next = LastOf(list.rows) /\ Full(list.filter, list.next)
        BY <1>1, <1>2 DEF ScreenReadsDown
      <4>2. LastOf(list.rows) >= list.next
        BY <1>1, <4>1
      <4>3. Full(list.filter, r.before)'
        BY <1>2, <3>0, <4>1 DEF Full, Matching
      <4> QED
        BY <1>2, <1>4, <3>0, <4>1, <4>2, <4>3 DEF MoreFits
    <3> QED
      BY <3>0, <3>1 DEF AnswerFits, LoadFits
  <2>2. CASE r \in loads
    <3>1. AnswerFits(r) /\ MoreFits(r) /\ LoadFits(r)
      BY <1>1, <2>2 DEF CallsFit
    <3>2. AnswerFits(r)'
      BY <1>2, <3>1 DEF AnswerFits, Down, Full, Matching
    <3>3. MoreFits(r)'
      BY <1>2, <1>4, <3>1 DEF MoreFits, Full, Matching
    <3>4. LoadFits(r)'
      BY <1>2, <1>9, <3>1 DEF LoadFits
    <3> QED
      BY <3>2, <3>3, <3>4
  <2> QED
    BY <1>2, <2>1, <2>2
<1> QED
  BY <1>5, <1>7, <1>8, <1>10 DEF ScreenSide, CallsFit

\* The service answers: a page below the call's cursor, with all the log then held above its end.
LEMMA ServeFits ==
    ASSUME ScreenSide, NEW r \in loads, ServeRead(r)
    PROVE  ScreenSide'
<1> DEFINE rows == PageRows(r.filter, r.before)
           next == PageNext(r.filter, r.before)
           new == [r EXCEPT !.at = "answered", !.rows = rows, !.next = next, !.saw = events]
<1>1. /\ ListTypes /\ CallsApart /\ ScreenReadsDown /\ CallsFit
      /\ events \subseteq EventIds /\ r \in ListReads /\ r.before \in Nat /\ r.filter \in Filters
  BY FieldsOfReads DEF ScreenSide
<1>2. /\ loads' = (loads \ {r}) \cup {new}
      /\ UNCHANGED <<events, list, latest, tab, export>>
  BY DEF ServeRead
<1>3. /\ rows \in Seq(EventIds) /\ Down(rows, r.filter)
      /\ r.before # 0 => \A i \in 1..Len(rows) : rows[i] < r.before
      /\ next \in Nat
      /\ next # 0 => rows # <<>> /\ next = LastOf(rows) /\ Full(r.filter, next)
  BY <1>1, PageAndCursor
<1>4. r.before = 0 => rows = PageRows(r.filter, 0)
  OBVIOUS
<1> HIDE DEF rows, next
<1>5. /\ new.kind = r.kind /\ new.mine = r.mine /\ new.visit = r.visit /\ new.filter = r.filter
      /\ new.before = r.before /\ new.at = "answered" /\ new.rows = rows /\ new.next = next
      /\ new \in ListReads
  <2>1. events \in SUBSET EventIds
    BY <1>1
  <2> QED
    BY <1>1, <1>3, <2>1 DEF ListReads
<1> HIDE DEF new
<1>6. ListTypes'
  BY <1>1, <1>2, <1>5 DEF ListTypes
<1>7. CallsApart'
  <2>1. \A s \in loads' : s.mine <= latest /\ s.visit <= tab.visit
    BY <1>1, <1>2, <1>5 DEF CallsApart
  <2>2. \A s \in loads' : \A t \in loads' :
            s.kind = "load" /\ t.kind = "load" /\ s.mine = latest /\ t.mine = latest => s = t
    BY <1>1, <1>2, <1>5 DEF CallsApart
  <2>3. \A s \in loads' : \A t \in loads' :
            s.kind = "more" /\ t.kind = "more" /\ s.visit = tab.visit /\ t.visit = tab.visit => s = t
    BY <1>1, <1>2, <1>5 DEF CallsApart
  <2>4. \A s \in loads' : s.kind = "more" /\ s.visit = tab.visit => tab.more
    BY <1>1, <1>2, <1>5 DEF CallsApart
  <2> QED
    BY <1>2, <2>1, <2>2, <2>3, <2>4 DEF CallsApart
<1>8. ScreenReadsDown'
  BY <1>1, <1>2 DEF ScreenReadsDown, Down, Full, Matching
<1>9. \A x : Cursor(x)' => Cursor(x)
  BY <1>2, <1>5 DEF Cursor
<1>10. ASSUME NEW x \in Nat, Cursor(x) PROVE Full(list.filter, x)
  BY <1>1, <1>10 DEF Cursor, ScreenReadsDown, CallsFit, MoreFits
<1>11. ASSUME NEW s \in loads' PROVE AnswerFits(s)' /\ MoreFits(s)' /\ LoadFits(s)'
  <2>1. CASE s = new
    <3>0. /\ s.kind = r.kind /\ s.mine = r.mine /\ s.visit = r.visit /\ s.filter = r.filter
          /\ s.before = r.before /\ s.rows = rows /\ s.next = next
      BY <1>5, <2>1
    <3>1. AnswerFits(s)'
      <4>1. Down(s.rows, s.filter)'
        BY <1>3, <3>0 DEF Down, Matching
      <4>2. s.next # 0 => Full(s.filter, s.next)'
        BY <1>2, <1>3, <3>0 DEF Full, Matching
      <4> QED
        BY <1>3, <3>0, <4>1, <4>2 DEF AnswerFits
    <3>2. MoreFits(r) /\ LoadFits(r)
      BY <1>1 DEF CallsFit
    <3>3. MoreFits(s)'
      BY <1>2, <3>0, <3>2 DEF MoreFits, Full, Matching
    <3>4. LoadFits(s)'
      <4> SUFFICES ASSUME r.kind = "load", r.mine = latest
                   PROVE  /\ r.filter = list.filter /\ r.before = 0
                          /\ \A x \in Nat : Cursor(x)' => rows # <<>> /\ LastOf(rows) >= x
        BY <1>2, <3>0 DEF LoadFits
      <4>1. r.filter = list.filter /\ r.before = 0
        BY <3>2 DEF LoadFits
      <4>2. ASSUME NEW x \in Nat, Cursor(x)' PROVE rows # <<>> /\ LastOf(rows) >= x
        <5>1. Full(r.filter, x)
          BY <1>9, <1>10, <4>1, <4>2
        <5> QED
          BY <1>1, <1>4, <4>1, <5>1, FirstPageEndsAbove
      <4> QED
        BY <4>1, <4>2
    <3> QED
      BY <3>1, <3>3, <3>4
  <2>2. CASE s \in loads
    <3>1. AnswerFits(s) /\ MoreFits(s) /\ LoadFits(s)
      BY <1>1, <2>2 DEF CallsFit
    <3>2. AnswerFits(s)'
      BY <1>2, <3>1 DEF AnswerFits, Down, Full, Matching
    <3>3. MoreFits(s)'
      BY <1>2, <3>1 DEF MoreFits, Full, Matching
    <3>4. LoadFits(s)'
      BY <1>2, <1>9, <3>1 DEF LoadFits
    <3> QED
      BY <3>2, <3>3, <3>4
  <2> QED
    BY <1>2, <2>1, <2>2
<1> QED
  BY <1>6, <1>7, <1>8, <1>11 DEF ScreenSide, CallsFit

\* The list on screen is replaced, or emptied, by its latest loadAudit, which is then over.
LEMMA ListReplaced ==
    ASSUME ScreenSide, NEW r \in loads, r.kind = "load", r.mine = latest,
           loads' = loads \ {r}, list' \in Lists, list'.filter = list.filter, ScreenReadsDown',
           \A x \in Nat : Cursor(x) /\ list'.rows # <<>> => LastOf(list'.rows) >= x,
           UNCHANGED <<events, latest, tab, export>>
    PROVE  ScreenSide'
<1>1. ListTypes /\ CallsApart /\ CallsFit
  BY DEF ScreenSide
<1>2. ListTypes' /\ CallsApart'
  BY <1>1 DEF ListTypes, CallsApart
<1>3. ASSUME NEW s \in loads' PROVE AnswerFits(s)' /\ MoreFits(s)' /\ LoadFits(s)'
  <2>1. AnswerFits(s) /\ MoreFits(s) /\ LoadFits(s) /\ s \in loads /\ s # r /\ s.before \in Nat
    BY <1>1, FieldsOfReads DEF CallsFit
  <2>2. AnswerFits(s)'
    BY <2>1 DEF AnswerFits, Down, Full, Matching
  <2>3. MoreFits(s)'
    <3> SUFFICES ASSUME s.kind = "more", s.mine = latest PROVE MoreFits(s)'
      BY DEF MoreFits
    <3>1. /\ s.filter = list.filter /\ s.visit = tab.visit
          /\ s.before # 0 /\ Full(list.filter, s.before)
      BY <2>1 DEF MoreFits
    <3>2. Cursor(s.before)
      BY <2>1, <3>1 DEF Cursor
    <3>3. list'.rows # <<>> => LastOf(list'.rows) >= s.before
      BY <2>1, <3>2
    <3>4. Full(list.filter, s.before)'
      BY <3>1 DEF Full, Matching
    <3> QED
      BY <3>1, <3>3, <3>4 DEF MoreFits, Full, Matching, LastOf
  <2>4. LoadFits(s)'
    BY <1>1, <2>1 DEF LoadFits, CallsApart
  <2> QED
    BY <2>2, <2>3, <2>4
<1> QED
  BY <1>2, <1>3 DEF ScreenSide, CallsFit

LEMMA LandLoadFits ==
    ASSUME ScreenSide, NEW r \in loads, LandLoad(r)
    PROVE  ScreenSide'
<1>1. /\ ListTypes /\ ScreenReadsDown /\ CallsFit
      /\ list = [rows |-> list.rows, next |-> list.next, filter |-> list.filter]
      /\ list.filter \in Filters /\ r.rows \in Seq(EventIds) /\ r.next \in Nat
  BY FieldsOfReads DEF ScreenSide
<1>2. /\ r.kind = "load" /\ r.at = "answered" /\ loads' = loads \ {r}
      /\ UNCHANGED <<events, latest, tab, export>>
  BY DEF LandLoad
<1>3. CASE r.mine # latest
  <2>1. list' = list /\ tab' = MoreSettled(r)
    BY <1>2, <1>3 DEF LandLoad, MoreSettled
  <2> QED
    BY <1>2, <2>1, OneCallLess
<1>4. CASE r.mine = latest
  <2>1. list' = [rows |-> r.rows, next |-> r.next, filter |-> list.filter]
    BY <1>1, <1>4 DEF LandLoad
  <2>2. /\ list'.rows = r.rows /\ list'.next = r.next /\ list'.filter = list.filter
        /\ list' \in Lists
    BY <1>1, <2>1 DEF Lists
  <2>3. AnswerFits(r) /\ LoadFits(r)
    BY <1>1 DEF CallsFit
  <2>4. r.filter = list.filter /\ \A x \in Nat : Cursor(x) => r.rows # <<>> /\ LastOf(r.rows) >= x
    BY <1>2, <1>4, <2>3 DEF LoadFits
  <2>5. ScreenReadsDown'
    <3>1. Down(list.rows, list.filter)'
      BY <1>2, <2>2, <2>3, <2>4 DEF AnswerFits, Down, Matching
    <3>2. r.next # 0 => Full(list.filter, list.next)'
      BY <1>2, <2>2, <2>3, <2>4 DEF AnswerFits, Full, Matching
    <3> QED
      BY <1>2, <2>2, <2>3, <3>1, <3>2 DEF AnswerFits, ScreenReadsDown, LastOf
  <2> QED
    BY <1>2, <1>4, <2>2, <2>4, <2>5, ListReplaced DEF LastOf
<1> QED
  BY <1>3, <1>4

LEMMA FailFits ==
    ASSUME ScreenSide, NEW r \in loads, ReadFails(r)
    PROVE  ScreenSide'
<1>1. /\ ListTypes /\ list.filter \in Filters
      /\ list = [rows |-> list.rows, next |-> list.next, filter |-> list.filter]
  BY FieldsOfReads DEF ScreenSide
<1>2. /\ loads' = loads \ {r} /\ tab' = MoreSettled(r)
      /\ UNCHANGED <<events, latest, since, export>>
  BY DEF ReadFails
<1>3. CASE ~(r.kind = "load" /\ r.mine = latest)
  <2>1. list' = list
    BY <1>3 DEF ReadFails
  <2> QED
    BY <1>2, <2>1, OneCallLess
<1>4. CASE r.kind = "load" /\ r.mine = latest
  <2>1. list' = [rows |-> <<>>, next |-> 0, filter |-> list.filter]
    BY <1>1, <1>4 DEF ReadFails
  <2>2. /\ list'.rows = <<>> /\ list'.next = 0 /\ list'.filter = list.filter /\ list' \in Lists
    BY <1>1, <2>1 DEF Lists
  <2>3. tab' = tab
    BY <1>2, <1>4 DEF MoreSettled
  <2>4. ScreenReadsDown'
    BY <2>2 DEF ScreenReadsDown, Down
  <2> QED
    BY <1>2, <1>4, <2>2, <2>3, <2>4, ListReplaced
<1> QED
  BY <1>3, <1>4

\* A page below what a list ends at goes on reading down.
LEMMA PageGoesUnder ==
    ASSUME NEW s \in Seq(EventIds), NEW t \in Seq(EventIds), NEW before \in Nat, NEW f,
           Down(s, f), Down(t, f),
           s # <<>> => LastOf(s) >= before,
           \A i \in 1..Len(t) : t[i] < before
    PROVE  /\ s \o t \in Seq(EventIds) /\ Down(s \o t, f)
           /\ t # <<>> => s \o t # <<>> /\ LastOf(s \o t) = LastOf(t) /\ LastOf(t) < before
<1> DEFINE joined == s \o t
           a == Len(s)
           b == Len(t)
<1>1. /\ joined \in Seq(EventIds) /\ Len(joined) = a + b /\ a \in Nat /\ b \in Nat
      /\ \A i \in 1..(a + b) : joined[i] = IF i <= a THEN s[i] ELSE t[i - a]
      /\ EventIds \subseteq Nat
  BY ConcatProperties, ListBounds DEF EventIds
<1>2. /\ \A i \in 1..a : s[i] \in Matching(f) /\ s[i] \in Nat
      /\ \A i \in 1..(a - 1) : s[i] > s[i + 1]
      /\ \A i \in 1..b : t[i] \in Matching(f) /\ t[i] \in Nat /\ t[i] < before
      /\ \A i \in 1..(b - 1) : t[i] > t[i + 1]
  <2>1. /\ \A i \in 1..a : s[i] \in Nat
        /\ \A i \in 1..b : t[i] \in Nat
    <3>1. /\ \A i \in 1..a : s[i] \in EventIds
          /\ \A i \in 1..b : t[i] \in EventIds
      OBVIOUS
    <3> QED
      BY <1>1, <3>1
  <2>2. /\ \A i \in 1..a : s[i] \in Matching(f)
        /\ \A i \in 1..(a - 1) : s[i] > s[i + 1]
        /\ \A i \in 1..b : t[i] \in Matching(f)
        /\ \A i \in 1..(b - 1) : t[i] > t[i + 1]
    BY Zenon DEF Down
  <2> HIDE DEF a, b
  <2> QED
    BY <2>1, <2>2 DEF b
<1>3. a # 0 => s[a] >= before
  BY <1>1 DEF LastOf
<1>4. joined # <<>> <=> a + b # 0
  BY <1>1
<1>5. t # <<>> <=> b # 0
  OBVIOUS
<1> HIDE DEF joined, a, b
<1>6. ASSUME NEW i \in 1..(a + b) PROVE joined[i] \in Matching(f)
  <2>1. CASE i <= a
    <3>1. i \in 1..a /\ joined[i] = s[i]
      BY <1>1, <2>1
    <3> QED
      BY <1>2, <3>1
  <2>2. CASE ~(i <= a)
    <3>1. i - a \in 1..b /\ joined[i] = t[i - a]
      BY <1>1, <2>2
    <3> QED
      BY <1>2, <3>1
  <2> QED
    BY <2>1, <2>2
<1>7. ASSUME NEW i \in 1..(a + b - 1) PROVE joined[i] > joined[i + 1]
  <2>1. i \in 1..(a + b) /\ i + 1 \in 1..(a + b)
    BY <1>1
  <2>2. CASE i + 1 <= a
    <3>1. i \in 1..(a - 1) /\ joined[i] = s[i] /\ joined[i + 1] = s[i + 1]
      BY <1>1, <2>1, <2>2
    <3> QED
      BY <1>2, <3>1
  <2>3. CASE i = a
    <3>1. /\ joined[i] = s[a] /\ joined[i + 1] = t[i + 1 - a] /\ i + 1 - a = 1
          /\ 1 \in 1..b /\ a \in 1..a /\ a # 0
      BY <1>1, <2>1, <2>3
    <3>2. s[a] >= before /\ t[1] < before /\ s[a] \in Nat /\ t[1] \in Nat
      BY <1>2, <1>3, <3>1
    <3>3. joined[i + 1] = t[1]
      BY <3>1, Zenon
    <3> DEFINE up == joined[i]
               down == joined[i + 1]
    <3>4. up >= before /\ down < before /\ up \in Nat /\ down \in Nat
      BY <3>1, <3>2, <3>3
    <3> HIDE DEF up, down
    <3>5. up > down
      BY <3>4
    <3> QED
      BY <3>5 DEF up, down
  <2>4. CASE i > a
    <3>1. /\ i - a \in 1..(b - 1) /\ joined[i] = t[i - a] /\ joined[i + 1] = t[i + 1 - a]
          /\ i + 1 - a = (i - a) + 1
      BY <1>1, <2>1, <2>4
    <3> QED
      BY <1>2, <3>1
  <2> QED
    BY <1>1, <2>1, <2>2, <2>3, <2>4
<1>8. Down(joined, f)
  <2>1. Len(joined) = a + b
    BY <1>1
  <2>2. /\ \A i \in 1..(a + b) : joined[i] \in Matching(f)
        /\ \A i \in 1..(a + b - 1) : joined[i] > joined[i + 1]
    BY <1>6, <1>7, Zenon
  <2> DEFINE all == 1..(a + b)
             butLast == 1..(a + b - 1)
  <2>3. /\ \A i \in all : joined[i] \in Matching(f)
        /\ \A i \in butLast : joined[i] > joined[i + 1]
    BY <2>2, Zenon
  <2>4. all = 1..Len(joined) /\ butLast = 1..(Len(joined) - 1)
    BY <1>1, <2>1
  <2> HIDE DEF all, butLast
  <2> QED
    BY <2>3, <2>4, Zenon DEF Down
<1>9. ASSUME b # 0 PROVE joined # <<>> /\ joined[a + b] = t[b] /\ t[b] < before
  <2>1. a + b \in 1..(a + b) /\ ~(a + b <= a) /\ a + b - a = b /\ a + b # 0 /\ b \in 1..b
    BY <1>1, <1>9
  <2> QED
    BY <1>1, <1>2, <1>4, <2>1
<1>10. t # <<>> => joined # <<>> /\ LastOf(joined) = LastOf(t) /\ LastOf(t) < before
  BY <1>1, <1>5, <1>9 DEF LastOf, b
<1> QED
  BY <1>1, <1>8, <1>10 DEF joined

\* The page goes under the last row shown: a reload that lands later still ends above it.
LEMMA LandMoreFits ==
    ASSUME ScreenSide, NEW r \in loads, LandMore(r)
    PROVE  ScreenSide'
<1>1. /\ ListTypes /\ CallsApart /\ ScreenReadsDown /\ CallsFit
      /\ list = [rows |-> list.rows, next |-> list.next, filter |-> list.filter]
      /\ list.rows \in Seq(EventIds) /\ list.filter \in Filters /\ EventIds \subseteq Nat
      /\ r.rows \in Seq(EventIds) /\ r.next \in Nat /\ r.before \in Nat
  BY FieldsOfReads DEF ScreenSide
<1>2. /\ r.kind = "more" /\ r.at = "answered" /\ loads' = loads \ {r}
      /\ tab' = MoreSettled(r) /\ UNCHANGED <<events, latest, export>>
  BY DEF LandMore
<1>3. CASE r.mine # latest
  <2>1. list' = list
    BY <1>3 DEF LandMore, StillOnScreen
  <2> QED
    BY <1>2, <2>1, OneCallLess
<1>4. CASE r.mine = latest
  <2> DEFINE joined == list.rows \o r.rows
  <2>1. list' = [rows |-> joined, next |-> r.next, filter |-> list.filter]
    BY <1>1, <1>4 DEF LandMore, StillOnScreen
  <2>2. AnswerFits(r) /\ MoreFits(r) /\ Down(list.rows, list.filter)
    BY <1>1 DEF CallsFit, ScreenReadsDown
  <2>3. /\ r.filter = list.filter /\ r.visit = tab.visit /\ r.before # 0
        /\ list.rows # <<>> => LastOf(list.rows) >= r.before
    BY <1>2, <1>4, <2>2 DEF MoreFits
  <2>4. /\ Down(r.rows, list.filter)
        /\ \A i \in 1..Len(r.rows) : r.rows[i] < r.before
        /\ r.next # 0 => r.rows # <<>> /\ r.next = LastOf(r.rows) /\ Full(list.filter, r.next)
    BY <1>2, <2>2, <2>3 DEF AnswerFits
  <2>5. /\ joined \in Seq(EventIds) /\ Down(joined, list.filter)
        /\ r.rows # <<>> => /\ joined # <<>> /\ LastOf(joined) = LastOf(r.rows)
                            /\ LastOf(r.rows) < r.before
    BY <1>1, <2>2, <2>3, <2>4, PageGoesUnder
  <2> HIDE DEF joined
  <2>6. Down(joined, list.filter)
    BY <2>5
  <2>7. r.next # 0 => /\ joined # <<>> /\ r.next = LastOf(joined)
                      /\ r.next < r.before
    BY <2>4, <2>5
  <2>8. /\ list'.rows = joined /\ list'.next = r.next /\ list'.filter = list.filter
        /\ list' \in Lists
    BY <1>1, <2>1, <2>5 DEF Lists
  <2>9. tab' \in Visits /\ tab'.visit = tab.visit
    <3>1. tab \in Visits
      BY <1>1 DEF ListTypes
    <3> QED
      BY <1>2, <3>1 DEF MoreSettled, Visits
  <2>10. \A s \in loads' : s \in loads /\ ~(s.kind = "more" /\ s.visit = tab.visit)
    BY <1>1, <1>2, <2>3 DEF CallsApart
  <2>11. ListTypes'
    BY <1>1, <1>2, <2>8, <2>9 DEF ListTypes
  <2>12. CallsApart'
    BY <1>1, <1>2, <2>9, <2>10 DEF CallsApart
  <2>13. ScreenReadsDown'
    <3>1. Down(list.rows, list.filter)'
      BY <2>6, <2>8 DEF Down, Matching
    <3>2. r.next # 0 => Full(list.filter, list.next)'
      BY <1>2, <2>4, <2>8 DEF Full, Matching
    <3> QED
      BY <2>7, <2>8, <3>1, <3>2 DEF ScreenReadsDown, LastOf
  <2>14. ASSUME NEW s \in loads' PROVE AnswerFits(s)' /\ MoreFits(s)' /\ LoadFits(s)'
    <3>1. AnswerFits(s) /\ MoreFits(s) /\ LoadFits(s)
      BY <1>1, <1>2 DEF CallsFit
    <3>2. AnswerFits(s)'
      BY <1>2, <3>1 DEF AnswerFits, Down, Full, Matching
    <3>3. ~(s.kind = "more" /\ s.mine = latest)
      BY <2>10, <3>1 DEF MoreFits
    <3>4. LoadFits(s)'
      <4> SUFFICES ASSUME s.kind = "load", s.mine = latest
                   PROVE  LoadFits(s)'
        BY <1>2 DEF LoadFits
      <4>1. /\ s.filter = list.filter /\ s.before = 0
            /\ s.at = "answered" => \A x \in Nat : Cursor(x) => s.rows # <<>> /\ LastOf(s.rows) >= x
        BY <3>1 DEF LoadFits
      <4>2. Cursor(r.before)
        BY <1>2, <1>4, <2>3 DEF Cursor
      <4>3. ASSUME s.at = "answered", NEW x \in Nat, Cursor(x)'
            PROVE  s.rows # <<>> /\ LastOf(s.rows) >= x
        <5>1. x = r.next /\ r.next # 0
          BY <1>2, <2>8, <2>10, <4>3, <1>1 DEF Cursor, CallsFit, MoreFits
        <5>2. s.rows # <<>> /\ LastOf(s.rows) >= r.before
          BY <1>1, <4>1, <4>2, <4>3
        <5>3. LastOf(s.rows) \in Nat
          <6>1. s \in loads
            BY <2>10
          <6>2. s.rows \in Seq(EventIds)
            BY <1>1, <6>1, FieldsOfReads
          <6> QED
            BY <5>2, <6>2, LastIsARow
        <5> QED
          BY <1>1, <2>7, <5>1, <5>2, <5>3
      <4> QED
        BY <2>8, <4>1, <4>3 DEF LoadFits
    <3> QED
      BY <1>2, <3>2, <3>3, <3>4 DEF MoreFits
  <2> QED
    BY <2>11, <2>12, <2>13, <2>14 DEF ScreenSide, CallsFit
<1> QED
  BY <1>3, <1>4

\* The export goes on from where its last page ended: what it held at its start is on a page
\* already, or still below.
LEMMA ExportPageFits ==
    ASSUME ListTypes, ExportFits, ExportPage
    PROVE  export' \in Exports /\ ExportFits'
<1> DEFINE rows == PageRows("everything", export.before)
           next == PageNext("everything", export.before)
           joined == export.rows \o rows
           saw == IF export.at = "new" THEN events ELSE export.saw
           at == IF next = 0 THEN "done" ELSE "paging"
<1>1. /\ events \subseteq EventIds /\ EventIds \subseteq Nat
      /\ export.rows \in Seq(EventIds) /\ export.before \in Nat /\ export.saw \in SUBSET EventIds
      /\ export.at \in {"new", "paging", "done"}
  BY FieldsOfReads DEF ListTypes, Exports
<1>2. /\ export.at # "done" /\ events' = events
      /\ export' = [at |-> at, rows |-> joined, before |-> next, saw |-> saw]
  BY DEF ExportPage, NextCursor
<1>3. /\ rows \in Seq(EventIds) /\ next \in Nat
      /\ \A e \in events \cap Matching("everything") :
             export.before = 0 \/ e < export.before =>
                 (\E i \in 1..Len(rows) : rows[i] = e) \/ (next # 0 /\ e < next)
  BY <1>1, PageAndCursor
<1>4. Matching("everything") = EventIds
  BY DEF Matching
<1> HIDE DEF rows, next
<1>5. joined \in Seq(EventIds) /\ ToSet(joined) = ToSet(export.rows) \cup ToSet(rows)
  <2> DEFINE s == export.rows
             a == Len(s)
             b == Len(rows)
  <2>1. /\ joined \in Seq(EventIds) /\ Len(joined) = a + b /\ a \in Nat /\ b \in Nat
        /\ \A i \in 1..(a + b) : joined[i] = IF i <= a THEN s[i] ELSE rows[i - a]
    BY <1>1, <1>3, ConcatProperties
  <2>2. DOMAIN joined = 1..(a + b) /\ DOMAIN s = 1..a /\ DOMAIN rows = 1..b
    BY <1>1, <1>3, <2>1
  <2> HIDE DEF s, a, b, joined
  <2>3. ASSUME NEW i \in DOMAIN joined PROVE joined[i] \in ToSet(s) \cup ToSet(rows)
    <3>1. CASE i <= a
      BY <2>1, <2>2, <3>1 DEF ToSet
    <3>2. CASE ~(i <= a)
      <4>1. i - a \in 1..b
        BY <2>1, <2>2, <3>2
      <4>2. joined[i] = rows[i - a]
        BY <2>1, <2>2, <3>2
      <4> QED
        BY <2>2, <4>1, <4>2 DEF ToSet
    <3> QED
      BY <3>1, <3>2
  <2>4. ASSUME NEW i \in DOMAIN s PROVE s[i] \in ToSet(joined)
    <3>1. i \in 1..(a + b) /\ i <= a
      BY <2>1, <2>2
    <3>2. joined[i] = s[i]
      BY <2>1, <3>1
    <3> QED
      BY <2>2, <3>1, <3>2 DEF ToSet
  <2>5. ASSUME NEW i \in DOMAIN rows PROVE rows[i] \in ToSet(joined)
    <3>1. i + a \in 1..(a + b) /\ ~(i + a <= a) /\ (i + a) - a = i
      BY <2>1, <2>2
    <3>2. joined[i + a] = rows[i]
      BY <2>1, <3>1
    <3> QED
      BY <2>2, <3>1, <3>2 DEF ToSet
  <2>6. ToSet(joined) = ToSet(s) \cup ToSet(rows)
    BY <2>3, <2>4, <2>5 DEF ToSet
  <2> QED
    BY <2>1, <2>6 DEF s
<1> HIDE DEF joined
<1>6. saw \in SUBSET events
  BY <1>1, <1>2 DEF ExportFits
<1>7. ASSUME NEW e \in saw PROVE e \in ToSet(joined) \/ (next # 0 /\ e < next)
  <2>1. e \in events \cap Matching("everything")
    BY <1>1, <1>4, <1>6
  <2>2. e \in ToSet(export.rows) \/ export.before = 0 \/ e < export.before
    BY <1>1, <1>2 DEF ExportFits
  <2>3. (\E i \in 1..Len(rows) : rows[i] = e) => e \in ToSet(rows)
    <3>1. DOMAIN rows = 1..Len(rows)
      BY <1>3
    <3> QED
      BY <3>1 DEF ToSet
  <2> QED
    BY <1>3, <1>5, <2>1, <2>2, <2>3
<1> HIDE DEF saw
<1>8. export' \in Exports
  <2>1. at \in {"new", "paging", "done"} /\ saw \in SUBSET EventIds
    BY <1>1, <1>6
  <2> QED
    BY <1>2, <1>3, <1>5, <2>1 DEF Exports
<1>9. ExportFits'
  <2>1. /\ export'.at = at /\ export'.rows = joined /\ export'.before = next
        /\ export'.saw = saw
    BY <1>2
  <2>2. CASE next = 0
    BY <1>7, <2>1, <2>2 DEF ExportFits
  <2>3. CASE next # 0
    BY <1>2, <1>6, <1>7, <2>1, <2>3 DEF ExportFits
  <2> QED
    BY <2>2, <2>3
<1> QED
  BY <1>8, <1>9

LEMMA ListInvHoldsAtFirst == ListInit => ListInv
<1> SUFFICES ASSUME ListInit PROVE ListInv
  OBVIOUS
<1>1. /\ events = {} /\ loads = {} /\ latest = 0
      /\ list = [rows |-> <<>>, next |-> 0, filter |-> "everything"]
      /\ tab = [visit |-> 1, more |-> FALSE]
      /\ export = [at |-> "new", rows |-> <<>>, before |-> 0, saw |-> {}]
  BY DEF ListInit
<1>2. ListTypes
  BY <1>1 DEF ListTypes, Lists, Visits, Exports, Filters
<1>3. list.rows = <<>> /\ list.next = 0 /\ export.at = "new" /\ export.before = 0
  BY <1>1
<1> QED
  BY <1>1, <1>2, <1>3 DEF ListInv, CallsApart, ScreenReadsDown, CallsFit, ExportFits, Down

LEMMA ListStep == ListInv /\ [ListNext]_listVars => ListInv'
<1> SUFFICES ASSUME ListInv, [ListNext]_listVars PROVE ListInv'
  OBVIOUS
<1>1. ScreenSide /\ ExportFits /\ ListTypes
  BY DEF ListInv, ScreenSide
<1>2. ASSUME ScreenSide', ExportFits' PROVE ListInv'
  BY <1>2 DEF ListInv, ScreenSide
<1>3. ASSUME UNCHANGED export, events \subseteq events' PROVE ExportFits'
  BY <1>1, <1>3 DEF ExportFits
<1>4. ASSUME NEW e \in EventIds, EventCommits(e) PROVE ListInv'
  <2>1. /\ events \subseteq events' /\ events' \subseteq EventIds
        /\ UNCHANGED <<list, latest, loads, tab, export>> /\ export' \in Exports
    BY <1>1, <1>4 DEF EventCommits, ListTypes
  <2> QED
    BY <1>1, <1>2, <1>3, <2>1, CommitsFit
<1>5. CASE ExportPage
  <2>1. export' \in Exports /\ ExportFits'
    BY <1>1, <1>5, ExportPageFits
  <2>2. /\ events \subseteq events' /\ events' \subseteq EventIds
        /\ UNCHANGED <<list, latest, loads, tab>>
    BY <1>1, <1>5 DEF ExportPage, ListTypes
  <2> QED
    BY <1>1, <1>2, <2>1, <2>2, CommitsFit
<1>6. CASE UNCHANGED listVars
  <2>1. /\ UNCHANGED <<events, list, latest, loads, tab, export>> /\ events' \subseteq EventIds
        /\ events \subseteq events' /\ export' \in Exports
    BY <1>1, <1>6 DEF listVars, ListTypes
  <2> QED
    BY <1>1, <1>2, <1>3, <2>1, CommitsFit
<1>7. ASSUME NEW f \in Filters, NEW fresh \in BOOLEAN, LoadAudit(f, fresh) PROVE ListInv'
  <2>1. UNCHANGED <<events, export>>
    BY <1>7 DEF LoadAudit
  <2> QED
    BY <1>1, <1>2, <1>3, <1>7, <2>1, LoadAuditFits
<1>8. CASE LoadMoreAudit
  <2>1. UNCHANGED <<events, export>>
    BY <1>8 DEF LoadMoreAudit
  <2> QED
    BY <1>1, <1>2, <1>3, <1>8, <2>1, LoadMoreFits
<1>9. CASE ReopenTab
  <2>1. UNCHANGED <<events, export>>
    BY <1>9 DEF ReopenTab
  <2> QED
    BY <1>1, <1>2, <1>3, <1>9, <2>1, ReopenFits
<1>10. ASSUME NEW r \in loads, ServeRead(r) \/ LandLoad(r) \/ LandMore(r) \/ ReadFails(r)
       PROVE  ListInv'
  <2>1. UNCHANGED <<events, export>>
    BY <1>10 DEF ServeRead, LandLoad, LandMore, ReadFails
  <2>2. ScreenSide'
    BY <1>1, <1>10, ServeFits, LandLoadFits, LandMoreFits, FailFits
  <2> QED
    BY <1>2, <1>3, <2>1, <2>2
<1> QED
  BY <1>4, <1>5, <1>6, <1>7, <1>8, <1>9, <1>10 DEF ListNext

\* Whatever order reloads, changes of filter, pages, failures and commits land in, and however
\* long the log and its pages are: the rows on screen are the current filter's, newest first and
\* none twice, and a finished export holds every event the log held when it began
\* (UI store/audit.ts; audit modules/audit/repo.ts page).
THEOREM ReadersAreToldTheTruth == ListSpec => []ReadersSeeTheLog
<1>1. ListInv => ReadersSeeTheLog
  BY DEF ListInv, ReadersSeeTheLog, ListReadsDown, ScreenReadsDown, Down, ExportMissesNothing,
         ExportFits
<1> QED
  BY <1>1, ListInvHoldsAtFirst, ListStep, PTL DEF ListSpec
=============================================================================
