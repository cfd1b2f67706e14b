----------------------------- MODULE AuditTrail -----------------------------
(***************************************************************************)
(* The audit trail: a write's event goes into the outbox with the write    *)
(* (api lib/audit.ts, lib/db.ts), an event about anything else is stored   *)
(* once the reply has gone (api plugins/audit.ts), and the audit service's *)
(* drainers move rows from the outbox into the log (audit lib/drain.ts,    *)
(* plugins/drainer.ts).                                                    *)
(*                                                                         *)
(* A row is bad when the drain can never store it: it was written by a     *)
(* build whose events this one does not parse, or Postgres refuses it for  *)
(* what it holds.  A notification, a reconnected listener and the poll     *)
(* timer all do one thing, kick the drainer, and only the timer is sure to *)
(* come: Kick stands for the three.                                        *)
(***************************************************************************)
EXTENDS Integers, FiniteSets

CONSTANTS
    AuditedWrites,  \* bound: audited write requests
    Drainers,       \* replicas of the audit service
    DrainBatch,     \* drainBatch
    MaxFaults       \* bound: failed passes, deaths, lost acknowledgements

VARIABLES
    auditReq,       \* each request: where it is, and what it did to the database
    outbox,         \* audit_outbox
    auditLog,       \* events
    deadLetters,    \* dead_letters
    stored,         \* history: every row ever committed to the outbox
    rowSeq,         \* the outbox's identity sequence
    drainPass,      \* each drainer: its pass, the rows it holds, again
    drainFaults

auditVars == <<auditReq, outbox, auditLog, deadLetters, stored, rowSeq, drainPass, drainFaults>>
requestSide == <<auditReq, stored, rowSeq>>
drainSide == <<auditLog, deadLetters, drainPass>>

OutboxRow(id, w, outcome, bad) == [id |-> id, of |-> w, outcome |-> outcome, bad |-> bad]
NoRowYet == OutboxRow(0, "none", "none", FALSE)

-----------------------------------------------------------------------------
(* The API: one audited write.                                             *)

\* The request is refused, or fails, before any transaction of its own.
AnswerRefused(w, how) ==
    /\ auditReq[w].at = "new"
    /\ auditReq' = [auditReq EXCEPT ![w].at = how]
    /\ UNCHANGED <<outbox, stored, rowSeq, drainFaults, drainSide>>

RecordAuditOnThePool(w, bad) ==
    LET row == OutboxRow(rowSeq + 1, w, "done", bad)
    IN  /\ auditReq[w].at = "new"
        /\ rowSeq' = rowSeq + 1
        /\ outbox' = outbox \cup {row}
        /\ stored' = stored \cup {row}
        /\ auditReq' = [auditReq EXCEPT ![w].at = "tx", ![w].row = row]
        /\ UNCHANGED <<drainFaults, drainSide>>

\* recordAudit, straight after the idempotency record and in the write's own transaction.
RecordAudit(w, bad) ==
    /\ auditReq[w].at = "new"
    /\ rowSeq' = rowSeq + 1
    /\ auditReq' = [auditReq EXCEPT ![w].at = "tx",
                                   ![w].row = OutboxRow(rowSeq + 1, w, "done", bad)]
    /\ UNCHANGED <<outbox, stored, drainFaults, drainSide>>

\* COMMIT.  Its acknowledgement may be lost: the request then ends as an error, not recorded.
CommitWrite(w, acked) ==
    /\ auditReq[w].at = "tx"
    /\ outbox' = outbox \cup {auditReq[w].row}
    /\ stored' = stored \cup {auditReq[w].row}
    /\ auditReq' = [auditReq EXCEPT ![w].at = IF acked THEN "over" ELSE "error",
                                   ![w].did = "recorded"]
    /\ acked \/ drainFaults < MaxFaults
    /\ drainFaults' = IF acked THEN drainFaults ELSE drainFaults + 1
    /\ UNCHANGED <<rowSeq, drainSide>>

\* The transaction fails after the event was inserted: the event goes with it.
RollbackWrite(w) ==
    /\ auditReq[w].at = "tx"
    /\ auditReq' = [auditReq EXCEPT ![w].at = "error"]
    /\ UNCHANGED <<outbox, stored, rowSeq, drainFaults, drainSide>>

\* Production: an answer that could not be recorded in a transaction goes out all the same.
CommitUnrecorded(w) ==
    /\ auditReq[w].at = "new"
    /\ auditReq' = [auditReq EXCEPT ![w].at = "done", ![w].did = "unrecorded"]
    /\ UNCHANGED <<outbox, stored, rowSeq, drainFaults, drainSide>>

\* onResponse: a reply that stored no event of its own has one stored now, on the pool.
StoreAfterReply(w, bad) ==
    LET row == OutboxRow(rowSeq + 1, w, auditReq[w].at, bad)
    IN  /\ auditReq[w].at \in {"refused", "error", "done"}
        /\ rowSeq' = rowSeq + 1
        /\ outbox' = outbox \cup {row}
        /\ stored' = stored \cup {row}
        /\ auditReq' = [auditReq EXCEPT ![w].at = "over"]
        /\ UNCHANGED <<drainFaults, drainSide>>

\* The insert fails and is swallowed, the pod dies first, or the reply is no event: a 401, or a
\* replay of an answer already logged.
NothingStored(w) ==
    /\ auditReq[w].at \in {"refused", "error", "done"}
    /\ auditReq' = [auditReq EXCEPT ![w].at = "over"]
    /\ UNCHANGED <<outbox, stored, rowSeq, drainFaults, drainSide>>

-----------------------------------------------------------------------------
(* The drain.                                                              *)

\* for update skip locked: the oldest rows nobody else's pass holds.
Unheld(d) == outbox \ UNION {drainPass[e].rows : e \in Drainers \ {d}}
OldestRows(rows) ==
    {r \in rows : Cardinality({q \in rows : q.id < r.id}) < DrainBatch}

\* drainOnce: rows parsed and taken by events, and all the others, which go to dead_letters.
Storable(rows) ==
    {r \in rows : ~r.bad /\ \A e \in auditLog : e.id # r.id}
SetAside(rows) == rows \ Storable(rows)

NoPass == [at |-> "idle", rows |-> {}, again |-> FALSE]

\* kick: one pass at a time in a process, and one more owed when it is asked meanwhile.
Kicked(d) ==
    [drainPass EXCEPT ![d] = IF @.at = "idle" THEN [NoPass EXCEPT !.at = "due"]
                        ELSE [@ EXCEPT !.again = TRUE]]

\* kick, while there is something to drain (a pass over nothing changes nothing).
KickDrainer(d) ==
    /\ outbox # {} \/ drainPass[d].at # "idle"
    /\ drainPass' = Kicked(d)
    /\ UNCHANGED <<requestSide, outbox, auditLog, deadLetters, drainFaults>>

TakeRows(d) ==
    /\ drainPass[d].at = "due"
    /\ drainPass' = [drainPass EXCEPT ![d] = [at |-> "taken", rows |-> OldestRows(Unheld(d)),
                                            again |-> FALSE]]
    /\ UNCHANGED <<requestSide, outbox, auditLog, deadLetters, drainFaults>>

\* A full pass, or a kick that came meanwhile, means another.
AfterPass(d) ==
    IF drainPass[d].again \/ Cardinality(drainPass[d].rows) >= DrainBatch
    THEN [NoPass EXCEPT !.at = "due"] ELSE NoPass

PassCommitsWhole(d) ==
    /\ drainPass[d].at = "taken"
    /\ \A r \in drainPass[d].rows : ~r.bad
    /\ outbox' = outbox \ drainPass[d].rows
    /\ auditLog' = auditLog \cup Storable(drainPass[d].rows)
    /\ deadLetters' = deadLetters \cup SetAside(drainPass[d].rows)
    /\ drainPass' = [drainPass EXCEPT ![d] = AfterPass(d)]
    /\ UNCHANGED <<requestSide, drainFaults>>

\* One transaction: out of the outbox, into the log or the dead letters.
PassCommits(d) ==
    /\ drainPass[d].at = "taken"
    /\ outbox' = outbox \ drainPass[d].rows
    /\ auditLog' = auditLog \cup Storable(drainPass[d].rows)
    /\ deadLetters' = deadLetters \cup SetAside(drainPass[d].rows)
    /\ drainPass' = [drainPass EXCEPT ![d] = AfterPass(d)]
    /\ UNCHANGED <<requestSide, drainFaults>>

PassFailsHalfway(d) ==
    /\ drainPass[d].at = "taken"
    /\ drainFaults < MaxFaults
    /\ drainFaults' = drainFaults + 1
    /\ auditLog' = auditLog \cup Storable(drainPass[d].rows)
    /\ drainPass' = [drainPass EXCEPT ![d] = NoPass]
    /\ UNCHANGED <<requestSide, outbox, deadLetters>>

\* The pass fails (a dropped connection, a timeout): rolled back whole, and not retried at once.
PassFails(d) ==
    /\ drainPass[d].at = "taken"
    /\ drainFaults < MaxFaults
    /\ drainFaults' = drainFaults + 1
    /\ drainPass' = [drainPass EXCEPT ![d] = NoPass]
    /\ UNCHANGED <<requestSide, outbox, auditLog, deadLetters>>

\* A replica dies at any point and comes back; onReady drains what piled up meanwhile.
DrainerRestarts(d) ==
    /\ drainFaults < MaxFaults
    /\ drainFaults' = drainFaults + 1
    /\ drainPass' = [drainPass EXCEPT ![d] = [NoPass EXCEPT !.at = "due"]]
    /\ UNCHANGED <<requestSide, outbox, auditLog, deadLetters>>

-----------------------------------------------------------------------------
AuditInit ==
    /\ auditReq = [w \in AuditedWrites |-> [at |-> "new", did |-> "nothing", row |-> NoRowYet]]
    /\ outbox = {} /\ auditLog = {} /\ deadLetters = {} /\ stored = {}
    /\ rowSeq = 0
    /\ drainPass = [d \in Drainers |-> NoPass]
    /\ drainFaults = 0

AuditNext ==
    \/ \E w \in AuditedWrites :
        \/ \E how \in {"refused", "error"} : AnswerRefused(w, how)
        \/ \E bad \in BOOLEAN : RecordAudit(w, bad) \/ StoreAfterReply(w, bad)
        \/ \E acked \in BOOLEAN : CommitWrite(w, acked)
        \/ RollbackWrite(w) \/ CommitUnrecorded(w) \/ NothingStored(w)
    \/ \E d \in Drainers :
        \/ KickDrainer(d) \/ TakeRows(d) \/ PassCommits(d) \/ PassFails(d) \/ DrainerRestarts(d)

\* The timer fires again and again, and a pass once begun ends.
DrainFairness ==
    \A d \in Drainers :
        /\ WF_auditVars(KickDrainer(d))
        /\ WF_auditVars(TakeRows(d))
        /\ WF_auditVars(PassCommits(d))

AuditSpec == AuditInit /\ [][AuditNext]_auditVars /\ DrainFairness

-----------------------------------------------------------------------------
(***************************************************************************)
(* Whatever fails and whoever dies, a row once committed is in exactly one *)
(* of the outbox, the log and the dead letters: drainOnce moves it in one  *)
(* transaction, and replicas skip what another holds.                      *)
(***************************************************************************)
EachRowInOnePlace ==
    /\ outbox \cup auditLog \cup deadLetters = stored
    /\ outbox \cap (auditLog \cup deadLetters) = {}
    /\ auditLog \cap deadLetters = {}

(***************************************************************************)
(* The trail tells what happened: a write whose transaction recorded its   *)
(* answer has exactly one done event, and a request that changed nothing   *)
(* has none, however its commit, its reply and the hook after it ended.    *)
(***************************************************************************)
TrailTellsTheWrites ==
    \A w \in AuditedWrites :
        LET done == {r \in stored : r.of = w /\ r.outcome = "done"}
        IN  /\ auditReq[w].did = "recorded" => Cardinality(done) = 1
            /\ auditReq[w].did = "nothing" => done = {}

(***************************************************************************)
(* Every row leaves the outbox in the end, though passes fail, replicas    *)
(* die, notifications are lost and Postgres refuses some rows for ever.    *)
(***************************************************************************)
EveryRowLeaves ==
    \A n \in 1..(2 * Cardinality(AuditedWrites)) :
        (\E r \in outbox : r.id = n) ~> (\A r \in outbox : r.id # n)

\* The trail is whole: of what was written nothing is left out, and on the way to the log nothing is
\* lost or doubled, whichever drainer dies or stumbles where (lib/audit.ts, drain.ts).
TrailIsWhole == EachRowInOnePlace /\ TrailTellsTheWrites
=============================================================================
