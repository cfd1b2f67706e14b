----------------------------- MODULE Idempotency -----------------------------
(***************************************************************************)
(* One Idempotency-Key of one user: the claim row a write must hold, the   *)
(* write's own transaction that fills it in, the response hook that picks  *)
(* up what no transaction recorded, and the takeover of a claim whose      *)
(* owner never came back (plugins/idempotency*.ts,                         *)
(* lib/idempotency-record.ts, lib/db.ts).                                  *)
(*                                                                         *)
(* Keys never meet, so one is enough.  An attempt is one HTTP request that *)
(* carries it: the till's first try or a retry, on any pod, two of them at *)
(* once as well.  One statement on the row is one action; the write and    *)
(* its record commit together and are one action.  A response is named by  *)
(* the attempt whose write produced it; responses fit their schema.        *)
(***************************************************************************)
EXTENDS Integers, FiniteSets

CONSTANTS
    Attempts,       \* bound: requests that carry the key
    Bodies,         \* what a request asks for, as its hash
    MAX_ATTEMPTS,   \* how often resolveClaim tries for the row (3 in the code)
    Strict,         \* config.env # "production"
    MayOutlive,     \* whether a write may still run CLAIM_STALE_MS after its claim
    MayPause,       \* whether that long may pass between a request's lookup and its takeover
    None

ASSUME PassAssumption == MAX_ATTEMPTS \in Nat \ {0}
ASSUME ModeAssumption == Strict \in BOOLEAN /\ MayOutlive \in BOOLEAN /\ MayPause \in BOOLEAN
ASSUME NameAssumption ==
    /\ None \notin Attempts \cup Bodies \cup {"refused"}
    /\ \A said \in {"nothing", "busy", "conflict", "refused", "failed"} : said \notin Attempts

VARIABLES
    row,        \* the key's row of idempotency_keys
    att,        \* each request, and how far it is
    told,       \* what each request's client was answered
    effects     \* the attempts whose write committed

vars == <<row, att, told, effects>>

\* A row with status_code = 0 is a "claim", and "stale" once CLAIM_STALE_MS old; with a response
\* it is "answered", and "committed" if the write's own transaction stamped committed_at.
NoRow == [st |-> "none", body |-> None, answer |-> None]

Claim(body) == [st |-> "claim", body |-> body, answer |-> None]

Uncommitted == row.st \in {"claim", "stale", "answered"}

Working == {"running", "sending"}

Answer(a, said) ==
    /\ att' = [att EXCEPT ![a].at = "done"]
    /\ told' = [told EXCEPT ![a] = said]

-----------------------------------------------------------------------------
(* resolveClaim: a request proceeds only while it holds the row.           *)

Arrive(a, body) ==
    /\ att[a].at = "off"
    /\ att' = [att EXCEPT ![a] = [@ EXCEPT !.at = "insert", !.body = body]]
    /\ UNCHANGED <<row, told, effects>>

InsertAnyway(a) ==
    /\ att[a].at = "insert"
    /\ row' = Claim(att[a].body)
    /\ att' = [att EXCEPT ![a].at = "running"]
    /\ UNCHANGED <<told, effects>>

InsertWins(a) ==
    /\ att[a].at = "insert"
    /\ row.st = "none"
    /\ row' = Claim(att[a].body)
    /\ att' = [att EXCEPT ![a].at = "running"]
    /\ UNCHANGED <<told, effects>>

InsertLoses(a) ==
    /\ att[a].at = "insert"
    /\ row.st # "none"
    /\ att' = [att EXCEPT ![a].at = "lookup"]
    /\ UNCHANGED <<row, told, effects>>

\* Around again, or "still being processed" once the tries are used up.
TryAgain(a) ==
    IF att[a].pass + 1 < MAX_ATTEMPTS
    THEN /\ att' = [att EXCEPT ![a] = [@ EXCEPT !.at = "insert", !.pass = att[a].pass + 1]]
         /\ UNCHANGED told
    ELSE Answer(a, "busy")

\* The row went between the insert and the lookup: never run without one.
FoundNothing(a) == TryAgain(a)

AnyRequest(a) == TRUE

SameRequest(a) == row.body = att[a].body

Lookup(a) ==
    /\ att[a].at = "lookup"
    /\ \/ row.st = "none" /\ FoundNothing(a)
       \/ row.st # "none" /\ ~SameRequest(a) /\ Answer(a, "conflict")
       \/ row.st \in {"answered", "committed"} /\ SameRequest(a) /\ Answer(a, row.answer)
       \/ row.st = "claim" /\ SameRequest(a) /\ Answer(a, "busy")
       \/ /\ row.st = "stale" /\ SameRequest(a)
          /\ att' = [att EXCEPT ![a].at = "takeover"]
          /\ UNCHANGED told
    /\ UNCHANGED <<row, effects>>

\* The update's WHERE: still a claim, uncommitted and stale; whoever re-stamps it owns it.
Abandoned == row.st = "stale"

TakeOverWins(a) ==
    /\ att[a].at = "takeover"
    /\ Abandoned
    /\ row' = [row EXCEPT !.st = "claim"]
    /\ att' = [att EXCEPT ![a].at = "running"]
    /\ UNCHANGED <<told, effects>>

TakeOverLoses(a) ==
    /\ att[a].at = "takeover"
    /\ ~Abandoned
    /\ TryAgain(a)
    /\ UNCHANGED <<row, effects>>

\* CLAIM_STALE_MS have passed: the claim was made, or taken over, that long ago.
GrowStale ==
    /\ row.st = "claim"
    /\ MayOutlive \/ \A a \in Attempts : att[a].at \notin Working
    /\ MayPause \/ \A a \in Attempts : att[a].at # "takeover"
    /\ row' = [row EXCEPT !.st = "stale"]
    /\ UNCHANGED <<att, told, effects>>

-----------------------------------------------------------------------------
(* withTransaction and recordIdempotent.                                   *)

CommitUnrecorded(a) ==
    /\ att[a].at = "running"
    /\ effects' = effects \cup {a}
    /\ att' = [att EXCEPT ![a] = [@ EXCEPT !.at = "sending", !.out = "unrecorded"]]
    /\ UNCHANGED <<row, told>>

\* The record is the last statement before COMMIT; it finds the row unless another write's answer
\* is in it or it is gone.  Without it a strict build rolls the write back, and production lets
\* it stand.
Commit(a) ==
    /\ att[a].at = "running"
    /\ row' = IF Uncommitted THEN [row EXCEPT !.st = "committed", !.answer = a] ELSE row
    /\ effects' = IF Uncommitted \/ ~Strict THEN effects \cup {a} ELSE effects
    /\ att' = [att EXCEPT ![a] = [@ EXCEPT !.at = "sending",
                                           !.out = IF Uncommitted THEN "recorded"
                                                   ELSE IF Strict THEN "failed" ELSE "unrecorded"]]
    /\ UNCHANGED told

\* A rule refused it (a 4xx), or it failed or was throttled (a 5xx, a 429): nothing was written.
WriteNothing(a, out) ==
    /\ att[a].at = "running"
    /\ att' = [att EXCEPT ![a] = [@ EXCEPT !.at = "sending", !.out = out]]
    /\ UNCHANGED <<row, told, effects>>

Response(a) == IF att[a].out \in {"recorded", "unrecorded"} THEN a ELSE att[a].out

\* recordAfterSend: drop the claim of a failure, keep a refusal's answer, and never touch an
\* outcome that was committed.
OnSend(a) ==
    /\ att[a].at = "sending"
    /\ row' = IF att[a].out = "recorded" \/ ~Uncommitted THEN row
              ELSE IF att[a].out = "failed" THEN NoRow
              ELSE [row EXCEPT !.st = "answered", !.answer = Response(a)]
    /\ Answer(a, Response(a))
    /\ UNCHANGED effects

\* The hook's own statement failed: it warns, and the answer goes out.
OnSendLost(a) ==
    /\ att[a].at = "sending"
    /\ Answer(a, Response(a))
    /\ UNCHANGED <<row, effects>>

\* The pod dies, and with it the request: nobody is told.
Crash(a) ==
    /\ att[a].at \notin {"off", "done"}
    /\ att' = [att EXCEPT ![a].at = "done"]
    /\ UNCHANGED <<row, told, effects>>

-----------------------------------------------------------------------------
Init ==
    /\ row = NoRow
    /\ att = [a \in Attempts |-> [at |-> "off", body |-> None, pass |-> 0, out |-> "none"]]
    /\ told = [a \in Attempts |-> "nothing"]
    /\ effects = {}

Next ==
    \/ \E a \in Attempts :
           \/ \E body \in Bodies : Arrive(a, body)
           \/ InsertWins(a) \/ InsertLoses(a)
           \/ Lookup(a)
           \/ TakeOverWins(a) \/ TakeOverLoses(a)
           \/ Commit(a)
           \/ \E out \in {"refused", "failed"} : WriteNothing(a, out)
           \/ OnSend(a) \/ OnSendLost(a)
           \/ Crash(a)
    \/ GrowStale

Spec == Init /\ [][Next]_vars

-----------------------------------------------------------------------------
(* Properties.                                                             *)

RowState == [st : {"none", "claim", "stale", "answered", "committed"}, body : Bodies \cup {None},
             answer : Attempts \cup {"refused", None}]
AttemptState == [at : {"off", "insert", "lookup", "takeover", "running", "sending", "done"},
                 body : Bodies \cup {None}, pass : 0..MAX_ATTEMPTS - 1,
                 out : {"none", "recorded", "unrecorded", "refused", "failed"}]

\* Types; among them that a failure is never kept as the key's answer.
TypeOK ==
    /\ row \in RowState
    /\ att \in [Attempts -> AttemptState]
    /\ told \in [Attempts -> Attempts \cup {"nothing", "busy", "conflict", "refused", "failed"}]
    /\ effects \subseteq Attempts

\* One key, one write: however a till's retries race, time out, meet a dead pod's claim or take it
\* over, at most one of them commits - no second bill.
AtMostOnce == \A a, b \in effects : a = b

\* "there is no instant at which the write has happened and the key does not know it": from the
\* commit on, the row holds that write's own answer and nothing removes or replaces it.
DoneIsRemembered ==
    \A a \in effects : row.st = "committed" /\ row.answer = a

\* A client told that its write went through was told the truth, about the request it made.
SuccessIsTrue ==
    \A a, b \in Attempts : told[a] = b => b \in effects /\ att[b].body = att[a].body
=============================================================================
