----------------------------- MODULE ClientProofs -----------------------------
(***************************************************************************)
(* Proofs about what a browser tab relies on, for any number of requests,  *)
(* operators, commits, faults and bills: the key its writes carry          *)
(* (Idempotency), the stream its screens are kept current by (WebClient)   *)
(* and its till (Till).                                                    *)
(*                                                                         *)
(* One key, one write: in a strict build always, in production as long as  *)
(* no write outlives CLAIM_STALE_MS.  The inductive invariant OnceInv says *)
(* what the row knows of a committed write and, when no write can outlive  *)
(* its claim, that the request at work is alone and the row is its own     *)
(* fresh claim.                                                            *)
(***************************************************************************)
EXTENDS Idempotency, WebClient, Till, FiniteSetTheorems, SequenceTheorems, NaturalsInduction,
    WellFoundedInduction, TLAPS

\* A request that may still commit, or whose hook may still write to the row.
Owner(a) == att[a].at = "running" \/ (att[a].at = "sending" /\ att[a].out # "recorded")

\* What a request answers is what its write came to, and a row with an answer has one.
Shape ==
    /\ TypeOK
    /\ \A a \in Attempts : att[a].at = "sending" => att[a].out # "none"
    /\ row.st \in {"answered", "committed"} => row.answer # None

SoleOwner == \A a, b \in Attempts : Owner(a) /\ Owner(b) => a = b

OwnerHoldsClaim == \A a \in Attempts : Owner(a) => row.st = "claim"

OnceInv ==
    /\ Shape
    /\ DoneIsRemembered
    /\ ~MayOutlive => SoleOwner /\ OwnerHoldsClaim

-----------------------------------------------------------------------------
\* The first state: no row, no request, nothing written.
LEMMA InitOnce == Init => OnceInv
  BY PassAssumption DEF Init, OnceInv, Shape, TypeOK, DoneIsRemembered,
     SoleOwner, OwnerHoldsClaim, Owner, NoRow, RowState, AttemptState

\* A request that moves to a record of the right form leaves all requests of the right form.
LEMMA Moved ==
    ASSUME TypeOK, NEW a \in Attempts, NEW r \in AttemptState, att' = [att EXCEPT ![a] = r]
    PROVE  /\ att' \in [Attempts -> AttemptState]
           /\ att'[a] = r
           /\ \A b \in Attempts : b # a => att'[b] = att[b]
  BY DEF TypeOK

\* The form of a request that has arrived, and of one that has its response.
LEMMA ArrivedForm ==
    ASSUME NEW r \in AttemptState, NEW body \in Bodies
    PROVE  LET s == [r EXCEPT !.at = "insert", !.body = body] IN s \in AttemptState /\ s.at = "insert"
  BY DEF AttemptState

LEMMA SendingForm ==
    ASSUME NEW r \in AttemptState, NEW out \in {"recorded", "unrecorded", "refused", "failed"}
    PROVE  LET s == [r EXCEPT !.at = "sending", !.out = out]
           IN s \in AttemptState /\ s.at = "sending" /\ s.out = out
  BY DEF AttemptState

\* The form of a row the hook has written to.
LEMMA AnsweredForm ==
    ASSUME NEW r \in RowState, NEW said \in Attempts \cup {"refused"}
    PROVE  LET s == [r EXCEPT !.st = "answered", !.answer = said]
           IN s \in RowState /\ s.st = "answered" /\ s.answer = said
  BY DEF RowState

\* Trying again is another pass from the insert, or "busy" when the passes are used up.
LEMMA TriesAgain ==
    ASSUME TypeOK, NEW a \in Attempts, TryAgain(a)
    PROVE  /\ att' \in [Attempts -> AttemptState]
           /\ att'[a].at \in {"insert", "done"}
           /\ \A b \in Attempts : b # a => att'[b] = att[b]
           /\ told' = told \/ told' = [told EXCEPT ![a] = "busy"]
<1> DEFINE again == [att[a] EXCEPT !.at = "insert", !.pass = att[a].pass + 1]
<1>1. att[a] \in AttemptState
    BY DEF TypeOK
<1>2. CASE att[a].pass + 1 < MAX_ATTEMPTS
  <2>1. att[a].pass + 1 \in 0..MAX_ATTEMPTS - 1
    BY <1>1, <1>2, PassAssumption DEF AttemptState
  <2>2. again \in AttemptState /\ again.at = "insert"
    BY <1>1, <2>1 DEF AttemptState
  <2>3. att' = [att EXCEPT ![a] = again] /\ told' = told
    BY <1>2 DEF TryAgain
  <2> HIDE DEF again
  <2> QED
    BY <2>2, <2>3, Moved
<1>3. CASE ~(att[a].pass + 1 < MAX_ATTEMPTS)
  <2>1. Answer(a, "busy")
    BY <1>3 DEF TryAgain
  <2> QED
    BY <2>1 DEF Answer, TypeOK, AttemptState
<1> QED
    BY <1>2, <1>3

\* Every step of the plugin, the transaction and the hook keeps the shape of row and requests.
LEMMA StepShape == Shape /\ [Next]_vars => Shape'
<1> SUFFICES ASSUME Shape, [Next]_vars PROVE Shape'
    OBVIOUS
<1> USE NameAssumption DEF Shape, TypeOK, RowState
<1>0. \A a \in Attempts : att[a] \in AttemptState
    OBVIOUS
<1>1. ASSUME NEW a \in Attempts, NEW body \in Bodies, Arrive(a, body) PROVE Shape'
  <2> DEFINE r == [att[a] EXCEPT !.at = "insert", !.body = body]
  <2>1. r \in AttemptState /\ r.at = "insert"
    BY <1>0, ArrivedForm
  <2>2. att' = [att EXCEPT ![a] = r] /\ UNCHANGED <<row, told, effects>>
    BY <1>1 DEF Arrive
  <2> HIDE DEF r
  <2> QED
    BY <2>1, <2>2, Moved
<1>2. ASSUME NEW a \in Attempts, InsertWins(a) PROVE Shape'
    BY <1>2 DEF InsertWins, Claim, AttemptState
<1>3. ASSUME NEW a \in Attempts, InsertLoses(a) PROVE Shape'
    BY <1>3 DEF InsertLoses, AttemptState
<1>4. ASSUME NEW a \in Attempts, Lookup(a) PROVE Shape'
  <2>1. CASE FoundNothing(a)
    BY <1>4, <2>1, TriesAgain DEF Lookup, FoundNothing
  <2>2. ASSUME NEW said \in Attempts \cup {"busy", "conflict", "refused"}, Answer(a, said) PROVE Shape'
    BY <1>4, <2>2 DEF Lookup, Answer, AttemptState
  <2>3. CASE att' = [att EXCEPT ![a].at = "takeover"] /\ UNCHANGED told
    BY <1>4, <2>3 DEF Lookup, AttemptState
  <2> QED
    BY <1>4, <2>1, <2>2, <2>3 DEF Lookup
<1>5. ASSUME NEW a \in Attempts, TakeOverWins(a) PROVE Shape'
    BY <1>5 DEF TakeOverWins, AttemptState
<1>6. ASSUME NEW a \in Attempts, TakeOverLoses(a) PROVE Shape'
    BY <1>6, TriesAgain DEF TakeOverLoses
<1>7. ASSUME NEW a \in Attempts, Commit(a) PROVE Shape'
  <2> DEFINE out == IF Uncommitted THEN "recorded" ELSE IF Strict THEN "failed" ELSE "unrecorded"
             r == [att[a] EXCEPT !.at = "sending", !.out = out]
  <2>1. out \in {"recorded", "unrecorded", "refused", "failed"}
    OBVIOUS
  <2>2. att' = [att EXCEPT ![a] = r]
    BY <1>7 DEF Commit
  <2>3. row' \in RowState /\ (row'.st \in {"answered", "committed"} => row'.answer # None)
    BY <1>7 DEF Commit
  <2> HIDE DEF out
  <2>4. r \in AttemptState /\ r.at = "sending" /\ r.out = out
    BY ONLY <1>0, <2>1, a \in Attempts, SendingForm
  <2> HIDE DEF r
  <2> QED
    BY <1>7, <2>1, <2>2, <2>3, <2>4, Moved DEF Commit
<1>8. ASSUME NEW a \in Attempts, NEW out \in {"refused", "failed"}, WriteNothing(a, out) PROVE Shape'
  <2> DEFINE r == [att[a] EXCEPT !.at = "sending", !.out = out]
  <2>1. out \in {"recorded", "unrecorded", "refused", "failed"}
    OBVIOUS
  <2>2. r \in AttemptState /\ r.at = "sending" /\ r.out = out
    BY ONLY <1>0, <2>1, a \in Attempts, SendingForm
  <2>3. att' = [att EXCEPT ![a] = r] /\ UNCHANGED <<row, told, effects>>
    BY <1>8 DEF WriteNothing
  <2> HIDE DEF r
  <2> QED
    BY <2>1, <2>2, <2>3, Moved
<1>9. ASSUME NEW a \in Attempts, att[a].at = "sending", Answer(a, Response(a)), UNCHANGED effects,
             row' \in {row, NoRow, [row EXCEPT !.st = "answered", !.answer = Response(a)]},
             row' # row /\ row' # NoRow => att[a].out # "failed"
      PROVE  Shape'
  <2>1. Response(a) \in Attempts \cup {"refused", "failed"}
    BY <1>0, <1>9 DEF Response, AttemptState
  <2>2. row' \in RowState /\ (row'.st \in {"answered", "committed"} => row'.answer # None)
    <3>1. CASE row' = row \/ row' = NoRow
      BY <3>1 DEF NoRow
    <3>2. CASE row' # row /\ row' # NoRow
      <4>1. Response(a) \in Attempts \cup {"refused"} /\ Response(a) # None
        BY <1>0, <1>9, <3>2 DEF Response, AttemptState
      <4> DEFINE said == Response(a)
      <4>2. row' = [row EXCEPT !.st = "answered", !.answer = said]
        BY <1>9, <3>2
      <4>3. row \in RowState /\ said \in Attempts \cup {"refused"} /\ said # None
        BY <4>1
      <4> HIDE DEF said
      <4>4. row' \in RowState /\ row'.st = "answered" /\ row'.answer = said
        BY <4>2, <4>3, AnsweredForm
      <4> QED
        BY <4>3, <4>4
    <3> QED
      BY <3>1, <3>2
  <2> QED
    BY <1>9, <2>1, <2>2 DEF Answer, AttemptState
<1>10. ASSUME NEW a \in Attempts, Crash(a) PROVE Shape'
    BY <1>10 DEF Crash, AttemptState
<1>11. CASE GrowStale
    BY <1>11 DEF GrowStale
<1>12. CASE UNCHANGED vars
    BY <1>12 DEF vars
<1>13. ASSUME NEW a \in Attempts, OnSend(a) \/ OnSendLost(a) PROVE Shape'
    BY <1>9, <1>13 DEF OnSend, OnSendLost
<1> QED
    BY <1>1, <1>2, <1>3, <1>4, <1>5, <1>6, <1>7, <1>8, <1>10, <1>11, <1>12, <1>13 DEF Next

-----------------------------------------------------------------------------
\* Every step keeps what the row knows of a committed write and, when no write outlives its claim,
\* the sole ownership of the claim.
LEMMA StepOnce ==
    ASSUME OnceInv, Strict \/ ~MayOutlive, [Next]_vars
    PROVE  OnceInv'
<1> DEFINE Kept == DoneIsRemembered /\ (~MayOutlive => SoleOwner /\ OwnerHoldsClaim)
<1>1. Shape' /\ Shape /\ TypeOK
    BY StepShape DEF OnceInv, Shape
<1> SUFFICES Kept'
    BY <1>1 DEF OnceInv
<1>2. \A a \in Attempts : att[a] \in AttemptState
    BY <1>1 DEF TypeOK
<1>3. ASSUME row' = row, effects' = effects, \A b \in Attempts : Owner(b)' => Owner(b)
      PROVE  Kept'
    BY <1>3 DEF OnceInv, DoneIsRemembered, SoleOwner, OwnerHoldsClaim
<1>4. ASSUME DoneIsRemembered', ~MayOutlive => \A b \in Attempts : ~Owner(b)'
      PROVE  Kept'
    BY <1>4 DEF SoleOwner, OwnerHoldsClaim
<1>5. row.st # "committed" => effects = {}
    BY DEF OnceInv, DoneIsRemembered
<1>6. ASSUME NEW a \in Attempts, NEW body \in Bodies, Arrive(a, body) PROVE Kept'
  <2> DEFINE r == [att[a] EXCEPT !.at = "insert", !.body = body]
  <2>1. r \in AttemptState /\ r.at = "insert"
    BY ONLY <1>2, a \in Attempts, body \in Bodies, ArrivedForm
  <2>2. att' = [att EXCEPT ![a] = r] /\ UNCHANGED <<row, told, effects>>
    BY <1>6 DEF Arrive
  <2> HIDE DEF r
  <2>3. \A b \in Attempts : Owner(b)' => Owner(b)
    BY <1>1, <2>1, <2>2, Moved DEF Owner
  <2> QED
    BY <1>3, <2>2, <2>3
<1>7. ASSUME NEW a \in Attempts, NEW st \in {"none", "stale"}, row.st = st, row'.st = "claim",
             att' = [att EXCEPT ![a].at = "running"], effects' = effects
      PROVE  Kept'
  <2>1. DoneIsRemembered'
    BY <1>5, <1>7 DEF DoneIsRemembered
  <2>2. ASSUME ~MayOutlive PROVE SoleOwner' /\ OwnerHoldsClaim'
    <3>1. \A b \in Attempts : ~Owner(b)
      BY <1>7, <2>2 DEF OnceInv, OwnerHoldsClaim
    <3>2. \A b \in Attempts : b # a => att'[b] = att[b]
      BY <1>1, <1>7 DEF TypeOK
    <3>3. \A b \in Attempts : Owner(b)' => b = a
      BY <3>1, <3>2 DEF Owner
    <3> QED
      BY <1>7, <3>3 DEF SoleOwner, OwnerHoldsClaim
  <2> QED
    BY <2>1, <2>2
<1>8. ASSUME NEW a \in Attempts, Lookup(a) PROVE Kept'
  <2>1. \A b \in Attempts : b # a => att'[b] = att[b]
    BY <1>1, <1>8, TriesAgain DEF Lookup, FoundNothing, Answer, TypeOK
  <2>2. att'[a].at \in {"insert", "takeover", "done"}
    BY <1>1, <1>2, <1>8, TriesAgain DEF Lookup, FoundNothing, Answer, TypeOK, AttemptState
  <2>3. \A b \in Attempts : Owner(b)' => Owner(b)
    BY <2>1, <2>2 DEF Owner
  <2> QED
    BY <1>3, <1>8, <2>3 DEF Lookup
<1>9. ASSUME NEW a \in Attempts, TakeOverLoses(a) PROVE Kept'
  <2>1. \A b \in Attempts : Owner(b)' => Owner(b)
    BY <1>1, <1>9, TriesAgain DEF TakeOverLoses, Owner
  <2> QED
    BY <1>3, <1>9, <2>1 DEF TakeOverLoses
<1>10. ASSUME NEW a \in Attempts, NEW at \in {"lookup", "done"}, att' = [att EXCEPT ![a].at = at],
              UNCHANGED <<row, effects>>
       PROVE  Kept'
  <2>1. \A b \in Attempts : Owner(b)' => Owner(b)
    BY <1>1, <1>2, <1>10 DEF Owner, TypeOK, AttemptState
  <2> QED
    BY <1>3, <1>10, <2>1
<1>11. ASSUME NEW a \in Attempts, Commit(a) PROVE Kept'
  <2> DEFINE out == IF Uncommitted THEN "recorded" ELSE IF Strict THEN "failed" ELSE "unrecorded"
             r == [att[a] EXCEPT !.at = "sending", !.out = out]
  <2>1. out \in {"recorded", "unrecorded", "refused", "failed"} /\ (Uncommitted => out = "recorded")
    OBVIOUS
  <2>2. att' = [att EXCEPT ![a] = r]
    BY <1>11 DEF Commit
  <2> HIDE DEF out
  <2>3. r \in AttemptState /\ r.at = "sending" /\ r.out = out
    BY ONLY <1>2, <2>1, a \in Attempts, SendingForm
  <2> HIDE DEF r
  <2>4. att'[a] = r /\ \A b \in Attempts : b # a => att'[b] = att[b]
    BY <1>1, <2>2, <2>3, Moved
  <2>5. CASE Uncommitted
    <3>1. DoneIsRemembered'
      <4>1. effects' = {a} /\ row' = [row EXCEPT !.st = "committed", !.answer = a]
        BY <1>5, <1>11, <2>5 DEF Commit, Uncommitted
      <4> QED
        BY <1>1, <4>1 DEF DoneIsRemembered, TypeOK, RowState
    <3>2. ASSUME ~MayOutlive PROVE \A b \in Attempts : ~Owner(b)'
      BY <1>11, <2>1, <2>3, <2>4, <2>5, <3>2 DEF OnceInv, SoleOwner, Owner, Commit
    <3> QED
      BY <1>4, <3>1, <3>2
  <2>6. CASE ~Uncommitted
    <3>1. MayOutlive /\ Strict
      BY <1>11, <2>6 DEF OnceInv, OwnerHoldsClaim, Owner, Commit, Uncommitted
    <3> QED
      BY <1>4, <1>11, <2>6, <3>1 DEF OnceInv, DoneIsRemembered, Commit
  <2> QED
    BY <2>5, <2>6
<1>12. ASSUME NEW a \in Attempts, NEW out \in {"refused", "failed"}, WriteNothing(a, out) PROVE Kept'
  <2> DEFINE r == [att[a] EXCEPT !.at = "sending", !.out = out]
  <2>1. out \in {"recorded", "unrecorded", "refused", "failed"}
    OBVIOUS
  <2>2. r \in AttemptState /\ r.at = "sending" /\ r.out = out
    BY ONLY <1>2, <2>1, a \in Attempts, SendingForm
  <2>3. att' = [att EXCEPT ![a] = r] /\ UNCHANGED <<row, told, effects>> /\ att[a].at = "running"
    BY <1>12 DEF WriteNothing
  <2> HIDE DEF r
  <2>4. \A b \in Attempts : Owner(b)' => Owner(b)
    BY <1>1, <2>1, <2>2, <2>3, Moved DEF Owner
  <2> QED
    BY <1>3, <2>3, <2>4
<1>13. ASSUME NEW a \in Attempts, OnSend(a) PROVE Kept'
  <2>1. att' = [att EXCEPT ![a].at = "done"] /\ effects' = effects
    BY <1>13 DEF OnSend, Answer
  <2>2. CASE row' = row
    BY <1>10, <2>1, <2>2
  <2>3. CASE row' # row
    <3>1. Owner(a) /\ effects = {}
      BY <1>5, <1>13, <2>3 DEF OnSend, Owner, Uncommitted
    <3>2. att'[a].at = "done" /\ \A b \in Attempts : b # a => att'[b] = att[b]
      BY <1>1, <1>2, <2>1 DEF TypeOK, AttemptState
    <3>3. ASSUME ~MayOutlive PROVE \A b \in Attempts : ~Owner(b)'
      BY <3>1, <3>2, <3>3 DEF OnceInv, SoleOwner, Owner
    <3> QED
      BY <1>4, <2>1, <3>1, <3>3 DEF DoneIsRemembered
  <2> QED
    BY <2>2, <2>3
<1>14. CASE GrowStale
  <2>1. ~MayOutlive => \A b \in Attempts : ~Owner(b)'
    BY <1>14 DEF GrowStale, Owner, Working
  <2> QED
    BY <1>4, <1>5, <1>14, <2>1 DEF GrowStale, DoneIsRemembered
<1>15. CASE UNCHANGED vars
    BY <1>3, <1>15 DEF vars, Owner
<1>16. ASSUME NEW a \in Attempts, InsertWins(a) PROVE Kept'
  <2>1. row'.st = "claim"
    BY <1>16 DEF InsertWins, Claim
  <2> QED
    BY <1>7, <1>16, <2>1 DEF InsertWins
<1>17. ASSUME NEW a \in Attempts, TakeOverWins(a) PROVE Kept'
  <2>1. row'.st = "claim"
    BY <1>1, <1>17 DEF TakeOverWins, TypeOK, RowState
  <2> QED
    BY <1>7, <1>17, <2>1 DEF TakeOverWins, Abandoned
<1>18. ASSUME NEW a \in Attempts, InsertLoses(a) \/ OnSendLost(a) \/ Crash(a) PROVE Kept'
    BY <1>10, <1>18 DEF InsertLoses, OnSendLost, Crash, Answer
<1> HIDE DEF Kept
<1> QED
    BY <1>6, <1>8, <1>9, <1>11, <1>12, <1>13, <1>14, <1>15, <1>16, <1>17, <1>18 DEF Next

-----------------------------------------------------------------------------
\* One key, one write: in a strict build, or where no write outlives CLAIM_STALE_MS, at most one of
\* any number of requests with the same Idempotency-Key commits its write (no second bill).
THEOREM OneKeyOneWrite ==
    ASSUME Strict \/ ~MayOutlive
    PROVE  Spec => []AtMostOnce
<1>1. OnceInv /\ [Next]_vars => OnceInv'
    BY StepOnce
<1>2. OnceInv => AtMostOnce
    BY DEF OnceInv, DoneIsRemembered, AtMostOnce
<1> QED
    BY InitOnce, <1>1, <1>2, PTL DEF Spec

\* Under the same condition a committed write's answer stays in the key's row: no hook, takeover or
\* later request removes or replaces it.
THEOREM CommittedIsRemembered ==
    ASSUME Strict \/ ~MayOutlive
    PROVE  Spec => []DoneIsRemembered
<1>1. OnceInv /\ [Next]_vars => OnceInv'
    BY StepOnce
<1>2. OnceInv => DoneIsRemembered
    BY DEF OnceInv
<1> QED
    BY InitOnce, <1>1, <1>2, PTL DEF Spec

-----------------------------------------------------------------------------
(* What a client is told.  tryTakeover's WHERE does not ask for the hash   *)
(* of the request, so a request that stood still between its lookup and    *)
(* its takeover could answer under another request's hash; MayPause is     *)
(* what the argument needs to be without.                                  *)

\* A write somebody may answer with is on the books, under the body it was made for.
Told(said, body) == said \in Attempts => said \in effects /\ att[said].body = body

TruthInv ==
    /\ OnceInv
    /\ \A a \in effects : att[a].at # "off"
    /\ \A a \in Attempts :
          /\ att[a].at = "sending" /\ att[a].out \in {"recorded", "unrecorded"} => a \in effects
          /\ Owner(a) => row.body = att[a].body
          /\ att[a].at = "takeover" /\ row.st = "stale" => row.body = att[a].body
          /\ told[a] \in Attempts => att[a].at = "done"
          /\ Told(told[a], att[a].body)
    /\ Told(row.answer, row.body)

LEMMA InitTruth == Init => TruthInv
<1> SUFFICES ASSUME Init PROVE TruthInv
    OBVIOUS
<1>1. OnceInv
    BY InitOnce
<1>2. row.answer \notin Attempts /\ \A a \in Attempts : told[a] \notin Attempts
    BY NameAssumption DEF Init, NoRow
<1> QED
    BY <1>1, <1>2 DEF Init, TruthInv, Told, Owner

\* A request moves while the row and the books stay as they are.
LEMMA OneMoves ==
    ASSUME TruthInv, OnceInv', NEW a \in Attempts, row' = row, effects' = effects,
           \A b \in Attempts \ {a} : att'[b] = att[b] /\ told'[b] = told[b],
           att[a].at = "off" \/ att'[a].body = att[a].body,
           att'[a].at # "off",
           att'[a].at = "sending" /\ att'[a].out \in {"recorded", "unrecorded"} => a \in effects,
           Owner(a)' => Owner(a) /\ att'[a].body = att[a].body,
           att'[a].at = "takeover" /\ row.st = "stale" => row.body = att'[a].body,
           told'[a] \in Attempts => att'[a].at = "done" /\ att[a].at # "off" /\ Told(told'[a], att[a].body)
    PROVE  TruthInv'
<1>1. \A b \in effects : b \in Attempts /\ att[b].at # "off" /\ att'[b].body = att[b].body
    BY DEF TruthInv, OnceInv, Shape, TypeOK
<1>2. \A b \in effects' : att'[b].at # "off"
    BY <1>1 DEF TruthInv
<1>3. ASSUME NEW said, NEW body, Told(said, body) PROVE said \in Attempts => said \in effects' /\ att'[said].body = body
    BY <1>1, <1>3 DEF Told
<1>4. Told(row.answer, row.body)'
    BY <1>3 DEF TruthInv, Told
<1>5. ASSUME NEW b \in Attempts
      PROVE  /\ att'[b].at = "sending" /\ att'[b].out \in {"recorded", "unrecorded"} => b \in effects'
             /\ Owner(b)' => row'.body = att'[b].body
             /\ att'[b].at = "takeover" /\ row'.st = "stale" => row'.body = att'[b].body
             /\ told'[b] \in Attempts => att'[b].at = "done"
             /\ Told(told[b], att[b].body)'
  <2>1. CASE b = a
    BY <1>3, <2>1 DEF TruthInv, Told
  <2>2. CASE b # a
    <3>1. att'[b] = att[b] /\ told'[b] = told[b] /\ (Owner(b)' <=> Owner(b))
      BY <2>2 DEF Owner
    <3>2. Told(told[b], att[b].body)'
      BY <1>3, <3>1 DEF TruthInv, Told
    <3> QED
      BY <3>1, <3>2 DEF TruthInv
  <2> QED
    BY <2>1, <2>2
<1> QED
    BY <1>2, <1>4, <1>5 DEF TruthInv

\* The only request at work writes to the row; no other rests on what was there.
LEMMA OneWrites ==
    ASSUME TruthInv, OnceInv', NEW a \in Attempts, effects \subseteq effects', effects' \subseteq effects \cup {a},
           \A b \in Attempts \ {a} : att'[b] = att[b] /\ told'[b] = told[b] /\ ~Owner(b),
           att[a].at # "off", att'[a].at # "off", att'[a].body = att[a].body,
           row'.st # "stale",
           att'[a].at = "sending" /\ att'[a].out \in {"recorded", "unrecorded"} => a \in effects',
           Owner(a)' => row'.body = att[a].body,
           told'[a] \in Attempts => told'[a] = told[a] /\ att'[a].at = "done",
           row'.answer \in Attempts =>
               \/ row'.answer = row.answer /\ row'.body = row.body
               \/ row'.answer = a /\ a \in effects' /\ row'.body = att[a].body
    PROVE  TruthInv'
<1>1. \A b \in effects : b \in Attempts /\ att[b].at # "off" /\ att'[b].body = att[b].body
    BY DEF TruthInv, OnceInv, Shape, TypeOK
<1>2. \A b \in effects' : att'[b].at # "off"
    BY <1>1 DEF TruthInv
<1>3. ASSUME NEW said, NEW body, Told(said, body) PROVE said \in Attempts => said \in effects' /\ att'[said].body = body
    BY <1>1, <1>3 DEF Told
<1>4. Told(row.answer, row.body)'
    BY <1>3 DEF TruthInv, Told
<1>5. ASSUME NEW b \in Attempts
      PROVE  /\ att'[b].at = "sending" /\ att'[b].out \in {"recorded", "unrecorded"} => b \in effects'
             /\ Owner(b)' => row'.body = att'[b].body
             /\ att'[b].at = "takeover" /\ row'.st = "stale" => row'.body = att'[b].body
             /\ told'[b] \in Attempts => att'[b].at = "done"
             /\ Told(told[b], att[b].body)'
  <2>1. CASE b = a
    BY <1>3, <2>1 DEF TruthInv, Told
  <2>2. CASE b # a
    <3>1. att'[b] = att[b] /\ told'[b] = told[b] /\ ~Owner(b)'
      BY <2>2 DEF Owner
    <3>2. Told(told[b], att[b].body)'
      BY <1>3, <3>1 DEF TruthInv, Told
    <3> QED
      BY <3>1, <3>2 DEF TruthInv
  <2> QED
    BY <2>1, <2>2
<1> QED
    BY <1>2, <1>4, <1>5 DEF TruthInv

LEMMA StepTruth ==
    ASSUME TruthInv, ~MayOutlive, ~MayPause, [Next]_vars
    PROVE  TruthInv'
<1>1. OnceInv /\ OnceInv' /\ TypeOK /\ TypeOK' /\ SoleOwner /\ OwnerHoldsClaim
    BY StepOnce DEF TruthInv, OnceInv, Shape
<1>2. /\ att \in [Attempts -> AttemptState] /\ row \in RowState
      /\ told \in [Attempts -> Attempts \cup {"nothing", "busy", "conflict", "refused", "failed"}]
      /\ \A b \in Attempts : att[b] \in AttemptState
    BY <1>1 DEF TypeOK
<1>3. ASSUME NEW a \in Attempts, NEW body \in Bodies, Arrive(a, body) PROVE TruthInv'
  <2> DEFINE r == [att[a] EXCEPT !.at = "insert", !.body = body]
  <2>1. r \in AttemptState /\ r.at = "insert"
    BY ONLY <1>2, a \in Attempts, body \in Bodies, ArrivedForm
  <2>2. att' = [att EXCEPT ![a] = r] /\ UNCHANGED <<row, told, effects>> /\ att[a].at = "off"
    BY <1>3 DEF Arrive
  <2> HIDE DEF r
  <2>3. att'[a] = r /\ \A b \in Attempts \ {a} : att'[b] = att[b] /\ told'[b] = told[b]
    BY <1>2, <2>1, <2>2
  <2>4. told[a] \notin Attempts
    BY <2>2 DEF TruthInv
  <2> QED
    BY <1>1, <2>1, <2>2, <2>3, <2>4, OneMoves DEF Owner
<1>4. ASSUME NEW a \in Attempts, NEW at \in {"lookup", "takeover", "done"}, NEW said,
             att[a].at \notin {"off", "done"}, UNCHANGED <<row, effects>>,
             att' = [att EXCEPT ![a].at = at],
             told' = [told EXCEPT ![a] = said],
             at = "takeover" => row.body = att[a].body,
             said \in Attempts => at = "done" /\ Told(said, att[a].body)
      PROVE  TruthInv'
  <2>1. att'[a].at = at /\ att'[a].body = att[a].body /\ told'[a] = said
    BY <1>2, <1>4 DEF AttemptState
  <2>2. \A b \in Attempts \ {a} : att'[b] = att[b] /\ told'[b] = told[b]
    BY <1>2, <1>4
  <2> QED
    BY <1>1, <1>4, <2>1, <2>2, OneMoves DEF Owner
<1>5. ASSUME NEW a \in Attempts, TryAgain(a), UNCHANGED <<row, effects>>, att[a].at \in {"lookup", "takeover"}
      PROVE  TruthInv'
  <2>1. /\ att'[a].at \in {"insert", "done"} /\ \A b \in Attempts : b # a => att'[b] = att[b]
        /\ told' = told \/ told' = [told EXCEPT ![a] = "busy"]
    BY <1>1, <1>5, TriesAgain
  <2>2. att'[a].body = att[a].body
    <3>1. CASE att[a].pass + 1 < MAX_ATTEMPTS
      <4>1. att' = [att EXCEPT ![a] = [@ EXCEPT !.at = "insert", !.pass = att[a].pass + 1]]
        BY <1>5, <3>1 DEF TryAgain
      <4> QED
        BY <1>2, <4>1 DEF AttemptState
    <3>2. CASE ~(att[a].pass + 1 < MAX_ATTEMPTS)
      <4>1. att' = [att EXCEPT ![a].at = "done"]
        BY <1>5, <3>2 DEF TryAgain, Answer
      <4> QED
        BY <1>2, <4>1 DEF AttemptState
    <3> QED
      BY <3>1, <3>2
  <2>3. told'[a] \in {told[a], "busy"} /\ \A b \in Attempts \ {a} : told'[b] = told[b]
    BY <1>2, <2>1
  <2>4. told'[a] \notin Attempts
    BY <1>5, <2>3, NameAssumption DEF TruthInv
  <2> QED
    BY <1>1, <1>5, <2>1, <2>2, <2>3, <2>4, OneMoves DEF Owner
<1>6. ASSUME NEW a \in Attempts, InsertLoses(a) PROVE TruthInv'
  <2>1. told' = [told EXCEPT ![a] = told[a]] /\ told[a] \notin Attempts
    BY <1>2, <1>6 DEF InsertLoses, TruthInv
  <2> QED
    BY <1>4, <1>6, <2>1 DEF InsertLoses
<1>7. ASSUME NEW a \in Attempts, Lookup(a) PROVE TruthInv'
  <2>1. CASE FoundNothing(a)
    BY <1>5, <1>7, <2>1 DEF Lookup, FoundNothing
  <2>2. ASSUME NEW said, Answer(a, said), Told(said, att[a].body) PROVE TruthInv'
    BY <1>4, <1>7, <2>2 DEF Lookup, Answer
  <2>3. CASE (~SameRequest(a) /\ Answer(a, "conflict")) \/ Answer(a, "busy")
    BY <2>2, <2>3, NameAssumption DEF Told
  <2>4. CASE SameRequest(a) /\ Answer(a, row.answer)
    BY <2>2, <2>4 DEF SameRequest, TruthInv
  <2>5. CASE SameRequest(a) /\ att' = [att EXCEPT ![a].at = "takeover"] /\ UNCHANGED told
    <3>1. told' = [told EXCEPT ![a] = told[a]] /\ told[a] \notin Attempts
      BY <1>2, <1>7, <2>5 DEF Lookup, TruthInv
    <3> QED
      BY <1>4, <1>7, <2>5, <3>1 DEF Lookup, SameRequest
  <2> QED
    BY <1>7, <2>1, <2>3, <2>4, <2>5 DEF Lookup
<1>8. ASSUME NEW a \in Attempts, TakeOverLoses(a) PROVE TruthInv'
    BY <1>5, <1>8 DEF TakeOverLoses
<1>9. ASSUME NEW a \in Attempts, NEW out \in {"refused", "failed"}, WriteNothing(a, out) PROVE TruthInv'
  <2> DEFINE r == [att[a] EXCEPT !.at = "sending", !.out = out]
  <2>1. r.at = "sending" /\ r.out = out /\ r.body = att[a].body
    BY <1>2 DEF AttemptState
  <2>2. att' = [att EXCEPT ![a] = r] /\ UNCHANGED <<row, told, effects>> /\ att[a].at = "running"
    BY <1>9 DEF WriteNothing
  <2> HIDE DEF r
  <2>3. att'[a] = r /\ \A b \in Attempts \ {a} : att'[b] = att[b] /\ told'[b] = told[b]
    BY <1>2, <2>2
  <2>4. Owner(a) /\ told[a] \notin Attempts
    BY <2>2 DEF Owner, TruthInv
  <2> QED
    BY <1>1, <2>1, <2>2, <2>3, <2>4, OneMoves
<1>10. ASSUME NEW a \in Attempts, att[a].at = "sending", Answer(a, Response(a)), UNCHANGED <<row, effects>>
       PROVE  TruthInv'
  <2>1. Response(a) \in Attempts => Response(a) = a /\ a \in effects
    <3>1. att[a].out \in {"recorded", "unrecorded", "refused", "failed"}
      BY <1>1, <1>2, <1>10 DEF AttemptState, OnceInv, Shape
    <3> QED
      BY <1>10, <3>1, NameAssumption DEF Response, TruthInv
  <2>2. Told(Response(a), att[a].body)
    BY <2>1 DEF Told
  <2> QED
    BY <1>4, <1>10, <2>2 DEF Answer
<1>11. ASSUME NEW a \in Attempts, OnSend(a), row' # row PROVE TruthInv'
  <2>1. att[a].at = "sending" /\ att[a].out # "recorded" /\ Owner(a) /\ effects' = effects
    BY <1>11 DEF OnSend, Owner
  <2>2. row.st = "claim" /\ effects = {} /\ \A b \in Attempts \ {a} : ~Owner(b)
    BY <1>1, <2>1 DEF SoleOwner, OwnerHoldsClaim, OnceInv, DoneIsRemembered
  <2>3. Response(a) \notin Attempts
    <3>1. att[a].out \in {"unrecorded", "refused", "failed"}
      BY <1>1, <1>2, <2>1 DEF AttemptState, OnceInv, Shape
    <3> QED
      BY <2>1, <2>2, <3>1, NameAssumption DEF Response, TruthInv
  <2>4. att'[a].at = "done" /\ att'[a].body = att[a].body /\ told'[a] = Response(a)
    BY <1>2, <1>11 DEF OnSend, Answer, AttemptState
  <2>5. \A b \in Attempts \ {a} : att'[b] = att[b] /\ told'[b] = told[b]
    BY <1>2, <1>11 DEF OnSend, Answer
  <2>6. row'.st # "stale" /\ row'.answer \notin Attempts
    BY <1>2, <1>11, <2>1, <2>3, NameAssumption DEF OnSend, NoRow, RowState
  <2> QED
    BY <1>1, <2>1, <2>2, <2>3, <2>4, <2>5, <2>6, OneWrites DEF Owner
<1>12. ASSUME NEW a \in Attempts, Crash(a) PROVE TruthInv'
  <2>1. told' = [told EXCEPT ![a] = told[a]] /\ told[a] \notin Attempts
    BY <1>2, <1>12 DEF Crash, TruthInv
  <2> QED
    BY <1>4, <1>12, <2>1 DEF Crash
<1>13. ASSUME NEW a \in Attempts, att[a].at \notin {"off", "done"}, \A b \in Attempts : ~Owner(b),
              att' = [att EXCEPT ![a].at = "running"], UNCHANGED <<told, effects>>,
              row'.st = "claim", row'.body = att[a].body,
              row'.answer \in Attempts => row'.answer = row.answer /\ row'.body = row.body
       PROVE  TruthInv'
  <2>1. att'[a].at = "running" /\ att'[a].body = att[a].body
    BY <1>2, <1>13 DEF AttemptState
  <2>2. \A b \in Attempts \ {a} : att'[b] = att[b]
    BY <1>2, <1>13
  <2>3. told[a] \notin Attempts
    BY <1>13 DEF TruthInv
  <2> QED
    BY <1>1, <1>13, <2>1, <2>2, <2>3, OneWrites
<1>14. ASSUME NEW a \in Attempts, InsertWins(a) PROVE TruthInv'
  <2>1. \A b \in Attempts : ~Owner(b)
    BY <1>1, <1>14 DEF InsertWins, OwnerHoldsClaim
  <2>2. row'.st = "claim" /\ row'.body = att[a].body /\ row'.answer \notin Attempts
    BY <1>14, NameAssumption DEF InsertWins, Claim
  <2> QED
    BY <1>13, <1>14, <2>1, <2>2 DEF InsertWins
<1>15. ASSUME NEW a \in Attempts, TakeOverWins(a) PROVE TruthInv'
  <2>1. \A b \in Attempts : ~Owner(b)
    BY <1>1, <1>15 DEF TakeOverWins, Abandoned, OwnerHoldsClaim
  <2>2. row.body = att[a].body
    BY <1>15 DEF TakeOverWins, Abandoned, TruthInv
  <2>3. row'.st = "claim" /\ row'.body = row.body /\ row'.answer = row.answer
    BY <1>2, <1>15 DEF TakeOverWins, RowState
  <2> QED
    BY <1>13, <1>15, <2>1, <2>2, <2>3 DEF TakeOverWins
<1>16. ASSUME NEW a \in Attempts, Commit(a) PROVE TruthInv'
  <2>1. Owner(a) /\ Uncommitted /\ row.body = att[a].body /\ told[a] \notin Attempts
    BY <1>1, <1>16 DEF Commit, Owner, OwnerHoldsClaim, Uncommitted, TruthInv
  <2>2. \A b \in Attempts \ {a} : ~Owner(b)
    BY <1>1, <2>1 DEF SoleOwner
  <2> DEFINE r == [att[a] EXCEPT !.at = "sending", !.out = "recorded"]
  <2>3. r.at = "sending" /\ r.out = "recorded" /\ r.body = att[a].body
    BY <1>2 DEF AttemptState
  <2>4. att' = [att EXCEPT ![a] = r] /\ told' = told /\ effects' = effects \cup {a} /\ att[a].at = "running"
    BY <1>16, <2>1 DEF Commit
  <2>5. row' = [row EXCEPT !.st = "committed", !.answer = a]
    BY <1>16, <2>1 DEF Commit
  <2>6. row'.st = "committed" /\ row'.answer = a /\ row'.body = row.body
    BY <1>2, <2>5 DEF RowState
  <2> HIDE DEF r
  <2>7. att'[a] = r /\ \A b \in Attempts \ {a} : att'[b] = att[b] /\ told'[b] = told[b]
    BY <1>2, <2>4
  <2> QED
    BY <1>1, <2>1, <2>2, <2>3, <2>4, <2>6, <2>7, OneWrites
<1>17. CASE GrowStale
  <2>1. /\ \A b \in Attempts : ~Owner(b) /\ att[b].at # "takeover"
        /\ UNCHANGED <<att, told, effects>>
    BY <1>17 DEF GrowStale, Owner, Working
  <2>2. row'.answer = row.answer /\ row'.body = row.body
    BY <1>2, <1>17 DEF GrowStale, RowState
  <2>3. Told(row.answer, row.body)' /\ \A b \in Attempts : Told(told[b], att[b].body)'
    BY <2>1, <2>2 DEF TruthInv, Told
  <2> QED
    BY <1>1, <2>1, <2>3 DEF TruthInv, Owner
<1>18. CASE UNCHANGED vars
    BY <1>1, <1>18 DEF vars, TruthInv, Told, Owner
<1>19. ASSUME NEW a \in Attempts, OnSend(a) \/ OnSendLost(a) PROVE TruthInv'
    BY <1>10, <1>11, <1>19 DEF OnSend, OnSendLost
<1> QED
    BY <1>3, <1>6, <1>7, <1>8, <1>9, <1>12, <1>14, <1>15, <1>16, <1>17, <1>18, <1>19 DEF Next

\* A client is told of a success only when a write for the very request it sent is committed:
\* resolveClaim's hash check, the record inside the transaction and the response hook together,
\* where neither a write nor the pause before a takeover outlives CLAIM_STALE_MS.
THEOREM AnswersAreTrue ==
    ASSUME ~MayOutlive, ~MayPause
    PROVE  Spec => []SuccessIsTrue
<1>1. TruthInv /\ [Next]_vars => TruthInv'
    BY StepTruth
<1>2. TruthInv => SuccessIsTrue
    BY DEF TruthInv, Told, SuccessIsTrue
<1> QED
    BY InitTruth, <1>1, <1>2, PTL DEF Spec

-----------------------------------------------------------------------------
(* The change feed.  A screen behind the database is not an accident: as   *)
(* long as nothing was missed and no failure said, something that will     *)
(* bring the newer version is on its way, wherever the streams dropped.    *)

\* What may still bring a newer version: a listener that will come back, a notice, a frame, a
\* flush, a stream that will open with an id, a session's first read, or a read that is out.
NewsComes ==
    \/ ~ear \/ db.out > 0
    \/ wire # <<>> \/ pend # {}
    \/ conn.st # "live" /\ conn.id
    \/ tab.token = Nobody
    \/ \E r \in Reads : read[r].st = "asked" \/ (read[r].st = "answered" /\ read[r].v = db.v)

FeedOrder ==
    /\ db.out <= db.v
    /\ shown <= flags.seen /\ flags.seen <= db.v
    /\ \A r \in Reads : read[r].v <= db.v
    /\ conn.st = "live" => tab.token # Nobody
    /\ wire # <<>> => conn.st = "live"

FeedInv ==
    /\ ClientTypeOK
    /\ FeedOrder
    /\ flags.seen < db.v => flags.told \/ flags.missed \/ NewsComes

\* A fault more keeps the count of them in bounds.
LEMMA BreakType == ASSUME ClientTypeOK, Break PROVE breaks' \in 0..MaxBreaks
<1>1. breaks \in 0..MaxBreaks /\ MaxBreaks \in Nat
  BY ClientBounds DEF ClientTypeOK
<1> QED
  BY <1>1 DEF Break

\* A new tab has nothing to catch up with.
LEMMA InitFeed == ClientInit => FeedInv
<1> SUFFICES ASSUME ClientInit PROVE FeedInv
  OBVIOUS
<1>1. MaxCommits \in Nat /\ MaxBreaks \in Nat
  BY ClientBounds
<1>2. Idle \in ReadRows
  BY <1>1 DEF Idle, ReadRows
<1>3. ClientTypeOK
  BY <1>1, <1>2 DEF ClientInit, ClientStart, NoFlags, Feeds, Tabs, Streams, Histories, ClientTypeOK
<1>4. FeedOrder /\ flags.seen = db.v
  BY <1>1 DEF ClientInit, ClientStart, NoFlags, FeedOrder, Idle
<1>5. flags.seen < db.v => FALSE
  BY <1>1, <1>4 DEF ClientInit, ClientStart
<1> QED
  BY <1>3, <1>4, <1>5 DEF FeedInv

\* Commits, notices and the listener.
LEMMA FeedStep ==
    ASSUME FeedInv, CommitElsewhere \/ PodHears \/ ListenerDrops \/ ListenerReturns
    PROVE  FeedInv'
<1>1. /\ db \in Feeds /\ ear \in BOOLEAN /\ alive \in Who \cup {Nobody}
      /\ tab \in Tabs /\ conn \in Streams
      /\ wire \in Seq({"changed", "resync"}) /\ pend \subseteq {"slice", "all"}
      /\ read \in [Reads -> ReadRows]
      /\ shown \in 0..MaxCommits /\ flags \in Histories /\ breaks \in 0..MaxBreaks
      /\ MaxCommits \in Nat /\ MaxBreaks \in Nat
  BY ClientBounds DEF FeedInv, ClientTypeOK
<1>n. /\ db.v \in Nat /\ db.out \in Nat /\ flags.seen \in Nat /\ shown \in Nat
      /\ \A r \in Reads : read[r].v \in Nat
  BY <1>1 DEF Feeds, Histories, ReadRows
<1>2. CASE CommitElsewhere
  <2>1. db'.v = db.v + 1 /\ db'.out = (IF ear THEN db.out + 1 ELSE db.out) /\ db' \in Feeds
    BY <1>1, <1>2 DEF CommitElsewhere, Feeds, FeedInv, FeedOrder
  <2>2. ClientTypeOK'
    BY <1>1, <1>2, <2>1 DEF CommitElsewhere, ClientTypeOK
  <2>3. FeedOrder'
    BY <1>1, <1>n, <1>2, <2>1 DEF CommitElsewhere, FeedInv, FeedOrder
  <2>4. NewsComes'
    BY <1>1, <1>n, <1>2, <2>1 DEF CommitElsewhere, NewsComes
  <2> QED
    BY <2>2, <2>3, <2>4 DEF FeedInv
<1>b. ASSUME NEW frame \in {"changed", "resync"}, Broadcast(frame)
      PROVE  /\ wire' \in Seq({"changed", "resync"}) /\ flags' \in Histories
             /\ flags'.seen = flags.seen /\ (flags.told => flags'.told) /\ (flags.missed => flags'.missed)
             /\ conn.st = "live" => wire' # <<>>
             /\ conn.st # "live" => wire' = wire /\ (conn.id \/ flags'.missed)
  <2>1. /\ flags' = [flags EXCEPT !.missed = flags'.missed] /\ flags'.missed \in BOOLEAN
        /\ flags.missed => flags'.missed
        /\ conn.st # "live" /\ ~conn.id => flags'.missed
    BY <1>1, <1>b DEF Broadcast, Histories
  <2>2. wire' = IF conn.st = "live" THEN Append(wire, frame) ELSE wire
    BY <1>b DEF Broadcast
  <2>3. wire' \in Seq({"changed", "resync"}) /\ (conn.st = "live" => wire' # <<>>)
    BY <1>1, <2>2
  <2>4. /\ flags' \in Histories
        /\ flags'.seen = flags.seen /\ (flags.told => flags'.told)
    BY <1>1, <2>1 DEF Histories
  <2> QED
    BY <2>1, <2>2, <2>3, <2>4
<1>3. CASE PodHears
  <2>1. db'.v = db.v /\ db'.out = db.out - 1 /\ db' \in Feeds
    BY <1>1, <1>3 DEF PodHears, Feeds
  <2>2. Broadcast("changed")
    BY <1>3 DEF PodHears
  <2>3. ClientTypeOK'
    BY <1>1, <1>3, <1>b, <2>1, <2>2 DEF PodHears, ClientTypeOK
  <2>4. FeedOrder'
    BY <1>1, <1>n, <1>3, <1>b, <2>1, <2>2 DEF PodHears, FeedInv, FeedOrder
  <2>5. flags'.missed \/ NewsComes'
    BY <1>1, <1>3, <1>b, <2>2 DEF PodHears, NewsComes
  <2> QED
    BY <2>3, <2>4, <2>5 DEF FeedInv
<1>4. CASE ListenerDrops
  <2>1. db'.v = db.v /\ db'.out = 0 /\ db' \in Feeds
    BY <1>1, <1>4 DEF ListenerDrops, Feeds
  <2>2. ClientTypeOK'
    BY <1>1, <1>4, <2>1, BreakType DEF ListenerDrops, ClientTypeOK, FeedInv
  <2>3. FeedOrder'
    BY <1>1, <1>n, <1>4, <2>1 DEF ListenerDrops, FeedInv, FeedOrder
  <2>4. NewsComes'
    BY <1>4 DEF ListenerDrops, NewsComes
  <2> QED
    BY <2>2, <2>3, <2>4 DEF FeedInv
<1>5. CASE ListenerReturns
  <2>2. Broadcast("resync")
    BY <1>5 DEF ListenerReturns
  <2>3. ClientTypeOK'
    BY <1>1, <1>5, <1>b, <2>2 DEF ListenerReturns, ClientTypeOK
  <2>4. FeedOrder'
    BY <1>1, <1>n, <1>5, <1>b, <2>2 DEF ListenerReturns, FeedInv, FeedOrder
  <2>5. flags'.missed \/ NewsComes'
    BY <1>1, <1>5, <1>b, <2>2 DEF ListenerReturns, NewsComes
  <2> QED
    BY <2>3, <2>4, <2>5 DEF FeedInv
<1> QED
  BY <1>2, <1>3, <1>4, <1>5

\* Asking for a read, whatever else the step does, puts news on its way.
LEMMA AskedIsNews ==
    ASSUME ClientTypeOK, NEW r \in Reads, NEW kind \in {"slice", "all"}, NEW who \in Who \cup {Nobody},
           Ask(r, kind, who)
    PROVE  /\ read' \in [Reads -> ReadRows]
           /\ \A s \in Reads : read'[s].v = 0 \/ read'[s] = read[s]
           /\ read'[r].st = "asked"
<1>1. read \in [Reads -> ReadRows] /\ MaxCommits \in Nat
  BY ClientBounds DEF ClientTypeOK
<1> QED
  BY <1>1 DEF Ask, ReadRows

\* Signing in and out: with no token the next session reads everything first.
LEMMA SessionStep ==
    ASSUME FeedInv,
           \/ RestoreFinds \/ RestoreFindsNone \/ LoginPressed \/ (\E w \in Who : LoginAnswered(w))
           \/ LoginRefused \/ LogoutPressed \/ LogoutAnswered \/ SessionEnds
    PROVE  FeedInv'
<1>1. /\ db \in Feeds /\ ear \in BOOLEAN /\ alive \in Who \cup {Nobody}
      /\ tab \in Tabs /\ conn \in Streams
      /\ wire \in Seq({"changed", "resync"}) /\ pend \subseteq {"slice", "all"}
      /\ read \in [Reads -> ReadRows]
      /\ shown \in 0..MaxCommits /\ flags \in Histories /\ breaks \in 0..MaxBreaks
      /\ MaxCommits \in Nat /\ MaxBreaks \in Nat
  BY ClientBounds DEF FeedInv, ClientTypeOK
<1>n. /\ db.v \in Nat /\ db.out \in Nat /\ flags.seen \in Nat /\ shown \in Nat
      /\ \A r \in Reads : read[r].v \in Nat
  BY <1>1 DEF Feeds, Histories, ReadRows
<1>2. CASE RestoreFinds
  <2>1. PICK r \in Reads : Ask(r, "all", alive)
    BY <1>2 DEF RestoreFinds
  <2>2. /\ read' \in [Reads -> ReadRows] /\ read'[r].st = "asked"
        /\ \A s \in Reads : read'[s].v = 0 \/ read'[s] = read[s]
    BY <1>1, <2>1, AskedIsNews DEF FeedInv
  <2>3. tab' \in Tabs /\ tab'.token # Nobody
    BY <1>1, <1>2 DEF RestoreFinds, Tabs
  <2>4. ClientTypeOK'
    BY <1>1, <1>2, <2>2, <2>3 DEF RestoreFinds, ClientTypeOK
  <2>5. FeedOrder'
    BY <1>1, <1>n, <1>2, <2>2, <2>3 DEF RestoreFinds, FeedInv, FeedOrder
  <2>6. NewsComes'
    BY <2>2 DEF NewsComes
  <2> QED
    BY <2>4, <2>5, <2>6 DEF FeedInv
<1>3. ASSUME NEW w \in Who, LoginAnswered(w) PROVE FeedInv'
  <2>1. PICK r \in Reads : Ask(r, "all", w)
    BY <1>3 DEF LoginAnswered
  <2>2. /\ read' \in [Reads -> ReadRows] /\ read'[r].st = "asked"
        /\ \A s \in Reads : read'[s].v = 0 \/ read'[s] = read[s]
    BY <1>1, <2>1, AskedIsNews DEF FeedInv
  <2>3. tab' \in Tabs /\ tab'.token # Nobody
    BY <1>1, <1>3, ClientBounds DEF LoginAnswered, Tabs
  <2>4. flags' \in Histories /\ flags'.seen = shown
    BY <1>1, <1>3 DEF LoginAnswered, NoFlags, Histories
  <2>5. ClientTypeOK'
    BY <1>1, <1>3, <2>2, <2>3, <2>4 DEF LoginAnswered, ClientTypeOK
  <2>6. FeedOrder'
    <3>1. UNCHANGED <<db, conn, wire, shown>>
      BY <1>3 DEF LoginAnswered
    <3>2. \A s \in Reads : read'[s].v <= db.v
      BY <1>n, <2>2 DEF FeedInv, FeedOrder
    <3>3. shown <= db.v
      BY <1>n DEF FeedInv, FeedOrder
    <3> QED
      BY <1>n, <2>3, <2>4, <3>1, <3>2, <3>3 DEF FeedInv, FeedOrder
  <2>7. NewsComes'
    BY <2>2 DEF NewsComes
  <2> QED
    BY <2>5, <2>6, <2>7 DEF FeedInv
<1>4. CASE LogoutAnswered
  <2>1. tab' \in Tabs /\ tab'.token = Nobody
    BY <1>1, <1>4 DEF LogoutAnswered, Tabs
  <2>2. conn' = [st |-> "off", id |-> FALSE] /\ conn' \in Streams /\ wire' = <<>> /\ pend' = {}
    BY <1>4 DEF LogoutAnswered, Stop, Streams
  <2>3. ClientTypeOK'
    BY <1>1, <1>4, <2>1, <2>2 DEF LogoutAnswered, ClientTypeOK
  <2>4. FeedOrder'
    BY <1>1, <1>n, <1>4, <2>1, <2>2 DEF LogoutAnswered, FeedInv, FeedOrder
  <2>5. NewsComes'
    BY <2>1 DEF NewsComes
  <2> QED
    BY <2>3, <2>4, <2>5 DEF FeedInv
<1>5. CASE RestoreFindsNone \/ LoginPressed \/ LoginRefused \/ LogoutPressed \/ SessionEnds
  <2>1. tab' \in Tabs /\ tab'.token = tab.token
    BY <1>1, <1>5 DEF RestoreFindsNone, LoginPressed, LoginRefused, LogoutPressed, SessionEnds, Tabs
  <2>2. UNCHANGED <<db, ear, conn, wire, pend, read, shown, flags>>
    BY <1>5 DEF RestoreFindsNone, LoginPressed, LoginRefused, LogoutPressed, SessionEnds
  <2>3. alive' \in Who \cup {Nobody} /\ breaks' \in 0..MaxBreaks
    BY <1>1, <1>5, BreakType
    DEF RestoreFindsNone, LoginPressed, LoginRefused, LogoutPressed, SessionEnds, FeedInv
  <2>4. ClientTypeOK'
    BY <1>1, <2>1, <2>2, <2>3 DEF ClientTypeOK
  <2>5. FeedOrder' /\ (NewsComes => NewsComes')
    BY <2>1, <2>2 DEF FeedInv, FeedOrder, NewsComes
  <2> QED
    BY <2>2, <2>4, <2>5 DEF FeedInv
<1> QED
  BY <1>2, <1>3, <1>4, <1>5

\* Losing the session takes the token with the stream: the next session starts with a read.
LEMMA LostSession ==
    ASSUME ClientTypeOK, SessionLost
    PROVE  /\ tab' \in Tabs /\ tab'.token = Nobody
           /\ conn' \in Streams /\ conn'.st = "off" /\ wire' = <<>> /\ pend' = {}
  BY DEF ClientTypeOK, SessionLost, Stop, Tabs, Streams

\* Streams that open, are refused, drop and come back, the frames they bring and the flushes.
LEMMA StreamStep ==
    ASSUME FeedInv,
           \/ StreamOpens \/ StreamDenied \/ StreamRefused \/ StreamDrops \/ StreamRetries
           \/ OnFrame \/ Flush \/ RetrySnapshot
    PROVE  FeedInv'
<1>1. /\ db \in Feeds /\ ear \in BOOLEAN /\ alive \in Who \cup {Nobody}
      /\ tab \in Tabs /\ conn \in Streams
      /\ wire \in Seq({"changed", "resync"}) /\ pend \subseteq {"slice", "all"}
      /\ read \in [Reads -> ReadRows]
      /\ shown \in 0..MaxCommits /\ flags \in Histories /\ breaks \in 0..MaxBreaks
      /\ MaxCommits \in Nat /\ MaxBreaks \in Nat
  BY ClientBounds DEF FeedInv, ClientTypeOK
<1>n. /\ db.v \in Nat /\ db.out \in Nat /\ flags.seen \in Nat /\ shown \in Nat
      /\ \A r \in Reads : read[r].v \in Nat
  BY <1>1 DEF Feeds, Histories, ReadRows
<1>2. CASE StreamOpens
  <2>1. /\ conn' \in Streams /\ conn'.st = "live" /\ conn'.id = conn.id
        /\ wire' = (IF conn.id THEN <<"resync">> ELSE <<>>)
        /\ tab.token # Nobody /\ conn.st = "opening"
        /\ UNCHANGED <<db, ear, alive, tab, pend, read, shown, flags, breaks>>
    BY <1>1, <1>2 DEF StreamOpens, Streams
  <2>2. wire' \in Seq({"changed", "resync"}) /\ (conn.id => wire' # <<>>)
    <3>1. CASE conn.id
      <4>1. wire' = <<"resync">>
        BY <2>1, <3>1
      <4> QED
        BY <4>1
    <3>2. CASE ~conn.id
      <4>1. wire' = <<>>
        BY <2>1, <3>2
      <4> QED
        BY <3>2, <4>1
    <3> QED
      BY <3>1, <3>2
  <2>3. ClientTypeOK'
    BY <1>1, <2>1, <2>2 DEF ClientTypeOK
  <2>4. FeedOrder'
    BY <2>1 DEF FeedInv, FeedOrder
  <2>5. NewsComes => NewsComes'
    BY <2>1, <2>2 DEF NewsComes, FeedInv, FeedOrder
  <2> QED
    BY <2>1, <2>3, <2>4, <2>5 DEF FeedInv
<1>3. CASE StreamDenied
  <2>1. /\ tab' \in Tabs /\ tab'.token = Nobody
        /\ conn' \in Streams /\ conn'.st = "off" /\ wire' = <<>> /\ pend' = {}
        /\ UNCHANGED <<db, ear, alive, read, shown, flags, breaks>>
    BY <1>3, LostSession DEF StreamDenied, FeedInv
  <2>2. ClientTypeOK'
    BY <1>1, <2>1 DEF ClientTypeOK
  <2>3. FeedOrder' /\ NewsComes'
    BY <2>1 DEF FeedInv, FeedOrder, NewsComes
  <2> QED
    BY <2>2, <2>3 DEF FeedInv
<1>4. CASE StreamRefused \/ StreamRetries
  <2>1. /\ conn' \in Streams /\ conn'.st # "live" /\ conn.st # "live" /\ conn'.id = conn.id
        /\ UNCHANGED <<db, ear, alive, tab, wire, pend, read, shown, flags>>
    BY <1>1, <1>4 DEF StreamRefused, StreamRetries, Streams
  <2>2. breaks' \in 0..MaxBreaks
    BY <1>1, <1>4, BreakType DEF StreamRefused, StreamRetries, FeedInv
  <2>3. ClientTypeOK'
    BY <1>1, <2>1, <2>2 DEF ClientTypeOK
  <2>4. FeedOrder' /\ (NewsComes => NewsComes')
    BY <2>1 DEF FeedInv, FeedOrder, NewsComes
  <2> QED
    BY <2>1, <2>3, <2>4 DEF FeedInv
<1>5. CASE StreamDrops
  <2>1. /\ conn' \in Streams /\ conn'.st = "waiting" /\ conn'.id = conn.id /\ conn.st = "live"
        /\ wire' = <<>> /\ UNCHANGED <<db, ear, alive, tab, pend, read, shown>>
    BY <1>1, <1>5 DEF StreamDrops, Streams
  <2>2. /\ flags' = [flags EXCEPT !.missed = flags'.missed] /\ flags'.missed \in BOOLEAN
        /\ flags.missed => flags'.missed
        /\ wire # <<>> /\ ~conn.id => flags'.missed
    BY <1>1, <1>5 DEF StreamDrops, Histories
  <2>3. /\ flags' \in Histories /\ flags'.seen = flags.seen
        /\ flags.told => flags'.told
    BY <1>1, <2>2 DEF Histories
  <2>4. breaks' \in 0..MaxBreaks
    BY <1>5, BreakType DEF StreamDrops, FeedInv
  <2>5. ClientTypeOK'
    BY <1>1, <2>1, <2>3, <2>4 DEF ClientTypeOK
  <2>6. FeedOrder'
    BY <2>1, <2>3 DEF FeedInv, FeedOrder
  <2>7. NewsComes => NewsComes' \/ flags'.missed
    BY <2>1, <2>2 DEF NewsComes
  <2> QED
    BY <2>1, <2>2, <2>3, <2>5, <2>6, <2>7 DEF FeedInv
<1>6. CASE OnFrame
  <2>1. /\ conn' \in Streams /\ conn'.st = "live" /\ conn.st = "live"
        /\ pend' # {} /\ pend' \subseteq {"slice", "all"}
        /\ UNCHANGED <<db, ear, alive, tab, read, shown, flags, breaks>>
    BY <1>1, <1>6 DEF OnFrame, Streams
  <2>2. wire' \in Seq({"changed", "resync"})
    BY <1>1, <1>6 DEF OnFrame
  <2>3. ClientTypeOK'
    BY <1>1, <2>1, <2>2 DEF ClientTypeOK
  <2>4. FeedOrder' /\ NewsComes'
    BY <2>1 DEF FeedInv, FeedOrder, NewsComes
  <2> QED
    BY <2>3, <2>4 DEF FeedInv
<1>7. CASE Flush \/ RetrySnapshot
  <2>1. tab.token \in Who \cup {Nobody}
    BY <1>1 DEF Tabs
  <2>2. PICK r \in Reads, kind \in {"slice", "all"} : Ask(r, kind, tab.token)
    <3>1. CASE Flush
      <4>1. PICK r \in Reads : Ask(r, IF "all" \in pend THEN "all" ELSE "slice", tab.token)
        BY <3>1 DEF Flush
      <4> DEFINE kind == IF "all" \in pend THEN "all" ELSE "slice"
      <4>2. kind \in {"slice", "all"}
        OBVIOUS
      <4>3. Ask(r, kind, tab.token)
        BY <4>1
      <4> HIDE DEF kind
      <4> QED
        BY <4>2, <4>3
    <3>2. CASE RetrySnapshot
      BY <3>2 DEF RetrySnapshot
    <3> QED
      BY <1>7, <3>1, <3>2
  <2>3. /\ read' \in [Reads -> ReadRows] /\ read'[r].st = "asked"
        /\ \A s \in Reads : read'[s].v = 0 \/ read'[s] = read[s]
    BY <2>1, <2>2, AskedIsNews DEF FeedInv
  <2>4. /\ tab' \in Tabs /\ tab'.token = tab.token
        /\ pend' \subseteq {"slice", "all"}
        /\ UNCHANGED <<db, ear, alive, conn, wire, shown, flags, breaks>>
    BY <1>1, <1>7 DEF Flush, RetrySnapshot, Tabs
  <2>5. ClientTypeOK'
    BY <1>1, <2>3, <2>4 DEF ClientTypeOK
  <2>6. FeedOrder'
    <3>1. \A s \in Reads : read'[s].v <= db.v
      BY <1>n, <2>3 DEF FeedInv, FeedOrder
    <3> QED
      BY <2>4, <3>1 DEF FeedInv, FeedOrder
  <2>7. NewsComes'
    BY <2>3 DEF NewsComes
  <2> QED
    BY <2>5, <2>6, <2>7 DEF FeedInv
<1> QED
  BY <1>2, <1>3, <1>4, <1>5, <1>6, <1>7

\* A stream a landing snapshot opens is not live yet and keeps what ids it has seen.
LEMMA Reacting ==
    ASSUME ClientTypeOK, NEW auth, React(auth)
    PROVE  /\ conn' \in Streams /\ conn'.id = conn.id
           /\ conn'.st = conn.st \/ (conn.st # "live" /\ conn'.st # "live")
  BY DEF ClientTypeOK, React, Streams

\* Reads that are answered, land in any order, fail or end the session.
LEMMA ReadStep ==
    ASSUME FeedInv, NEW r \in Reads,
           ReadAnswered(r) \/ ReadApplied(r) \/ ReadFails(r) \/ ReadDenied(r)
    PROVE  FeedInv'
<1>1. /\ db \in Feeds /\ ear \in BOOLEAN /\ alive \in Who \cup {Nobody}
      /\ tab \in Tabs /\ conn \in Streams
      /\ wire \in Seq({"changed", "resync"}) /\ pend \subseteq {"slice", "all"}
      /\ read \in [Reads -> ReadRows] /\ read[r] \in ReadRows
      /\ shown \in 0..MaxCommits /\ flags \in Histories /\ breaks \in 0..MaxBreaks
      /\ MaxCommits \in Nat /\ MaxBreaks \in Nat
  BY ClientBounds DEF FeedInv, ClientTypeOK
<1>n. /\ db.v \in Nat /\ db.out \in Nat /\ flags.seen \in Nat /\ shown \in Nat
      /\ \A s \in Reads : read[s].v \in Nat
      /\ db.v \in 0..MaxCommits /\ read[r].v \in 0..MaxCommits /\ flags.seen \in 0..MaxCommits
      /\ read[r].who \in Who \cup {Nobody}
  BY <1>1 DEF Feeds, Histories, ReadRows
<1>i. Idle \in ReadRows /\ Idle.v = 0
  BY <1>1 DEF Idle, ReadRows
<1>2. CASE ReadAnswered(r)
  <2>1. UNCHANGED <<db, ear, alive, tab, conn, wire, pend, shown, flags, breaks>>
    BY <1>2 DEF ReadAnswered
  <2>2. /\ read' \in [Reads -> ReadRows] /\ read'[r].st = "answered" /\ read'[r].v = db.v
        /\ \A s \in Reads : s # r => read'[s] = read[s]
    BY <1>1, <1>n, <1>2 DEF ReadAnswered, ReadRows
  <2>3. ClientTypeOK'
    BY <1>1, <2>1, <2>2 DEF ClientTypeOK
  <2>4. FeedOrder'
    <3>1. \A s \in Reads : read'[s].v <= db.v
      BY <1>n, <2>2 DEF FeedInv, FeedOrder
    <3> QED
      BY <2>1, <3>1 DEF FeedInv, FeedOrder
  <2>5. NewsComes'
    BY <2>1, <2>2 DEF NewsComes
  <2> QED
    BY <2>3, <2>4, <2>5 DEF FeedInv
<1>3. CASE ReadApplied(r)
  <2>1. /\ UNCHANGED <<db, ear, alive, wire, pend, breaks>>
        /\ read[r].st = "answered" /\ shown' = read[r].v
        /\ read' = [read EXCEPT ![r] = Idle]
    BY <1>3 DEF ReadApplied
  <2>2. /\ read' \in [Reads -> ReadRows] /\ read'[r].v = 0
        /\ \A s \in Reads : s # r => read'[s] = read[s]
    BY <1>1, <1>i, <2>1
  <2>3. /\ flags' \in Histories /\ flags'.told = flags.told /\ flags'.missed = flags.missed
        /\ flags'.seen = IF flags.seen < read[r].v THEN read[r].v ELSE flags.seen
    BY <1>1, <1>n, <1>3 DEF ReadApplied, Histories
  <2>4. tab' \in Tabs /\ tab'.token = tab.token
    BY <1>1, <1>n, <1>3 DEF ReadApplied, Tabs
  <2>5. /\ conn' \in Streams /\ conn'.id = conn.id
        /\ conn'.st = conn.st \/ (conn.st # "live" /\ conn'.st # "live")
    BY <1>1, <1>3, Reacting DEF ReadApplied, FeedInv
  <2>6. ClientTypeOK'
    BY <1>1, <1>n, <2>1, <2>2, <2>3, <2>4, <2>5 DEF ClientTypeOK
  <2>7. FeedOrder'
    <3>1. \A s \in Reads : read'[s].v <= db.v
      BY <1>n, <2>2 DEF FeedInv, FeedOrder
    <3>2. read[r].v <= flags'.seen /\ flags'.seen <= db.v
      BY <1>n, <2>3 DEF FeedInv, FeedOrder
    <3> QED
      BY <2>1, <2>4, <2>5, <3>1, <3>2 DEF FeedInv, FeedOrder
  <2>8. flags'.seen < db.v => (NewsComes => NewsComes') /\ flags.seen < db.v
    <3> SUFFICES ASSUME flags'.seen < db.v
                 PROVE  (NewsComes => NewsComes') /\ flags.seen < db.v
      OBVIOUS
    <3>1. flags.seen < db.v /\ read[r].v # db.v
      BY <1>n, <2>3
    <3>2. NewsComes => NewsComes'
      BY <2>1, <2>2, <2>4, <2>5, <3>1 DEF NewsComes
    <3> QED
      BY <3>1, <3>2
  <2> QED
    BY <2>1, <2>3, <2>6, <2>7, <2>8 DEF FeedInv
<1>4. CASE ReadFails(r)
  <2>1. /\ UNCHANGED <<db, ear, alive, wire, pend, shown>>
        /\ read' = [read EXCEPT ![r] = Idle]
    BY <1>4 DEF ReadFails
  <2>2. /\ read' \in [Reads -> ReadRows] /\ read'[r].v = 0
        /\ \A s \in Reads : s # r => read'[s] = read[s]
    BY <1>1, <1>i, <2>1
  <2>3. flags' \in Histories /\ flags'.told /\ flags'.seen = flags.seen
    BY <1>1, <1>4 DEF ReadFails, Histories
  <2>4. tab' \in Tabs /\ tab'.token = tab.token
    BY <1>1, <1>4 DEF ReadFails, Tabs
  <2>5. /\ conn' \in Streams /\ conn'.id = conn.id
        /\ conn'.st = conn.st \/ (conn.st # "live" /\ conn'.st # "live")
    BY <1>1, <1>4, Reacting DEF ReadFails, FeedInv
  <2>6. breaks' \in 0..MaxBreaks
    BY <1>4, BreakType DEF ReadFails, FeedInv
  <2>7. ClientTypeOK'
    BY <1>1, <2>1, <2>2, <2>3, <2>4, <2>5, <2>6 DEF ClientTypeOK
  <2>8. FeedOrder'
    <3>1. \A s \in Reads : read'[s].v <= db.v
      BY <1>n, <2>2 DEF FeedInv, FeedOrder
    <3> QED
      BY <2>1, <2>3, <2>4, <2>5, <3>1 DEF FeedInv, FeedOrder
  <2> QED
    BY <2>3, <2>7, <2>8 DEF FeedInv
<1>5. CASE ReadDenied(r)
  <2>1. /\ tab' \in Tabs /\ tab'.token = Nobody
        /\ conn' \in Streams /\ conn'.st = "off" /\ wire' = <<>> /\ pend' = {}
        /\ UNCHANGED <<db, ear, alive, shown, flags, breaks>>
        /\ read' = [read EXCEPT ![r] = Idle]
    BY <1>5, LostSession DEF ReadDenied, FeedInv
  <2>2. /\ read' \in [Reads -> ReadRows] /\ read'[r].v = 0
        /\ \A s \in Reads : s # r => read'[s] = read[s]
    BY <1>1, <1>i, <2>1
  <2>3. ClientTypeOK'
    BY <1>1, <2>1, <2>2 DEF ClientTypeOK
  <2>4. FeedOrder'
    <3>1. \A s \in Reads : read'[s].v <= db.v
      BY <1>n, <2>2 DEF FeedInv, FeedOrder
    <3> QED
      BY <2>1, <3>1 DEF FeedInv, FeedOrder
  <2>5. NewsComes'
    BY <2>1 DEF NewsComes
  <2> QED
    BY <2>3, <2>4, <2>5 DEF FeedInv
<1> QED
  BY <1>2, <1>3, <1>4, <1>5

LEMMA FeedInvariant == ClientSpec => []FeedInv
<1>1. FeedInv /\ [ClientNext]_clientVars => FeedInv'
  <2> SUFFICES ASSUME FeedInv, [ClientNext]_clientVars PROVE FeedInv'
    OBVIOUS
  <2>1. CASE UNCHANGED clientVars
    BY <2>1 DEF clientVars, FeedInv, ClientTypeOK, FeedOrder, NewsComes
  <2> QED
    BY <2>1, FeedStep, SessionStep, StreamStep, ReadStep DEF ClientNext
<1> QED
  BY <1>1, InitFeed, PTL DEF ClientSpec

\* The state of a tab, of its stream and of its reads keeps its type whatever drops and fails.
THEOREM ClientTypesCorrect == ClientSpec => []ClientTypeOK
  BY FeedInvariant, PTL DEF FeedInv

\* For any number of operators, reads in flight, commits and faults: a tab that has gone quiet
\* behind the database was told of a failure, missed a notice it could not know of, or let an
\* older answer land last; no dropped listener and no dropped stream leaves it behind.
THEOREM QuietScreensAreCurrent == ClientSpec => []StaleOnlyUnseen
<1>1. FeedInv => StaleOnlyUnseen
  <2> SUFFICES ASSUME FeedInv, Quiet, shown # db.v
               PROVE  flags.told \/ flags.missed \/ shown < flags.seen
    BY DEF StaleOnlyUnseen
  <2>1. shown \in Nat /\ flags.seen \in Nat /\ db.v \in Nat
    BY ClientBounds DEF FeedInv, ClientTypeOK, Feeds, Histories
  <2>2. ~NewsComes
    BY DEF FeedInv, FeedOrder, Quiet, NewsComes
  <2>3. CASE flags.seen < db.v
    BY <2>2, <2>3 DEF FeedInv
  <2>4. CASE flags.seen = db.v
    BY <2>1, <2>4 DEF FeedInv, FeedOrder
  <2> QED
    BY <2>1, <2>3, <2>4 DEF FeedInv, FeedOrder
<1> QED
  BY <1>1, FeedInvariant, PTL

-----------------------------------------------------------------------------
(* The till.  Bills keep ids and tab numbers of their own whatever is      *)
(* begun, paid and discarded: a fresh id is past every id given so far,    *)
(* and a tab number the others leave free always exists.                   *)

BillRows == [id : Nat, n : Nat, lines : Nat, key : Nat, by : Cashiers \cup {NoOne}]
PayRows == [id : Nat, key : Nat, lines : Nat, done : BOOLEAN, try : Nat]

TillTypes ==
    /\ atTill \in [who : Cashiers \cup {NoOne}, pos : BOOLEAN]
    /\ till \in [bills : Seq(BillRows), active : Nat]
    /\ tillSeq \in Nat /\ begun \in Nat
    /\ IsFiniteSet(pays) /\ pays \subseteq PayRows
    /\ taken \in Seq(Nat)

IdsAreOld == tillSeq >= 1 /\ \A i \in DOMAIN till.bills : till.bills[i].id <= tillSeq

\* A Pay the server took is a sale of that very bill.
AnsweredIsTaken == \A p \in pays : p.done => p.key \in ToSet(taken)

TillInv == TillTypes /\ TillHoldsTogether /\ IdsAreOld /\ AnsweredIsTaken

\* A set of numbers that is not empty has a least one.
LEMMA LeastOfASet ==
    ASSUME NEW S, S \subseteq Nat, S # {}
    PROVE  \E x \in S : \A y \in S : x <= y
<1> DEFINE Below == {p \in Nat \X Nat : p[1] < p[2]}
<1>1. IsWellFoundedOn(Below, Nat)
  <2>1. IsWellFoundedOn(OpToRel(<, Nat), Nat)
    BY NatLessThanWellFounded
  <2>2. Below = OpToRel(<, Nat)
    BY DEF OpToRel
  <2> QED
    BY <2>1, <2>2
<1>2. PICK x \in S : \A y \in S : ~(<<y, x>> \in Below)
  <2> HIDE DEF Below
  <2> QED
    BY <1>1, WFMin
<1>3. ASSUME NEW y \in S PROVE x <= y
  <2>1. x \in Nat /\ y \in Nat /\ ~(y < x)
    BY <1>2
  <2> QED
    BY <2>1
<1> QED
  BY <1>3

\* Of one number more than there are bills, the bills leave one free, and so a lowest one.
LEMMA LowestIsFree ==
    ASSUME NEW bills \in Seq(BillRows)
    PROVE  /\ LowestFree(bills) \in Nat
           /\ \A i \in DOMAIN bills : bills[i].n # LowestFree(bills)
<1> DEFINE Used == {bills[i].n : i \in DOMAIN bills}
           OpenTabs == (1..(Len(bills) + 1)) \ Used
<1>1. DOMAIN bills = 1..Len(bills) /\ Len(bills) \in Nat
  OBVIOUS
<1>2. OpenTabs # {}
  <2> DEFINE number == [i \in DOMAIN bills |-> bills[i].n]
  <2>1. number \in Surjection(DOMAIN bills, Used)
    BY DEF Surjection
  <2>2. IsFiniteSet(1..Len(bills)) /\ Cardinality(1..Len(bills)) = Len(bills)
    <3>1. /\ IsFiniteSet(1..Len(bills))
          /\ Cardinality(1..Len(bills)) = IF 1 > Len(bills) THEN 0 ELSE Len(bills) - 1 + 1
      BY <1>1, FS_Interval
    <3> QED
      BY <1>1, <3>1
  <2>3. IsFiniteSet(Used) /\ Cardinality(Used) <= Len(bills)
    <3> HIDE DEF number, Used
    <3> QED
      BY <1>1, <2>1, <2>2, FS_Surjection
  <2>4. IsFiniteSet(1..(Len(bills) + 1)) /\ Cardinality(1..(Len(bills) + 1)) = Len(bills) + 1
    <3>1. Cardinality(1..(Len(bills) + 1))
              = IF 1 > Len(bills) + 1 THEN 0 ELSE Len(bills) + 1 - 1 + 1
      BY <1>1, FS_Interval
    <3> QED
      BY <1>1, <3>1, FS_Interval
  <2> SUFFICES ASSUME OpenTabs = {} PROVE FALSE
    OBVIOUS
  <2>5. 1..(Len(bills) + 1) \in SUBSET Used
    OBVIOUS
  <2>6. Cardinality(1..(Len(bills) + 1)) <= Cardinality(Used)
    <3> HIDE DEF Used
    <3> QED
      BY <2>3, <2>5, FS_Subset
  <2>7. Cardinality(Used) \in Nat
    <3> HIDE DEF Used
    <3> QED
      BY <2>3, FS_CardinalityType
  <2> HIDE DEF Used
  <2> QED
    BY <1>1, <2>3, <2>4, <2>6, <2>7
<1>3. PICK n \in OpenTabs : \A m \in OpenTabs : n <= m
  <2>1. OpenTabs \subseteq Nat
    OBVIOUS
  <2> HIDE DEF OpenTabs
  <2> QED
    BY <1>2, <2>1, LeastOfASet
<1>4. /\ n \in 1..(Len(bills) + 1)
      /\ \A i \in DOMAIN bills : bills[i].n # n
      /\ \A m \in 1..(n - 1) : \E i \in DOMAIN bills : bills[i].n = m
  <2>1. n \in 1..(Len(bills) + 1) /\ n \notin Used
    OBVIOUS
  <2>2. ASSUME NEW m \in 1..(n - 1) PROVE m \in Used
    <3>1. m \in 1..(Len(bills) + 1) /\ ~(n <= m)
      BY <1>1, <2>1
    <3> QED
      BY <1>3, <3>1
  <2> QED
    BY <2>1, <2>2
<1>5. /\ LowestFree(bills) \in 1..(Len(bills) + 1)
      /\ \A i \in DOMAIN bills : bills[i].n # LowestFree(bills)
  BY <1>4 DEF LowestFree
<1> QED
  BY <1>1, <1>5

\* Taking one out of a sequence closes the gap and changes nothing else.
LEMMA OneOut ==
    ASSUME NEW S, NEW s \in Seq(S), NEW at \in DOMAIN s
    PROVE  /\ RemoveAt(s, at) \in Seq(S) /\ Len(RemoveAt(s, at)) = Len(s) - 1
           /\ DOMAIN RemoveAt(s, at) = 1..(Len(s) - 1)
           /\ \A k \in 1..(Len(s) - 1) :
                  RemoveAt(s, at)[k] = IF k < at THEN s[k] ELSE s[k + 1]
<1> DEFINE a == SubSeq(s, 1, at - 1)
           b == SubSeq(s, at + 1, Len(s))
<1>1. at \in 1..Len(s) /\ Len(s) \in Nat
  OBVIOUS
<1>2. a \in Seq(S) /\ Len(a) = at - 1 /\ \A k \in 1..(at - 1) : a[k] = s[k]
  BY <1>1, SubSeqProperties
<1>3. /\ b \in Seq(S) /\ Len(b) = Len(s) - at
      /\ \A k \in 1..(Len(s) - at) : b[k] = s[at + k]
  <2>1. /\ b \in Seq(S)
        /\ Len(b) = IF at + 1 <= Len(s) THEN Len(s) - (at + 1) + 1 ELSE 0
        /\ \A k \in 1..(Len(s) - (at + 1) + 1) : b[k] = s[at + 1 + k - 1]
    BY <1>1, SubSeqProperties
  <2>2. Len(s) - (at + 1) + 1 = Len(s) - at
    BY <1>1
  <2>3. ASSUME NEW k \in 1..(Len(s) - at) PROVE b[k] = s[at + k]
    <3>1. at + 1 + k - 1 = at + k /\ k \in 1..(Len(s) - (at + 1) + 1)
      BY <1>1, <2>2
    <3> HIDE DEF b
    <3> QED
      BY <2>1, <3>1
  <2> HIDE DEF b
  <2> QED
    BY <1>1, <2>1, <2>2, <2>3
<1> HIDE DEF a, b
<1>4. /\ a \o b \in Seq(S) /\ Len(a \o b) = Len(a) + Len(b)
      /\ \A k \in 1..(Len(a) + Len(b)) : (a \o b)[k] = IF k <= Len(a) THEN a[k] ELSE b[k - Len(a)]
  BY <1>2, <1>3, ConcatProperties
<1>5. RemoveAt(s, at) = a \o b
  BY DEF RemoveAt, a, b
<1>6. ASSUME NEW k \in 1..(Len(s) - 1)
      PROVE  (a \o b)[k] = IF k < at THEN s[k] ELSE s[k + 1]
  <2>1. CASE k < at
    BY <1>1, <1>2, <1>3, <1>4, <2>1
  <2>2. CASE ~(k < at)
    <3>1. k - (at - 1) \in 1..(Len(s) - at) /\ at + (k - (at - 1)) = k + 1 /\ ~(k <= at - 1)
      BY <1>1, <2>2
    <3>2. (a \o b)[k] = b[k - (at - 1)]
      <4>1. Len(a) = at - 1 /\ Len(a) + Len(b) = Len(s) - 1
        BY <1>1, <1>2, <1>3
      <4>2. (a \o b)[k] = IF k <= Len(a) THEN a[k] ELSE b[k - Len(a)]
        BY <1>4, <4>1
      <4> QED
        BY <3>1, <4>1, <4>2
    <3> QED
      BY <1>3, <2>2, <3>1, <3>2
  <2> QED
    BY <2>1, <2>2
<1>7. /\ RemoveAt(s, at) \in Seq(S)
      /\ Len(RemoveAt(s, at)) = Len(s) - 1
  BY <1>1, <1>2, <1>3, <1>4, <1>5
<1>8. DOMAIN RemoveAt(s, at) = 1..(Len(s) - 1)
  BY <1>7
<1> QED
  BY <1>5, <1>6, <1>7, <1>8

\* withoutBill keeps every other bill, and the till in order.
LEMMA WithoutKeeps ==
    ASSUME TillInv, NEW id \in Nat, WithoutBill(id)
    PROVE  /\ till' \in [bills : Seq(BillRows), active : Nat]
           /\ tillSeq' \in Nat /\ begun' \in Nat
           /\ TillHoldsTogether' /\ IdsAreOld'
           /\ \A i \in DOMAIN till.bills :
                  till.bills[i].id # id => till.bills[i].key \in Keys(till')
<1> DEFINE at == CHOOSE i \in DOMAIN till.bills : till.bills[i].id = id
           rest == RemoveAt(till.bills, at)
           up == rest[IF at > 1 THEN at - 1 ELSE 1].id
           Goal == /\ till' \in [bills : Seq(BillRows), active : Nat]
                   /\ tillSeq' \in Nat /\ begun' \in Nat
                   /\ TillHoldsTogether' /\ IdsAreOld'
                   /\ \A i \in DOMAIN till.bills :
                          till.bills[i].id # id => till.bills[i].key \in Keys(till')
<1> SUFFICES Goal
  BY DEF Goal
<1>1. /\ till.bills \in Seq(BillRows) /\ till.active \in Nat
      /\ till = [bills |-> till.bills, active |-> till.active]
      /\ DOMAIN till.bills = 1..Len(till.bills) /\ Len(till.bills) \in Nat
      /\ tillSeq \in Nat /\ begun \in Nat
      /\ \A i \in DOMAIN till.bills : till.bills[i] \in BillRows
  BY DEF TillInv, TillTypes
<1>2. CASE id \notin BillIds /\ UNCHANGED <<till, tillSeq, begun>>
  BY <1>1, <1>2 DEF TillInv, TillTypes, TillHoldsTogether, IdsAreOld, BillIds, Keys
<1>3. CASE id \in BillIds
  <2>1. at \in DOMAIN till.bills /\ till.bills[at].id = id
    BY <1>3 DEF BillIds
  <2> HIDE DEF at
  <2>2. /\ rest \in Seq(BillRows) /\ Len(rest) = Len(till.bills) - 1
        /\ DOMAIN rest = 1..(Len(till.bills) - 1)
        /\ \A k \in 1..(Len(till.bills) - 1) :
               rest[k] = IF k < at THEN till.bills[k] ELSE till.bills[k + 1]
    BY <1>1, <2>1, OneOut
  <2> HIDE DEF rest
  <2>3. \A k \in DOMAIN rest : \E i \in DOMAIN till.bills :
            i # at /\ rest[k] = till.bills[i] /\ i = (IF k < at THEN k ELSE k + 1)
    BY <1>1, <2>1, <2>2
  <2>4. \A i \in DOMAIN till.bills : i # at => \E k \in DOMAIN rest : rest[k] = till.bills[i]
    <3> SUFFICES ASSUME NEW i \in DOMAIN till.bills, i # at
                 PROVE  \E k \in DOMAIN rest : rest[k] = till.bills[i]
      OBVIOUS
    <3>1. CASE i < at
      <4>1. i \in DOMAIN rest /\ rest[i] = till.bills[i]
        BY <1>1, <2>1, <2>2, <3>1
      <4> QED
        BY <4>1
    <3>2. CASE i > at
      <4>1. i - 1 \in DOMAIN rest /\ ~(i - 1 < at) /\ i - 1 + 1 = i
        BY <1>1, <2>1, <2>2, <3>2
      <4>2. rest[i - 1] = till.bills[i]
        BY <2>2, <4>1
      <4> QED
        BY <4>1, <4>2
    <3> QED
      BY <1>1, <2>1, <3>1, <3>2
  <2>5. CASE /\ rest = <<>>
             /\ till' = [bills |-> <<BlankBill(tillSeq + 1, 1, begun + 1)>>, active |-> tillSeq + 1]
             /\ tillSeq' = tillSeq + 1 /\ begun' = begun + 1
    <3>1. BlankBill(tillSeq + 1, 1, begun + 1) \in BillRows
      BY <1>1 DEF BlankBill, BillRows
    <3> DEFINE blank == BlankBill(tillSeq + 1, 1, begun + 1)
    <3>2. blank.id = tillSeq + 1 /\ blank.n = 1
      BY DEF BlankBill
    <3> HIDE DEF blank
    <3>3. /\ till' \in [bills : Seq(BillRows), active : Nat]
          /\ till'.bills = <<blank>> /\ till'.active = tillSeq + 1
          /\ DOMAIN till'.bills = {1} /\ Len(till'.bills) = 1 /\ till'.bills[1] = blank
      BY <1>1, <2>5, <3>1 DEF blank
    <3>4. TillHoldsTogether'
      BY <3>2, <3>3, TillBounds DEF TillHoldsTogether, BillIds
    <3>5. IdsAreOld'
      BY <1>1, <2>5, <3>2, <3>3 DEF IdsAreOld, TillInv
    <3>6. \A i \in DOMAIN till.bills : i = at
      BY <2>4, <2>5
    <3> QED
      BY <1>1, <2>1, <2>5, <3>3, <3>4, <3>5, <3>6
  <2>6. CASE /\ rest # <<>>
             /\ till' = [bills |-> rest, active |-> IF till.active = id THEN up ELSE till.active]
             /\ UNCHANGED <<tillSeq, begun>>
    <3>0. DOMAIN rest # {} /\ 1 \in DOMAIN rest
      <4>1. Len(rest) # 0 /\ Len(rest) \in Nat
        BY <2>2, <2>6
      <4>2. Len(rest) = Len(till.bills) - 1 /\ DOMAIN rest = 1..(Len(till.bills) - 1)
        BY <2>2
      <4>3. 1 \in 1..(Len(till.bills) - 1)
        <5>1. Len(till.bills) \in Nat
          BY <1>1
        <5> DEFINE all == Len(till.bills)
                   kept == Len(rest)
        <5>2. all \in Nat /\ kept \in Nat /\ kept # 0 /\ kept = all - 1
          BY <4>1, <4>2, <5>1
        <5> HIDE DEF all, kept
        <5>3. 1 \in 1..(all - 1)
          BY <5>2
        <5> QED
          BY <5>3 DEF all
      <4> QED
        BY <4>2, <4>3
    <3>1. \E k \in DOMAIN rest : up = rest[k].id
      <4> DEFINE k == IF at > 1 THEN at - 1 ELSE 1
      <4>1. k \in DOMAIN rest
        BY <1>1, <2>1, <2>2, <3>0
      <4> QED
        BY <4>1
    <3>2. \A k \in DOMAIN rest : rest[k] \in BillRows /\ rest[k].id \in Nat
      BY <1>1, <2>3 DEF BillRows
    <3> HIDE DEF up
    <3>3. /\ till'.bills = rest
          /\ till'.active = IF till.active = id THEN up ELSE till.active
      BY <2>6
    <3>4. till' \in [bills : Seq(BillRows), active : Nat]
      BY <1>1, <2>2, <2>6, <3>1, <3>2
    <3>5. till'.active \in BillIds'
      <4>1. CASE till.active = id
        BY <3>1, <3>3, <4>1 DEF BillIds
      <4>2. CASE till.active # id
        <5>1. PICK i \in DOMAIN till.bills : till.bills[i].id = till.active
          BY DEF TillInv, TillHoldsTogether, BillIds
        <5>2. i # at
          BY <2>1, <4>2, <5>1
        <5>3. PICK k \in DOMAIN rest : rest[k] = till.bills[i]
          BY <2>4, <5>2
        <5> QED
          BY <3>3, <4>2, <5>1, <5>3 DEF BillIds
      <4> QED
        BY <4>1, <4>2
    <3>6. \A j, k \in DOMAIN rest : j # k => rest[j].n # rest[k].n /\ rest[j].id # rest[k].id
      <4> SUFFICES ASSUME NEW j \in DOMAIN rest, NEW k \in DOMAIN rest, j # k
                   PROVE  rest[j].n # rest[k].n /\ rest[j].id # rest[k].id
        OBVIOUS
      <4>1. PICK x \in DOMAIN till.bills : rest[j] = till.bills[x] /\ x = (IF j < at THEN j ELSE j + 1)
        BY <2>3
      <4>2. PICK y \in DOMAIN till.bills : rest[k] = till.bills[y] /\ y = (IF k < at THEN k ELSE k + 1)
        BY <2>3
      <4>3. x # y
        BY <1>1, <2>1, <2>2, <4>1, <4>2
      <4> QED
        BY <4>1, <4>2, <4>3 DEF TillInv, TillHoldsTogether
    <3>7. TillHoldsTogether'
      <4>1. Len(rest) <= MAX_OPEN_BILLS
        <5>1. Len(till.bills) <= MAX_OPEN_BILLS
          BY DEF TillInv, TillHoldsTogether
        <5> QED
          BY <1>1, <2>2, <5>1, TillBounds
      <4> QED
        BY <2>6, <3>3, <3>5, <3>6, <4>1 DEF TillHoldsTogether
    <3>8. IdsAreOld'
      BY <2>3, <2>6, <3>3 DEF TillInv, IdsAreOld
    <3>9. \A i \in DOMAIN till.bills : till.bills[i].id # id => till.bills[i].key \in Keys(till')
      BY <2>1, <2>4, <3>3 DEF Keys
    <3> QED
      BY <1>1, <2>6, <3>4, <3>7, <3>8, <3>9
  <2> QED
    BY <1>3, <2>5, <2>6 DEF WithoutBill, rest, at, up
<1> HIDE DEF Goal
<1> QED
  BY <1>2, <1>3 DEF WithoutBill

\* Rewriting the bill on screen keeps every id, tab number and history.
LEMMA EditKeeps ==
    ASSUME TillInv, NEW lines \in Nat, NEW by \in Cashiers \cup {NoOne},
           EditActive(lines, by), tillSeq' = tillSeq
    PROVE  /\ till' \in [bills : Seq(BillRows), active : Nat]
           /\ TillHoldsTogether' /\ IdsAreOld'
           /\ \A i \in DOMAIN till.bills : till.bills[i].key \in Keys(till')
<1> DEFINE edited == [i \in DOMAIN till.bills |->
                        IF till.bills[i].id = till.active
                        THEN [till.bills[i] EXCEPT !.lines = lines, !.by = by]
                        ELSE till.bills[i]]
<1>1. /\ till.bills \in Seq(BillRows) /\ till.active \in Nat
      /\ till = [bills |-> till.bills, active |-> till.active]
      /\ DOMAIN till.bills = 1..Len(till.bills) /\ Len(till.bills) \in Nat
      /\ \A i \in DOMAIN till.bills : till.bills[i] \in BillRows
  BY DEF TillInv, TillTypes
<1>2. till' = [bills |-> edited, active |-> till.active]
  BY <1>1 DEF EditActive
<1>3. ASSUME NEW i \in DOMAIN till.bills
      PROVE  /\ edited[i] \in BillRows /\ edited[i].id = till.bills[i].id
             /\ edited[i].n = till.bills[i].n /\ edited[i].key = till.bills[i].key
  <2>1. till.bills[i] \in BillRows
    BY <1>1
  <2> DEFINE b == till.bills[i]
  <2>2. [b EXCEPT !.lines = lines, !.by = by] =
            [id |-> b.id, n |-> b.n, lines |-> lines, key |-> b.key, by |-> by]
    <3> HIDE DEF b
    <3>1. b \in BillRows
      BY <2>1 DEF b
    <3> DEFINE scanned == [b EXCEPT !.lines = lines]
    <3>2. scanned = [id |-> b.id, n |-> b.n, lines |-> lines, key |-> b.key, by |-> b.by]
      BY <3>1 DEF BillRows
    <3>3. [scanned EXCEPT !.by = by] =
              [id |-> scanned.id, n |-> scanned.n, lines |-> scanned.lines, key |-> scanned.key, by |-> by]
      <4>1. DOMAIN scanned = {"id", "n", "lines", "key", "by"} /\ scanned = [f \in DOMAIN scanned |-> scanned[f]]
        BY <3>2
      <4> HIDE DEF scanned
      <4> QED
        BY <4>1
    <3>4. /\ scanned.id = b.id /\ scanned.n = b.n /\ scanned.lines = lines
          /\ scanned.key = b.key
      BY <3>2
    <3> QED
      BY <3>3, <3>4
  <2> QED
    BY <2>1, <2>2 DEF BillRows
<1>4. DOMAIN edited = 1..Len(till.bills)
  BY <1>1
<1> HIDE DEF edited
<1>5. edited \in Seq(BillRows) /\ Len(edited) = Len(till.bills) /\ DOMAIN edited = DOMAIN till.bills
  <2>1. edited = [i \in 1..Len(till.bills) |-> edited[i]]
    BY <1>1, <1>4 DEF edited
  <2>2. \A i \in 1..Len(till.bills) : edited[i] \in BillRows
    BY <1>1, <1>3
  <2> QED
    BY <1>1, <1>4, <2>1, <2>2
<1>6. till'.bills = edited /\ till'.active = till.active
  BY <1>2
<1>7. TillHoldsTogether'
  <2>1. edited # <<>> /\ Len(edited) <= MAX_OPEN_BILLS
    BY <1>1, <1>5 DEF TillInv, TillHoldsTogether
  <2>2. till'.active \in BillIds'
    BY <1>3, <1>5, <1>6 DEF TillInv, TillHoldsTogether, BillIds
  <2> QED
    BY <1>3, <1>5, <1>6, <2>1, <2>2 DEF TillInv, TillHoldsTogether
<1> QED
  BY <1>1, <1>2, <1>3, <1>5, <1>6, <1>7 DEF TillInv, IdsAreOld, Keys

\* newBill: the bill begun gets an id past every other and a tab number of its own.
LEMMA BeginKeeps ==
    ASSUME TillInv, NewBill
    PROVE  /\ till' \in [bills : Seq(BillRows), active : Nat]
           /\ tillSeq' \in Nat /\ begun' \in Nat
           /\ TillHoldsTogether' /\ IdsAreOld'
           /\ \A i \in DOMAIN till.bills : till.bills[i].key \in Keys(till')
<1> DEFINE fresh == BlankBill(tillSeq + 1, LowestFree(till.bills), begun + 1)
           more == Append(till.bills, fresh)
<1>1. /\ till.bills \in Seq(BillRows)
      /\ DOMAIN till.bills = 1..Len(till.bills) /\ Len(till.bills) \in Nat
      /\ tillSeq \in Nat /\ begun \in Nat
      /\ \A i \in DOMAIN till.bills : till.bills[i] \in BillRows /\ till.bills[i].id \in Nat
  <2>1. /\ till.bills \in Seq(BillRows) /\ tillSeq \in Nat /\ begun \in Nat
        /\ DOMAIN till.bills = 1..Len(till.bills) /\ Len(till.bills) \in Nat
        /\ \A i \in DOMAIN till.bills : till.bills[i] \in BillRows
    BY DEF TillInv, TillTypes
  <2> QED
    BY <2>1 DEF BillRows
<1>2. /\ LowestFree(till.bills) \in Nat
      /\ \A i \in DOMAIN till.bills : till.bills[i].n # LowestFree(till.bills)
  BY <1>1, LowestIsFree
<1>3. /\ fresh \in BillRows /\ fresh.id = tillSeq + 1 /\ fresh.n = LowestFree(till.bills)
  BY <1>1, <1>2 DEF BlankBill, BillRows
<1>4. /\ till' = [bills |-> more, active |-> tillSeq + 1]
      /\ tillSeq' = tillSeq + 1 /\ begun' = begun + 1 /\ Len(till.bills) < MAX_OPEN_BILLS
  BY DEF NewBill
<1> HIDE DEF fresh
<1>5. /\ more \in Seq(BillRows) /\ Len(more) = Len(till.bills) + 1
      /\ DOMAIN more = 1..(Len(till.bills) + 1)
      /\ more[Len(till.bills) + 1] = fresh
      /\ \A i \in DOMAIN till.bills : more[i] = till.bills[i]
  BY <1>1, <1>3
<1>6. \A k \in DOMAIN more : \/ k \in DOMAIN till.bills /\ more[k] = till.bills[k]
                             \/ k = Len(till.bills) + 1 /\ more[k] = fresh
  BY <1>1, <1>5
<1> HIDE DEF more
<1>7. till'.bills = more /\ till'.active = tillSeq + 1
  BY <1>4
<1>8. \A i \in DOMAIN till.bills : till.bills[i].id # fresh.id /\ till.bills[i].n # fresh.n
  BY <1>1, <1>2, <1>3 DEF TillInv, IdsAreOld
<1>9. \A j, k \in DOMAIN more : j # k => more[j].n # more[k].n /\ more[j].id # more[k].id
  <2> SUFFICES ASSUME NEW j \in DOMAIN more, NEW k \in DOMAIN more, j # k
               PROVE  more[j].n # more[k].n /\ more[j].id # more[k].id
    OBVIOUS
  <2>1. CASE j \in DOMAIN till.bills /\ k \in DOMAIN till.bills
    <3>1. more[j] = till.bills[j] /\ more[k] = till.bills[k]
      BY <1>5, <2>1
    <3> QED
      BY <2>1, <3>1 DEF TillInv, TillHoldsTogether
  <2>2. CASE j \in DOMAIN till.bills /\ k \notin DOMAIN till.bills
    BY <1>6, <1>8, <2>2
  <2>3. CASE j \notin DOMAIN till.bills
    BY <1>6, <1>8, <2>3
  <2> QED
    BY <2>1, <2>2, <2>3
<1>10. TillHoldsTogether'
  <2>1. more # <<>> /\ Len(more) <= MAX_OPEN_BILLS
    BY <1>1, <1>4, <1>5, TillBounds
  <2>2. Len(till.bills) + 1 \in DOMAIN more
    BY <1>1, <1>5
  <2>3. till'.active \in BillIds'
    BY <1>3, <1>5, <1>7, <2>2 DEF BillIds
  <2> QED
    BY <1>7, <1>9, <2>1, <2>3 DEF TillHoldsTogether
<1>11. IdsAreOld'
  <2>1. \A k \in DOMAIN more : more[k].id <= tillSeq + 1
    BY <1>1, <1>3, <1>6 DEF TillInv, IdsAreOld
  <2> QED
    BY <1>1, <1>4, <1>7, <2>1 DEF TillInv, IdsAreOld
<1>12. \A i \in DOMAIN till.bills : till.bills[i].key \in Keys(till')
  <2>1. \A i \in DOMAIN till.bills : i \in DOMAIN more /\ more[i] = till.bills[i]
    BY <1>1, <1>5
  <2> QED
    BY <1>7, <2>1 DEF Keys
<1> QED
  BY <1>1, <1>4, <1>5, <1>10, <1>11, <1>12

\* Every step of the operator, and every answer, keeps the till in order.
LEMMA TillInvHoldsAtFirst == TillInit => TillInv
<1> SUFFICES ASSUME TillInit PROVE TillInv
  OBVIOUS
<1> DEFINE blank == BlankBill(1, 1, 1)
<1>1. blank \in BillRows /\ blank.id = 1 /\ blank.n = 1
  BY DEF BlankBill, BillRows
<1> HIDE DEF blank
<1>2. /\ till = [bills |-> <<blank>>, active |-> 1]
      /\ DOMAIN till.bills = {1} /\ Len(till.bills) = 1 /\ till.bills[1] = blank
  BY <1>1 DEF TillInit, FreshTill, blank
<1>3. till \in [bills : Seq(BillRows), active : Nat]
  BY <1>1, <1>2
<1>4. IsFiniteSet(pays) /\ pays = {}
  BY FS_EmptySet DEF TillInit
<1>5. TillTypes
  <2>1. atTill = [who |-> NoOne, pos |-> FALSE] /\ tillSeq = 1 /\ begun = 1 /\ taken = <<>>
    BY DEF TillInit
  <2>2. atTill \in [who : Cashiers \cup {NoOne}, pos : BOOLEAN]
    BY <2>1
  <2>3. tillSeq \in Nat /\ begun \in Nat /\ taken \in Seq(Nat)
    BY <2>1
  <2> QED
    BY <1>3, <1>4, <2>2, <2>3 DEF TillTypes
<1>6. TillHoldsTogether
  BY <1>1, <1>2, TillBounds DEF TillHoldsTogether, BillIds
<1>7. IdsAreOld /\ AnsweredIsTaken
  BY <1>1, <1>2, <1>4 DEF IdsAreOld, AnsweredIsTaken, TillInit
<1> QED
  BY <1>5, <1>6, <1>7 DEF TillInv

\* The operator's own steps: no Pay changes, no bill is taken.
LEMMA OperatorKeeps ==
    ASSUME TillInv,
           \/ \E w \in Cashiers : TillSignIn(w)
           \/ TillSignOut \/ TillSessionLost \/ OpenPos \/ LeavePos
           \/ AddToCart \/ ClearCart \/ NewBill \/ DiscardBill
           \/ \E id \in BillIds : SwitchBill(id)
    PROVE  TillInv'
<1> DEFINE Folk == Cashiers \cup {NoOne}
           Tills == [bills : Seq(BillRows), active : Nat]
<1>1. /\ atTill \in [who : Folk, pos : BOOLEAN] /\ till \in Tills
      /\ tillSeq \in Nat /\ begun \in Nat
      /\ IsFiniteSet(pays) /\ pays \subseteq PayRows /\ taken \in Seq(Nat)
      /\ TillHoldsTogether /\ IdsAreOld /\ AnsweredIsTaken
  BY DEF TillInv, TillTypes
<1>2. pays' = pays /\ taken' = taken
  BY DEF TillSignIn, TillSignOut, TillSessionLost, OpenPos, LeavePos, AddToCart, ClearCart,
         NewBill, DiscardBill, SwitchBill
<1>3. NoOne \in Folk /\ Cashiers \subseteq Folk
  OBVIOUS
<1> HIDE DEF Folk
<1>4. atTill' \in [who : Folk, pos : BOOLEAN]
  <2>1. CASE \E w \in Cashiers : atTill' = [who |-> w, pos |-> FALSE]
    BY <1>3, <2>1
  <2>2. CASE atTill' = [who |-> NoOne, pos |-> FALSE]
    BY <1>3, <2>2
  <2>3. CASE atTill' = [atTill EXCEPT !.pos = TRUE]
    BY <1>1, <2>3
  <2>4. CASE atTill' = [atTill EXCEPT !.pos = FALSE]
    BY <1>1, <2>4
  <2>5. CASE atTill' = atTill
    BY <1>1, <2>5
  <2> QED
    BY <2>1, <2>2, <2>3, <2>4, <2>5
       DEF TillSignIn, TillSignOut, TillSessionLost, OpenPos, LeavePos, AddToCart,
           ClearCart, NewBill, DiscardBill, SwitchBill
<1>5. SUFFICES till' \in Tills /\ tillSeq' \in Nat /\ begun' \in Nat /\ TillHoldsTogether' /\ IdsAreOld'
  <2>1. AnsweredIsTaken'
    BY <1>1, <1>2 DEF AnsweredIsTaken
  <2> QED
    BY <1>1, <1>2, <1>4, <2>1 DEF TillInv, TillTypes, Folk
<1>6. /\ till.bills \in Seq(BillRows) /\ till.active \in Nat
      /\ till = [bills |-> till.bills, active |-> till.active]
      /\ \A i \in DOMAIN till.bills : till.bills[i] \in BillRows
  BY <1>1
<1>7. CASE UNCHANGED <<till, tillSeq, begun>>
  BY <1>1, <1>7 DEF TillHoldsTogether, IdsAreOld, BillIds
<1>8. CASE TillSignOut
  <2> DEFINE blank == BlankBill(1, 1, begun + 1)
  <2>1. blank \in BillRows /\ blank.id = 1 /\ blank.n = 1
    BY <1>1 DEF BlankBill, BillRows
  <2> HIDE DEF blank
  <2>2. till' = [bills |-> <<blank>>, active |-> 1] /\ tillSeq' = tillSeq /\ begun' = begun + 1
    BY <1>8 DEF TillSignOut, FreshTill, blank
  <2>3. /\ till'.bills = <<blank>> /\ till'.active = 1
        /\ DOMAIN till'.bills = {1} /\ Len(till'.bills) = 1 /\ till'.bills[1] = blank
    BY <2>1, <2>2
  <2>4. till' \in Tills
    BY <2>1, <2>2
  <2>5. TillHoldsTogether'
    BY <2>1, <2>3, TillBounds DEF TillHoldsTogether, BillIds
  <2>6. IdsAreOld'
    BY <1>1, <2>1, <2>2, <2>3 DEF IdsAreOld
  <2> QED
    BY <1>1, <2>2, <2>4, <2>5, <2>6
<1>9. CASE AddToCart \/ ClearCart
  <2>1. PICK i \in DOMAIN till.bills : till.bills[i].id = till.active /\ ActiveBill = till.bills[i]
    BY <1>1 DEF TillHoldsTogether, BillIds, ActiveBill
  <2>2. ActiveBill.lines \in Nat /\ ActiveBill.by \in Folk
    <3>1. ActiveBill \in BillRows
      BY <1>6, <2>1
    <3> QED
      BY <3>1 DEF BillRows, Folk
  <2>3. tillSeq' = tillSeq /\ begun' = begun
    BY <1>9 DEF AddToCart, ClearCart
  <2>4. PICK lines \in Nat, by \in Folk : EditActive(lines, by)
    <3>1. CASE AddToCart
      <4>1. atTill.who \in Folk /\ ActiveBill.lines + 1 \in Nat
        BY <1>1, <2>2
      <4>2. EditActive(ActiveBill.lines + 1, atTill.who)
        BY <3>1 DEF AddToCart
      <4> QED
        BY <4>1, <4>2
    <3>2. CASE ClearCart
      BY <2>2, <3>2 DEF ClearCart
    <3> QED
      BY <1>9, <3>1, <3>2
  <2> QED
    BY <1>1, <2>3, <2>4, EditKeeps DEF Folk
<1>10. CASE NewBill
  BY <1>10, BeginKeeps
<1>11. CASE DiscardBill
  <2>1. WithoutBill(till.active)
    BY <1>11 DEF DiscardBill
  <2> QED
    BY <1>6, <2>1, WithoutKeeps
<1>12. ASSUME NEW id \in BillIds, SwitchBill(id)
       PROVE  till' \in Tills /\ tillSeq' \in Nat /\ begun' \in Nat /\ TillHoldsTogether' /\ IdsAreOld'
  <2>1. /\ till' = [bills |-> till.bills, active |-> id]
        /\ tillSeq' = tillSeq /\ begun' = begun
    BY <1>6, <1>12 DEF SwitchBill
  <2>2. id \in Nat
    BY <1>6 DEF BillIds, BillRows
  <2>3. till'.bills = till.bills /\ till'.active = id /\ BillIds' = BillIds
    BY <2>1 DEF BillIds
  <2>4. till' \in Tills
    BY <1>6, <2>1, <2>2
  <2>5. TillHoldsTogether'
    BY <1>1, <2>3 DEF TillHoldsTogether
  <2>6. IdsAreOld'
    BY <1>1, <2>1, <2>3 DEF IdsAreOld
  <2> QED
    BY <1>1, <2>1, <2>4, <2>5, <2>6
<1> HIDE DEF Tills
<1> QED
  BY <1>7, <1>8, <1>9, <1>10, <1>11, <1>12
     DEF TillSignIn, TillSessionLost, OpenPos, LeavePos

\* Pay out and its answer: what the server took is on its record before the answer is.
LEMMA PayKeeps ==
    ASSUME TillInv,
           \/ PayPressed
           \/ \E p \in pays : ServerTakes(p) \/ PayRefused(p) \/ PayAnswered(p)
    PROVE  TillInv'
<1>1. /\ TillTypes /\ TillHoldsTogether /\ IdsAreOld /\ AnsweredIsTaken
      /\ atTill' = atTill
  BY DEF TillInv, PayPressed, ServerTakes, PayRefused, PayAnswered
<1>2. /\ atTill \in [who : Cashiers \cup {NoOne}, pos : BOOLEAN]
      /\ till \in [bills : Seq(BillRows), active : Nat]
      /\ till.bills \in Seq(BillRows) /\ till.active \in Nat
      /\ \A i \in DOMAIN till.bills : till.bills[i] \in BillRows
      /\ tillSeq \in Nat /\ begun \in Nat
      /\ IsFiniteSet(pays) /\ pays \subseteq PayRows /\ taken \in Seq(Nat)
  BY <1>1 DEF TillTypes
<1>3. ASSUME till' = till, tillSeq' = tillSeq, begun' = begun,
             IsFiniteSet(pays'), pays' \subseteq PayRows, taken' \in Seq(Nat), AnsweredIsTaken'
      PROVE  TillInv'
  <2>1. TillHoldsTogether' /\ IdsAreOld'
    BY <1>1, <1>3 DEF TillHoldsTogether, IdsAreOld, BillIds
  <2>2. TillTypes'
    BY <1>1, <1>2, <1>3 DEF TillTypes
  <2> QED
    BY <1>3, <2>1, <2>2 DEF TillInv
<1>4. CASE PayPressed
  <2> DEFINE p == [id |-> till.active, key |-> ActiveBill.key, lines |-> ActiveBill.lines,
                   done |-> FALSE, try |-> Len(taken) + Cardinality(pays)]
  <2>1. /\ pays' = pays \cup {p} /\ taken' = taken
        /\ till' = till /\ tillSeq' = tillSeq /\ begun' = begun
    BY <1>4 DEF PayPressed
  <2>2. ActiveBill \in BillRows
    BY <1>1, <1>2 DEF TillHoldsTogether, BillIds, ActiveBill
  <2>3. Len(taken) + Cardinality(pays) \in Nat
    <3>1. Cardinality(pays) \in Nat
      BY <1>2, FS_CardinalityType
    <3> QED
      BY <1>2, <3>1
  <2>4. p \in PayRows
    <3>1. ActiveBill.key \in Nat /\ ActiveBill.lines \in Nat
      BY <2>2 DEF BillRows
    <3> QED
      BY <1>2, <2>3, <3>1 DEF PayRows
  <2>5. p.done = FALSE
    OBVIOUS
  <2> HIDE DEF p
  <2>6. IsFiniteSet(pays')
    BY <1>2, <2>1, FS_AddElement
  <2>7. AnsweredIsTaken'
    BY <1>1, <2>1, <2>5 DEF AnsweredIsTaken
  <2> QED
    BY <1>2, <1>3, <2>1, <2>4, <2>6, <2>7
<1>5. ASSUME NEW p \in pays, ServerTakes(p) PROVE TillInv'
  <2> DEFINE q == [p EXCEPT !.done = TRUE]
  <2>1. /\ pays' = (pays \ {p}) \cup {q} /\ taken' = Append(taken, p.key)
        /\ till' = till /\ tillSeq' = tillSeq /\ begun' = begun
    BY <1>5 DEF ServerTakes
  <2>2. q \in PayRows /\ q.key = p.key /\ p.key \in Nat
    BY <1>2 DEF PayRows
  <2> HIDE DEF q
  <2>3. IsFiniteSet(pays')
    <3>1. IsFiniteSet(pays \ {p})
      BY <1>2, FS_Difference
    <3> QED
      BY <2>1, <3>1, FS_AddElement
  <2>4. taken' \in Seq(Nat) /\ p.key \in ToSet(taken') /\ ToSet(taken) \subseteq ToSet(taken')
    <3>1. /\ taken' \in Seq(Nat) /\ Len(taken') = Len(taken) + 1
          /\ taken'[Len(taken) + 1] = p.key
          /\ \A i \in 1..Len(taken) : taken'[i] = taken[i]
      BY <1>2, <2>1, <2>2
    <3>2. DOMAIN taken = 1..Len(taken) /\ DOMAIN taken' = 1..(Len(taken) + 1) /\ Len(taken) \in Nat
      BY <1>2, <3>1
    <3>3. Len(taken) + 1 \in DOMAIN taken' /\ DOMAIN taken \subseteq DOMAIN taken'
      BY <3>2
    <3> QED
      BY <3>1, <3>2, <3>3 DEF ToSet
  <2>5. AnsweredIsTaken'
    BY <1>1, <2>1, <2>2, <2>4 DEF AnsweredIsTaken
  <2> QED
    BY <1>2, <1>3, <2>1, <2>2, <2>3, <2>4, <2>5
<1>6. ASSUME NEW p \in pays, PayRefused(p) PROVE TillInv'
  <2>1. /\ pays' = pays \ {p} /\ taken' = taken
        /\ till' = till /\ tillSeq' = tillSeq /\ begun' = begun
    BY <1>6 DEF PayRefused
  <2>2. IsFiniteSet(pays')
    BY <1>2, <2>1, FS_Difference
  <2>3. AnsweredIsTaken'
    BY <1>1, <2>1 DEF AnsweredIsTaken
  <2> QED
    BY <1>2, <1>3, <2>1, <2>2, <2>3
<1>7. ASSUME NEW p \in pays, PayAnswered(p) PROVE TillInv'
  <2>1. pays' = pays \ {p} /\ taken' = taken /\ WithoutBill(p.id) /\ p.id \in Nat
    BY <1>2, <1>7 DEF PayAnswered, PayRows
  <2>2. IsFiniteSet(pays')
    BY <1>2, <2>1, FS_Difference
  <2>3. AnsweredIsTaken'
    BY <1>1, <2>1 DEF AnsweredIsTaken
  <2>4. /\ till' \in [bills : Seq(BillRows), active : Nat]
        /\ tillSeq' \in Nat /\ begun' \in Nat
        /\ TillHoldsTogether' /\ IdsAreOld'
    BY <2>1, WithoutKeeps
  <2>5. TillTypes'
    BY <1>1, <1>2, <2>1, <2>2, <2>4 DEF TillTypes
  <2> QED
    BY <2>3, <2>4, <2>5 DEF TillInv
<1> QED
  BY <1>4, <1>5, <1>6, <1>7

LEMMA TillStep == TillInv /\ [TillNext]_tillVars => TillInv'
<1> SUFFICES ASSUME TillInv, [TillNext]_tillVars PROVE TillInv'
  OBVIOUS
<1>1. CASE \/ \E w \in Cashiers : TillSignIn(w)
           \/ TillSignOut \/ TillSessionLost \/ OpenPos \/ LeavePos
           \/ AddToCart \/ ClearCart \/ NewBill \/ DiscardBill
           \/ \E id \in BillIds : SwitchBill(id)
  BY <1>1, OperatorKeeps
<1>2. CASE \/ PayPressed
           \/ \E p \in pays : ServerTakes(p) \/ PayRefused(p) \/ PayAnswered(p)
  BY <1>2, PayKeeps
<1>3. CASE UNCHANGED tillVars
  BY <1>3 DEF tillVars, TillInv, TillTypes, TillHoldsTogether, IdsAreOld, AnsweredIsTaken, BillIds
<1> QED
  BY <1>1, <1>2, <1>3 DEF TillNext

\* In every run of the till its bills keep ids and tab numbers of their own (till.ts newBill,
\* withoutBill), whatever answers land in whatever order.
THEOREM TillKeepsItsBillsApart == TillSpec => []TillHoldsTogether
<1>1. TillInit => TillInv
  BY TillInvHoldsAtFirst
<1>2. TillInv /\ [TillNext]_tillVars => TillInv'
  BY TillStep
<1>3. TillInv => TillHoldsTogether
  BY DEF TillInv
<1> QED
  BY <1>1, <1>2, <1>3, PTL DEF TillSpec

\* A step that takes scanned bills off the till takes them for one of the four reasons.
LEMMA NothingElseTakesABill ==
    ASSUME TillInv, TillNext,
           NEW i \in DOMAIN till.bills, till.bills[i].lines > 0,
           till.bills[i].key \notin Keys(till')
    PROVE  \/ till.bills[i].key \in ToSet(taken)
           \/ DiscardBill /\ till.bills[i].id = till.active
           \/ TillSignOut
           \/ \E p \in pays \ pays' : p.id = till.bills[i].id /\ p.key # till.bills[i].key
<1>1. /\ till.bills[i] \in BillRows /\ till.active \in Nat /\ pays \subseteq PayRows
      /\ AnsweredIsTaken
      /\ till.bills \in Seq(BillRows)
      /\ \A j \in DOMAIN till.bills : till.bills[j] \in BillRows
  BY DEF TillInv, TillTypes
<1>2. till' # till
  BY DEF Keys
<1>3. CASE TillSignOut
  BY <1>3
<1>4. CASE DiscardBill
  <2>1. WithoutBill(till.active)
    BY <1>4 DEF DiscardBill
  <2>2. till.bills[i].id = till.active
    BY <1>1, <2>1, WithoutKeeps
  <2> QED
    BY <1>4, <2>2
<1>5. ASSUME NEW p \in pays, PayAnswered(p)
      PROVE  \/ till.bills[i].key \in ToSet(taken)
             \/ \E q \in pays \ pays' : q.id = till.bills[i].id /\ q.key # till.bills[i].key
  <2>1. pays' = pays \ {p} /\ p.done /\ WithoutBill(p.id) /\ p.id \in Nat
    BY <1>1, <1>5 DEF PayAnswered, PayRows
  <2>2. till.bills[i].id = p.id
    BY <2>1, WithoutKeeps
  <2>3. p \in pays \ pays'
    BY <2>1
  <2>4. p.key \in ToSet(taken)
    BY <1>1, <2>1 DEF AnsweredIsTaken
  <2> QED
    BY <2>2, <2>3, <2>4
<1>6. ~(AddToCart \/ ClearCart)
  <2> SUFFICES ASSUME AddToCart \/ ClearCart PROVE FALSE
    OBVIOUS
  <2>1. PICK k \in DOMAIN till.bills : till.bills[k].id = till.active /\ ActiveBill = till.bills[k]
    BY DEF TillInv, TillHoldsTogether, BillIds, ActiveBill
  <2>2. ActiveBill.lines \in Nat /\ ActiveBill.by \in Cashiers \cup {NoOne}
        /\ atTill.who \in Cashiers \cup {NoOne}
    <3>1. ActiveBill \in BillRows
      BY <1>1, <2>1
    <3>2. atTill \in [who : Cashiers \cup {NoOne}, pos : BOOLEAN]
      BY DEF TillInv, TillTypes
    <3> QED
      BY <3>1, <3>2 DEF BillRows
  <2>3. PICK lines \in Nat, by \in Cashiers \cup {NoOne} : EditActive(lines, by) /\ tillSeq' = tillSeq
    <3>1. CASE AddToCart
      <4>1. ActiveBill.lines + 1 \in Nat
        BY <2>2
      <4>2. EditActive(ActiveBill.lines + 1, atTill.who) /\ tillSeq' = tillSeq
        BY <3>1 DEF AddToCart
      <4> QED
        BY <2>2, <4>1, <4>2
    <3>2. CASE ClearCart
      <4>1. EditActive(0, ActiveBill.by) /\ tillSeq' = tillSeq
        BY <3>2 DEF ClearCart
      <4> QED
        BY <2>2, <4>1
    <3> QED
      BY <3>1, <3>2
  <2> QED
    BY <2>3, EditKeeps
<1>7. ~NewBill
  BY BeginKeeps
<1>8. ASSUME NEW id \in BillIds PROVE ~SwitchBill(id)
  <2> SUFFICES ASSUME SwitchBill(id) PROVE FALSE
    OBVIOUS
  <2>1. till \in [bills : Seq(BillRows), active : Nat]
    BY DEF TillInv, TillTypes
  <2>2. till'.bills = till.bills
    BY <2>1 DEF SwitchBill
  <2> QED
    BY <2>2 DEF Keys
<1> QED
  BY <1>2, <1>3, <1>4, <1>5, <1>6, <1>7, <1>8
     DEF TillNext, TillSignIn, TillSessionLost, OpenPos, LeavePos, PayPressed, ServerTakes,
         PayRefused

\* No answer, and no step of the operator, ever takes a scanned bill off the till but the answer
\* to its own Pay, the × pressed on it, the sign-out (or an answer that shares the id freshTill
\* gave another operator's bill): store/index.ts pay and till.ts withoutBill.
THEOREM NoOtherAnswerTakesABill == TillSpec => SoldOrThrownAway
<1> DEFINE Kept(i) ==
        LET b == till.bills[i]
        IN b.lines > 0 /\ b.key \notin Keys(till') =>
              \/ b.key \in ToSet(taken)
              \/ DiscardBill /\ b.id = till.active
              \/ TillSignOut
              \/ \E p \in pays \ pays' : p.id = b.id /\ p.key # b.key
<1>1. TillInit => TillInv
  BY TillInvHoldsAtFirst
<1>2. TillInv /\ [TillNext]_tillVars => TillInv'
  BY TillStep
<1>3. TillInv /\ [TillNext]_tillVars => [\A i \in DOMAIN till.bills : Kept(i)]_tillVars
  <2> SUFFICES ASSUME TillInv, TillNext, NEW i \in DOMAIN till.bills PROVE Kept(i)
    OBVIOUS
  <2> QED
    BY NothingElseTakesABill
<1> QED
  BY <1>1, <1>2, <1>3, PTL DEF TillSpec, SoldOrThrownAway
=============================================================================
