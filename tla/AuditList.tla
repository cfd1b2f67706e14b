------------------------------ MODULE AuditList ------------------------------
(***************************************************************************)
(* Reading the audit log: the service's keyset pages (audit modules/audit) *)
(* and the administrator's list, its reloads, Load more and the export     *)
(* (UI store/audit.ts, pages/AdminAudit.tsx).                              *)
(*                                                                         *)
(* An id is drawn when a drainer inserts the event and shows when its pass *)
(* commits, so ids appear in any order.  An event is its id; odd ones are  *)
(* the sign-ins, so that a filter can leave some out.                      *)
(***************************************************************************)
EXTENDS Integers, Sequences, FiniteSets, SequencesExt

CONSTANTS
    MaxEvents,      \* bound: events ever logged
    MaxLoads,       \* bound: times the list is read afresh
    PageLimit       \* limit

ASSUME ListBounds == MaxEvents \in Nat /\ PageLimit \in Nat \ {0}

EventIds == 1..MaxEvents
Filters == {"everything", "signIns"}
Matching(f) == IF f = "everything" THEN EventIds ELSE {e \in EventIds : e % 2 = 1}

VARIABLES
    events,     \* the log, as committed
    list,       \* the store's audit slice: rows, next (0: none), filter
    latest,     \* which loadAudit call is the latest
    loads,      \* calls in flight, asked and perhaps answered
    tab,        \* the open screen: which visit it is, and its Load more still out
    since,      \* history: what the log held when the list on screen was read
    export      \* the CSV export: rows so far, where it is, what the log held at its start

listVars == <<events, list, latest, loads, tab, since, export>>

\* repo.page: newest first, below the cursor; one row past the page says whether there is a next.
\* A page's k-th row is the event that k of those below the cursor reach.
Found(f, before) == {e \in events \cap Matching(f) : before = 0 \/ e < before}
Ranked(found, k) == CHOOSE e \in found : Cardinality({x \in found : x >= e}) = k
PageRows(f, before) ==
    LET found == Found(f, before)
    IN  [k \in 1..(IF Cardinality(found) < PageLimit THEN Cardinality(found) ELSE PageLimit) |->
            Ranked(found, k)]
PageNext(f, before) ==
    LET rows == PageRows(f, before)
        more == {e \in events \cap Matching(f) :
                    rows # <<>> /\ e < rows[Len(rows)]}
    IN  IF more = {} THEN 0 ELSE rows[Len(rows)]

Read(kind, mine, f, before) ==
    [kind |-> kind, mine |-> mine, visit |-> tab.visit, filter |-> f, before |-> before,
     rows |-> <<>>, next |-> 0, saw |-> {}, at |-> "asked"]

\* showMore's finally: the button of the visit that asked.
MoreSettled(r) ==
    IF r.kind = "more" /\ r.visit = tab.visit THEN [tab EXCEPT !.more = FALSE] ELSE tab

\* A drainer's pass commits an event.
EventCommits(e) ==
    /\ e \notin events
    /\ events' = events \cup {e}
    /\ UNCHANGED <<list, latest, loads, tab, since, export>>

\* loadAudit: a new filter clears the rows at once; the pill and the way in keep them.
LoadAudit(f, fresh) ==
    /\ latest < MaxLoads
    /\ latest' = latest + 1
    /\ fresh => f # list.filter
    /\ ~fresh => f = list.filter
    /\ list' = IF fresh THEN [rows |-> <<>>, next |-> 0, filter |-> f] ELSE list
    /\ loads' = loads \cup {Read("load", latest + 1, f, 0)}
    /\ UNCHANGED <<events, tab, since, export>>

\* loadMoreAudit, behind a button that is off while its own call is out.
LoadMoreAudit ==
    /\ list.next # 0 /\ ~tab.more
    /\ tab' = [tab EXCEPT !.more = TRUE]
    /\ loads' = loads \cup {Read("more", latest, list.filter, list.next)}
    /\ UNCHANGED <<events, list, latest, since, export>>

\* The tab is left and opened again: the button's state goes with the screen, the store's stays.
ReopenTab ==
    /\ latest < MaxLoads
    /\ tab' = [visit |-> tab.visit + 1, more |-> FALSE]
    /\ latest' = latest + 1
    /\ loads' = loads \cup {Read("load", latest + 1, list.filter, 0)}
    /\ UNCHANGED <<events, list, since, export>>

\* The service answers from the log as it stands.
ServeRead(r) ==
    /\ r.at = "asked"
    /\ loads' = (loads \ {r}) \cup
                {[r EXCEPT !.at = "answered", !.rows = PageRows(r.filter, r.before),
                           !.next = PageNext(r.filter, r.before), !.saw = events]}
    /\ UNCHANGED <<events, list, latest, tab, since, export>>

\* An answer to a loadAudit that is no longer the latest is dropped.
LandLoad(r) ==
    /\ r.kind = "load" /\ r.at = "answered"
    /\ loads' = loads \ {r}
    /\ IF r.mine = latest
       THEN /\ list' = [list EXCEPT !.rows = r.rows, !.next = r.next]
            /\ since' = r.saw
       ELSE UNCHANGED <<list, since>>
    /\ UNCHANGED <<events, latest, tab, export>>

AnyListTakesIt(r) == TRUE
\* loadMoreAudit compares the latest loadAudit now with the one when it was asked.
StillOnScreen(r) == r.mine = latest

LandMore(r) ==
    /\ r.kind = "more" /\ r.at = "answered"
    /\ loads' = loads \ {r}
    /\ tab' = MoreSettled(r)
    /\ list' = IF StillOnScreen(r) THEN [list EXCEPT !.rows = @ \o r.rows, !.next = r.next]
               ELSE list
    /\ UNCHANGED <<events, latest, since, export>>

\* A read that fails empties the list (a load) or leaves it (a page).
ReadFails(r) ==
    /\ loads' = loads \ {r}
    /\ list' = IF r.kind = "load" /\ r.mine = latest THEN [list EXCEPT !.rows = <<>>, !.next = 0]
               ELSE list
    /\ tab' = MoreSettled(r)
    /\ UNCHANGED <<events, latest, since, export>>

NextCursorLate(f, before) ==
    LET next == PageNext(f, before) IN IF next <= 1 THEN next ELSE next - 1
\* exportAudit: page after page, each from where the last ended.
NextCursor(f, before) == PageNext(f, before)

ExportPage ==
    /\ export.at # "done"
    /\ export' = [at |-> IF NextCursor("everything", export.before) = 0 THEN "done" ELSE "paging",
                  rows |-> export.rows \o PageRows("everything", export.before),
                  before |-> NextCursor("everything", export.before),
                  saw |-> IF export.at = "new" THEN events ELSE export.saw]
    /\ UNCHANGED <<events, list, latest, loads, tab, since>>

ListInit ==
    /\ events = {}
    /\ list = [rows |-> <<>>, next |-> 0, filter |-> "everything"]
    /\ latest = 0 /\ loads = {} /\ tab = [visit |-> 1, more |-> FALSE] /\ since = {}
    /\ export = [at |-> "new", rows |-> <<>>, before |-> 0, saw |-> {}]

ListNext ==
    \/ \E e \in EventIds : EventCommits(e)
    \/ \E f \in Filters, fresh \in BOOLEAN : LoadAudit(f, fresh)
    \/ LoadMoreAudit \/ ReopenTab \/ ExportPage
    \/ \E r \in loads : ServeRead(r) \/ LandLoad(r) \/ LandMore(r) \/ ReadFails(r)

ListSpec == ListInit /\ [][ListNext]_listVars

-----------------------------------------------------------------------------
(***************************************************************************)
(* Whatever order reloads, changes of filter, pages and failures land in,  *)
(* the rows on screen are the current filter's, newest first, none twice.  *)
(***************************************************************************)
ListReadsDown ==
    /\ \A i \in 1..Len(list.rows) : list.rows[i] \in Matching(list.filter)
    /\ \A i \in 1..(Len(list.rows) - 1) : list.rows[i] > list.rows[i + 1]

(***************************************************************************)
(* A finished export holds every event the log held when it began, though  *)
(* events commit between its pages and below its cursor.                   *)
(***************************************************************************)
ExportMissesNothing ==
    export.at = "done" => export.saw \subseteq ToSet(export.rows)

(***************************************************************************)
(* Load more appends "the page after the last row shown" (store/audit.ts): *)
(* between the first and the last row on screen no event is missing that   *)
(* the log already held when the list was read.                            *)
(***************************************************************************)
ListHasNoHoles ==
    \A e \in since \cap Matching(list.filter) :
        list.rows # <<>> /\ list.rows[1] > e /\ e > list.rows[Len(list.rows)]
            => e \in ToSet(list.rows)

(***************************************************************************)
(* What the log's two readers, the screen and the export, may be told.     *)
(***************************************************************************)
ReadersSeeTheLog == ListReadsDown /\ ExportMissesNothing
=============================================================================
