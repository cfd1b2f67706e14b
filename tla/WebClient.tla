----------------------------- MODULE WebClient -----------------------------
(* One browser tab, the pod it streams from and the change feed between    *)
(* them. A write commits and is announced with NOTIFY; the pod's one LISTEN *)
(* connection (plugins/sse.ts) turns the notice into a frame on every open  *)
(* stream; the tab (api/events.ts) collects frames for 250 ms and reads     *)
(* back what they named (api/refetch.ts, store/index.ts loadSnapshot). Any  *)
(* connection may drop, reads are answered and applied in any order, and    *)
(* operators sign in and out of the same terminal while reads are out. What *)
(* the hospital knows is one version number; a screen shows some version.   *)
EXTENDS Naturals, Sequences

CONSTANTS
    Who,          \* the operators who use this terminal
    Reads,        \* read-backs the tab may have out at once
    MaxCommits,   \* writes that commit elsewhere
    MaxBreaks     \* drops, refusals and failed reads

Nobody == "nobody"

ASSUME ClientBounds ==
    /\ Nobody \notin Who
    /\ MaxCommits \in Nat /\ MaxBreaks \in Nat

VARIABLES
    db,      \* the version committed, and what is on its way to the pod
    ear,     \* the pod's LISTEN connection is up
    alive,   \* whose session the server still honours for this terminal's cookie
    tab,     \* token, user, auth, whether a snapshot ever landed, logout under way
    conn,    \* the stream: its state and whether an event id was ever seen on it
    wire,    \* frames written to the stream and not yet read
    pend,    \* what the next flush will read: {}, {"slice"}, {"all"} or both
    read,    \* the reads that are out
    shown,   \* the version on the screen
    flags,   \* history: a notice had no stream to go to; the newest version shown; a failure was said
    breaks

clientVars == <<db, ear, alive, tab, conn, wire, pend, read, shown, flags, breaks>>

Idle == [st |-> "idle", kind |-> "all", who |-> Nobody, v |-> 0]
NoFlags(v) == [missed |-> FALSE, seen |-> v, told |-> FALSE]

Feeds == [v : 0..MaxCommits, out : 0..MaxCommits]
Tabs == [token : Who \cup {Nobody}, user : Who \cup {Nobody},
         auth : {"loading", "signed-out", "signing-in", "ready", "failed"},
         loaded : BOOLEAN, leaving : BOOLEAN]
Streams == [st : {"off", "opening", "live", "waiting"}, id : BOOLEAN]
ReadRows == [st : {"idle", "asked", "answered"}, kind : {"slice", "all"},
             who : Who \cup {Nobody}, v : 0..MaxCommits]
Histories == [missed : BOOLEAN, seen : 0..MaxCommits, told : BOOLEAN]

ClientTypeOK ==
    /\ db \in Feeds /\ ear \in BOOLEAN /\ alive \in Who \cup {Nobody}
    /\ tab \in Tabs /\ conn \in Streams
    /\ wire \in Seq({"changed", "resync"}) /\ pend \subseteq {"slice", "all"}
    /\ read \in [Reads -> ReadRows]
    /\ shown \in 0..MaxCommits /\ flags \in Histories /\ breaks \in 0..MaxBreaks

\* A tab as it is before anything happens to it: whose cookie the terminal has, and what it shows.
ClientStart(cookie, shows) ==
    /\ db = [v |-> 0, out |-> 0]
    /\ ear = TRUE
    /\ alive = cookie
    /\ tab = shows
    /\ conn = [st |-> "off", id |-> FALSE]
    /\ wire = <<>> /\ pend = {}
    /\ read = [r \in Reads |-> Idle]
    /\ shown = 0
    /\ flags = NoFlags(0)
    /\ breaks = 0

\* A fresh tab: main.tsx calls restore(), which asks for a token with the cookie it may have.
ClientInit ==
    \E cookie \in Who \cup {Nobody} :
        ClientStart(cookie, [token |-> Nobody, user |-> Nobody, auth |-> "loading",
                             loaded |-> FALSE, leaving |-> FALSE])

Break == breaks < MaxBreaks /\ breaks' = breaks + 1

-----------------------------------------------------------------------------
(* The feed.                                                               *)

\* emitChanged inside somebody's transaction: NOTIFY is delivered to whoever listens at commit.
CommitElsewhere ==
    /\ db.v < MaxCommits
    /\ db' = [v |-> db.v + 1, out |-> IF ear THEN db.out + 1 ELSE db.out]
    /\ UNCHANGED <<ear, alive, tab, conn, wire, pend, read, shown, flags, breaks>>

\* broadcast: a frame to every open stream; with none, only a seen id will make up for it.
Broadcast(frame) ==
    /\ wire' = IF conn.st = "live" THEN Append(wire, frame) ELSE wire
    /\ flags' = [flags EXCEPT !.missed = @ \/ (conn.st # "live" /\ ~conn.id)]

PodHears ==
    /\ ear /\ db.out > 0
    /\ db' = [db EXCEPT !.out = @ - 1]
    /\ Broadcast("changed")
    /\ UNCHANGED <<ear, alive, tab, conn, pend, read, shown, breaks>>

\* The LISTEN connection errors or ends, and takes what it had not delivered with it.
ListenerDrops ==
    /\ ear /\ Break
    /\ ear' = FALSE
    /\ db' = [db EXCEPT !.out = 0]
    /\ UNCHANGED <<alive, tab, conn, wire, pend, read, shown, flags>>

ConnectInSilence ==
    /\ ~ear
    /\ ear' = TRUE
    /\ UNCHANGED <<db, alive, tab, conn, wire, pend, read, shown, flags, breaks>>

\* connect, again: everConnected, so every stream is told to take the whole thing again.
ListenerReturns ==
    /\ ~ear
    /\ ear' = TRUE
    /\ Broadcast("resync")
    /\ UNCHANGED <<db, alive, tab, conn, pend, read, shown, breaks>>

-----------------------------------------------------------------------------
(* The session of the tab.                                                 *)

\* events.ts stop: aborts the stream and forgets frames, the flush and the last id.
Stop ==
    /\ conn' = [st |-> "off", id |-> FALSE]
    /\ wire' = <<>>
    /\ pend' = {}

\* startEventStream's react, for an auth that may have changed.
React(auth) ==
    conn' = IF auth = "ready" /\ tab.auth # "ready" /\ conn.st = "off"
            THEN [conn EXCEPT !.st = "opening"] ELSE conn

\* sessionLost: the token goes, the store drops user and auth - and nothing else.
SessionLost ==
    /\ tab' = [tab EXCEPT !.token = Nobody, !.user = Nobody, !.auth = "signed-out", !.leaving = FALSE]
    /\ Stop

\* A read sets out: the caller's token travels with it.
Ask(r, kind, who) ==
    /\ read[r].st = "idle"
    /\ read' = [read EXCEPT ![r] = [st |-> "asked", kind |-> kind, who |-> who, v |-> 0]]

\* restore: the cookie is good for a token, and the first snapshot is asked for.
RestoreFinds ==
    /\ tab.auth = "loading" /\ tab.token = Nobody /\ tab.user = Nobody
    /\ alive # Nobody
    /\ tab' = [tab EXCEPT !.token = alive, !.user = alive]
    /\ \E r \in Reads : Ask(r, "all", alive)
    /\ UNCHANGED <<db, ear, alive, conn, wire, pend, shown, flags, breaks>>

RestoreFindsNone ==
    /\ tab.auth = "loading" /\ tab.token = Nobody /\ tab.user = Nobody
    /\ alive = Nobody
    /\ tab' = [tab EXCEPT !.auth = "signed-out"]
    /\ UNCHANGED <<db, ear, alive, conn, wire, pend, read, shown, flags, breaks>>

LoginPressed ==
    /\ tab.auth = "signed-out" /\ tab.user = Nobody
    /\ tab' = [tab EXCEPT !.auth = "signing-in"]
    /\ UNCHANGED <<db, ear, alive, conn, wire, pend, read, shown, flags, breaks>>

\* login's answer: token, user, then the snapshot. Nothing of the last operator's is cleared.
LoginAnswered(w) ==
    /\ tab.auth = "signing-in"
    /\ alive' = w
    /\ tab' = [tab EXCEPT !.token = w, !.user = w, !.auth = "loading"]
    /\ \E r \in Reads : Ask(r, "all", w)
    /\ flags' = NoFlags(shown)
    /\ UNCHANGED <<db, ear, conn, wire, pend, shown, breaks>>

LoginRefused ==
    /\ tab.auth = "signing-in" /\ Break
    /\ tab' = [tab EXCEPT !.auth = "signed-out", !.user = Nobody]
    /\ UNCHANGED <<db, ear, alive, conn, wire, pend, read, shown, flags>>

\* logout: the server is told first and awaited (or not reached), the tab is emptied after.
LogoutPressed ==
    /\ tab.user # Nobody /\ tab.auth = "ready" /\ ~tab.leaving
    /\ tab' = [tab EXCEPT !.leaving = TRUE]
    /\ alive' = IF alive = tab.token THEN Nobody ELSE alive
    /\ UNCHANGED <<db, ear, conn, wire, pend, read, shown, flags, breaks>>

LogoutAnswered ==
    /\ tab.leaving
    /\ tab' = [tab EXCEPT !.token = Nobody, !.user = Nobody, !.auth = "signed-out", !.leaving = FALSE]
    /\ Stop
    /\ UNCHANGED <<db, ear, alive, read, shown, flags, breaks>>

\* The account is switched off, its password set, its refresh family revoked: elsewhere.
SessionEnds ==
    /\ alive # Nobody /\ Break
    /\ alive' = Nobody
    /\ UNCHANGED <<db, ear, tab, conn, wire, pend, read, shown, flags>>

-----------------------------------------------------------------------------
(* The stream.                                                             *)

\* The route: past the gate and the cap; a resync first when the browser brought an id.
StreamOpens ==
    /\ conn.st = "opening" /\ tab.token # Nobody /\ alive = tab.token
    /\ conn' = [conn EXCEPT !.st = "live"]
    /\ wire' = IF conn.id THEN <<"resync">> ELSE <<>>
    /\ UNCHANGED <<db, ear, alive, tab, pend, read, shown, flags, breaks>>

StreamDeniedQuietly ==
    /\ conn.st = "opening" /\ (tab.token = Nobody \/ alive # tab.token)
    /\ conn' = [conn EXCEPT !.st = "waiting"]
    /\ UNCHANGED <<db, ear, alive, tab, wire, pend, read, shown, flags, breaks>>

\* 401, and the refresh fails too: the end of the session, and of the stream.
StreamDenied ==
    /\ conn.st = "opening" /\ (tab.token = Nobody \/ alive # tab.token)
    /\ SessionLost
    /\ UNCHANGED <<db, ear, alive, read, shown, flags, breaks>>

StreamGivenUp ==
    /\ conn.st = "opening" /\ Break
    /\ conn' = [conn EXCEPT !.st = "off"]
    /\ UNCHANGED <<db, ear, alive, tab, wire, pend, read, shown, flags>>

\* 403 while a password must be changed, 429 at MAX_STREAMS_PER_USER, 5xx, no network.
StreamRefused ==
    /\ conn.st = "opening" /\ Break
    /\ conn' = [conn EXCEPT !.st = "waiting"]
    /\ UNCHANGED <<db, ear, alive, tab, wire, pend, read, shown, flags>>

\* The socket goes (or the pod shuts down): frames not yet read go with it.
StreamDrops ==
    /\ conn.st = "live" /\ Break
    /\ conn' = [conn EXCEPT !.st = "waiting"]
    /\ wire' = <<>>
    /\ flags' = [flags EXCEPT !.missed = @ \/ (wire # <<>> /\ ~conn.id)]
    /\ UNCHANGED <<db, ear, alive, tab, pend, read, shown>>

\* The retry hint or the back-off runs out.
StreamRetries ==
    /\ conn.st = "waiting"
    /\ conn' = [conn EXCEPT !.st = "opening"]
    /\ UNCHANGED <<db, ear, alive, tab, wire, pend, read, shown, flags, breaks>>

\* onFrame: every frame carries an id; the flush is scheduled once for all that arrive.
OnFrame ==
    /\ conn.st = "live" /\ wire # <<>>
    /\ conn' = [conn EXCEPT !.id = TRUE]
    /\ pend' = pend \cup (IF Head(wire) = "resync" THEN {"all"} ELSE {"slice"})
    /\ wire' = Tail(wire)
    /\ UNCHANGED <<db, ear, alive, tab, read, shown, flags, breaks>>

\* schedule's timeout: a resync supersedes the slices. loadSnapshot blanks an empty master only.
Flush ==
    /\ pend # {}
    /\ pend' = {}
    /\ \E r \in Reads : Ask(r, IF "all" \in pend THEN "all" ELSE "slice", tab.token)
    /\ tab' = IF "all" \in pend /\ ~tab.loaded THEN [tab EXCEPT !.auth = "loading"] ELSE tab
    /\ UNCHANGED <<db, ear, alive, conn, wire, shown, flags, breaks>>

\* The failed page's retry button.
RetrySnapshot ==
    /\ tab.auth = "failed"
    /\ tab' = [tab EXCEPT !.auth = "loading"]
    /\ \E r \in Reads : Ask(r, "all", tab.token)
    /\ UNCHANGED <<db, ear, alive, conn, wire, pend, shown, flags, breaks>>

-----------------------------------------------------------------------------
(* The reads.                                                              *)

\* The server reads what is committed as it answers; an access token is honoured to its expiry.
ReadAnswered(r) ==
    /\ read[r].st = "asked" /\ read[r].who # Nobody
    /\ read' = [read EXCEPT ![r].st = "answered", ![r].v = db.v]
    /\ UNCHANGED <<db, ear, alive, tab, conn, wire, pend, shown, flags, breaks>>

\* The answer is applied whatever is on the screen by then: applyX, or applySnapshot, which
\* sets the user it was made for, and loadSnapshot's auth: "ready".
ReadApplied(r) ==
    /\ read[r].st = "answered"
    /\ read' = [read EXCEPT ![r] = Idle]
    /\ shown' = read[r].v
    /\ flags' = [flags EXCEPT !.seen = IF @ < read[r].v THEN read[r].v ELSE @]
    /\ IF read[r].kind = "all"
       THEN /\ tab' = [tab EXCEPT !.user = read[r].who, !.auth = "ready", !.loaded = TRUE]
            /\ React("ready")
       ELSE UNCHANGED <<tab, conn>>
    /\ UNCHANGED <<db, ear, alive, wire, pend, breaks>>

\* No network, a 5xx, a gateway page: said in a toast. loadSnapshot keeps the last data if any.
ReadFails(r) ==
    /\ read[r].st = "asked" /\ Break
    /\ read' = [read EXCEPT ![r] = Idle]
    /\ flags' = [flags EXCEPT !.told = TRUE]
    /\ IF read[r].kind = "all" /\ tab.user # Nobody
       THEN LET auth == IF tab.loaded THEN "ready" ELSE "failed"
            IN tab' = [tab EXCEPT !.auth = auth] /\ React(auth)
       ELSE UNCHANGED <<tab, conn>>
    /\ UNCHANGED <<db, ear, alive, wire, pend, shown>>

\* 401 and the one refresh fails: the session is over for the whole tab.
ReadDenied(r) ==
    /\ read[r].st = "asked"
    /\ alive = Nobody
    /\ read' = [read EXCEPT ![r] = Idle]
    /\ SessionLost
    /\ UNCHANGED <<db, ear, alive, shown, flags, breaks>>

ClientNext ==
    \/ CommitElsewhere \/ PodHears \/ ListenerDrops \/ ListenerReturns
    \/ RestoreFinds \/ RestoreFindsNone
    \/ LoginPressed \/ (\E w \in Who : LoginAnswered(w)) \/ LoginRefused
    \/ LogoutPressed \/ LogoutAnswered \/ SessionEnds
    \/ StreamOpens \/ StreamDenied \/ StreamRefused \/ StreamDrops \/ StreamRetries
    \/ OnFrame \/ Flush \/ RetrySnapshot
    \/ (\E r \in Reads : ReadAnswered(r) \/ ReadApplied(r) \/ ReadFails(r) \/ ReadDenied(r))

\* Sockets, timers and requests make progress; people, commits and faults need not.
ClientFairness ==
    /\ WF_clientVars(PodHears) /\ WF_clientVars(ListenerReturns)
    /\ WF_clientVars(RestoreFinds \/ RestoreFindsNone)
    /\ WF_clientVars(LogoutAnswered)
    /\ WF_clientVars(StreamOpens \/ StreamDenied) /\ WF_clientVars(StreamRetries)
    /\ WF_clientVars(OnFrame) /\ WF_clientVars(Flush)
    /\ \A r \in Reads : WF_clientVars(ReadAnswered(r) \/ ReadDenied(r)) /\ WF_clientVars(ReadApplied(r))

ClientSpec == ClientInit /\ [][ClientNext]_clientVars /\ ClientFairness

-----------------------------------------------------------------------------
(* Properties.                                                             *)

\* The stream is up end to end and nothing is on its way to the screen.
Quiet ==
    /\ conn.st = "live" /\ ear /\ db.out = 0
    /\ wire = <<>> /\ pend = {}
    /\ \A r \in Reads : read[r].st = "idle"

\* A screen that has gone quiet shows what is committed, unless the operator was told a read
\* failed, a notice passed while the tab had no stream and had never seen an id, or it showed a
\* newer version before: an older answer landed last.  Dropped listeners and dropped streams are
\* all made up for (plugins/sse.ts resync on reconnect, Last-Event-ID; api/events.ts).
StaleOnlyUnseen ==
    Quiet /\ shown # db.v => flags.told \/ flags.missed \/ shown < flags.seen

\* What the feed is meant to give (sse.ts: "a client that missed notices refetches everything"):
\* a quiet screen nobody was warned about shows what is committed.
QuietMeansCurrent == Quiet /\ shown # db.v => flags.told

\* The name on the screen is the session's: with no token nobody is signed in, and what the
\* next operator sees is never the last one's (store/index.ts onSessionLost, logout).
ScreenIsTheSessions == tab.user = tab.token

\* A late snapshot can put a signed-out operator back on the screen, but not for good: the
\* stream it opens is denied, and that signs the tab out again (events.ts run, startEventStream).
GhostsLeave ==
    (tab.user # Nobody /\ tab.token = Nobody) ~> (tab.user = Nobody \/ tab.token # Nobody)

\* A session that is ready gets its stream, however often it drops, or ends (events.ts connect).
StreamComesBack ==
    (tab.auth = "ready") ~> (conn.st = "live" \/ tab.auth \in {"signed-out", "signing-in", "loading", "failed"})

\* The tab recovers by itself, with nobody pressing anything: a ghost leaves, a stream comes back.
TabRecovers == GhostsLeave /\ StreamComesBack
=============================================================================
