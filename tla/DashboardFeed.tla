---------------------------- MODULE DashboardFeed ----------------------------
(***************************************************************************)
(* What the terminal pushes into the web dashboard's state: the panels of  *)
(* contacts, read again only after something marked them dirty and pushed   *)
(* only when their fingerprint changed; the statistics, computed by a       *)
(* worker and cached with the data revision they belong to; and the partner *)
(* of the contact in the form.                                              *)
(***************************************************************************)
EXTENDS Integers

CONSTANTS
    Books,              \* logbooks
    Calls, NoCall,      \* callsigns typed into the form
    MaxRows,            \* changes written to a logbook
    MaxConns            \* database connections opened, by switches

VARIABLES
    rows,               \* [Books -> version of the contacts in the database]
    conn, book,         \* App.DB (numbered as opened) and App.LogbookName
    owed,               \* a worker wrote and its completion is outstanding
    rev,                \* Model.qsoRev
    dirty, pushed,      \* dashboardDataDirty; lastRecentFP and lastTodayFP
    stats,              \* http.statsDue, the computation in flight, http.statsTotals
    online,             \* http.client and http.online
    board,              \* the server's State: panels, totals, partner
    form, found,        \* callsign in the form, lookup.partnerData
    sentPartner,        \* lastPushedPartner
    failed              \* history: the last query of the panels, and of the totals, failed

feedVars == <<rows, conn, book, owed, rev, dirty, pushed, stats, online, board, form, found, sentPartner, failed>>

Data == [book : Books, rows : 0..MaxRows]
Unset == [book |-> "unset", rows |-> 0]
Now == [book |-> book, rows |-> rows[book]]

MaxRev == 3 * (MaxRows + MaxConns)
Computed == [conn : 1..MaxConns, rev : 0..MaxRev, totals : Data \cup {Unset}]
NoTotals == [conn |-> 1, rev |-> 0, totals |-> Unset]

DashboardFeedTypeOK ==
    /\ rows \in [Books -> 0..MaxRows] /\ conn \in 1..MaxConns /\ book \in Books
    /\ owed \in BOOLEAN /\ rev \in 0..MaxRev /\ dirty \in BOOLEAN /\ pushed \in Data \cup {Unset}
    /\ stats \in [due : BOOLEAN, stage : {"none", "reads", "done"}, of : Computed, cache : Computed]
    /\ online \in BOOLEAN
    /\ board \in [panels : Data \cup {Unset}, totals : Data \cup {Unset}, partner : Calls \cup {NoCall}]
    /\ form \in Calls \cup {NoCall} /\ found \in Calls \cup {NoCall}
    /\ sentPartner \in Calls \cup {NoCall} /\ failed \in [panels : BOOLEAN, totals : BOOLEAN]

EmptyBoard == [panels |-> Unset, totals |-> Unset, partner |-> NoCall]

DashboardFeedInit ==
    /\ rows = [b \in Books |-> 0] /\ conn = 1 /\ book \in Books /\ owed = FALSE /\ rev = 0
    /\ dirty = TRUE /\ pushed = Unset /\ online = FALSE /\ board = EmptyBoard
    /\ stats = [due |-> FALSE, stage |-> "none", of |-> NoTotals, cache |-> NoTotals]
    /\ form = NoCall /\ found = NoCall /\ sentPartner = NoCall
    /\ failed = [panels |-> FALSE, totals |-> FALSE]

-----------------------------------------------------------------------------
(* Pushing. *)

\* pushDashboardPartner: nothing found means nothing pushed, not a partner removed.
PartnerPush(sent) ==
    IF form = NoCall THEN [shown |-> NoCall, sent |-> NoCall]
    ELSE IF found = NoCall THEN [shown |-> board.partner, sent |-> sent]
    ELSE IF found = form THEN [shown |-> IF sent = found THEN board.partner ELSE found, sent |-> found]
    ELSE [shown |-> IF sent # NoCall THEN NoCall ELSE board.partner, sent |-> NoCall]

\* pushDashboardState with the marks the caller set.  A query that fails leaves a panel
\* and its fingerprint as they are, and the mark is gone.
PushAll(isDirty, fingerprint, sent, isDue, to) ==
    IF ~online
    THEN /\ dirty' = isDirty /\ pushed' = fingerprint /\ sentPartner' = sent
         /\ board' = to /\ stats' = [stats EXCEPT !.due = isDue] /\ UNCHANGED failed
    ELSE LET p == PartnerPush(sent)
             now == [book |-> book', rows |-> rows[book']]
         IN \E reads \in BOOLEAN :
            /\ reads => isDirty
            /\ board' = [to EXCEPT !.partner = p.shown, !.panels = IF reads /\ fingerprint # now THEN now ELSE @]
            /\ sentPartner' = p.sent /\ dirty' = FALSE /\ pushed' = IF reads THEN now ELSE fingerprint
            /\ failed' = [failed EXCEPT !.panels = IF isDirty THEN ~reads ELSE @]
            /\ \E minute \in BOOLEAN : stats' = [stats EXCEPT !.due = isDue \/ isDirty \/ minute]

\* The tick: panels first, every other second, then the statistics worker, which
\* takes the cached totals when they are of this database and revision.
Push ==
    /\ UNCHANGED <<rows, conn, book, owed, rev, online, form, found>>
    /\ PushAll(dirty, pushed, sentPartner, stats.due, board)

StatsStart ==
    /\ stats.due /\ stats.stage = "none" /\ online
    /\ LET reuse == stats.cache.conn = conn /\ stats.cache.rev = rev /\ stats.cache.totals # Unset
       IN stats' = [stats EXCEPT !.due = FALSE, !.stage = IF reuse THEN "done" ELSE "reads",
                    !.of = [conn |-> conn, rev |-> rev, totals |-> IF reuse THEN stats.cache.totals
                                                                   ELSE [book |-> book, rows |-> 0]]]
    /\ UNCHANGED <<rows, conn, book, owed, rev, dirty, pushed, online, board, form, found, sentPartner, failed>>

\* The worker reads the database it was started on.
StatsRead ==
    /\ stats.stage = "reads"
    /\ stats' = [stats EXCEPT !.stage = "done", !.of.totals.rows = rows[stats.of.totals.book]]
    /\ UNCHANGED <<rows, conn, book, owed, rev, dirty, pushed, online, board, form, found, sentPartner, failed>>

\* applyDashboardStats
StatsApply ==
    /\ stats.stage = "done"
    /\ IF stats.of.conn # conn
       THEN stats' = [stats EXCEPT !.stage = "none", !.due = TRUE] /\ UNCHANGED <<board, failed>>
       ELSE /\ stats' = [stats EXCEPT !.stage = "none", !.cache = stats.of]
            /\ board' = IF online THEN [board EXCEPT !.totals = stats.of.totals] ELSE board
            /\ failed' = [failed EXCEPT !.totals = FALSE]
    /\ UNCHANGED <<rows, conn, book, owed, rev, dirty, pushed, online, form, found, sentPartner>>

\* applyDashboardStats after a query failed: nothing shown and nothing asked again before
\* the next minute, whatever logbook is open by then.
StatsFail ==
    /\ stats.stage = "done" /\ stats' = [stats EXCEPT !.stage = "none"]
    /\ failed' = [failed EXCEPT !.totals = TRUE]
    /\ UNCHANGED <<rows, conn, book, owed, rev, dirty, pushed, online, board, form, found, sentPartner>>

-----------------------------------------------------------------------------
(* What changes underneath. *)

\* A save, import, delete or enrichment writes; the owner loop learns of it later.
Write ==
    /\ ~owed /\ rows[book] < MaxRows /\ rows' = [rows EXCEPT ![book] = @ + 1] /\ owed' = TRUE
    /\ UNCHANGED <<conn, book, rev, dirty, pushed, stats, online, board, form, found, sentPartner, failed>>

\* invalidateDashboardFlags
Invalidate ==
    /\ owed /\ owed' = FALSE /\ dirty' = TRUE /\ rev' = rev + 1 /\ rev < MaxRev
    /\ stats' = [stats EXCEPT !.cache = NoTotals]
    /\ UNCHANGED <<rows, conn, book, pushed, online, board, form, found, sentPartner, failed>>

\* handleLogbookSwitched, forcePushDashboardAll
Switch ==
    /\ conn < MaxConns /\ conn' = conn + 1 /\ \E b \in Books \ {book} : book' = b
    /\ UNCHANGED <<rows, owed, rev, online, form, found>>
    /\ PushAll(TRUE, Unset, NoCall, TRUE, board)

\* httpStatusMsg: a new server with an empty state; the marks and fingerprints are
\* the package's and stay.
ServerUp ==
    /\ ~online /\ online' = TRUE /\ board' = EmptyBoard
    /\ UNCHANGED <<rows, conn, book, owed, rev, dirty, pushed, stats, form, found, sentPartner, failed>>

\* Disabled, restarted, or ended by itself.
ServerDown ==
    /\ online /\ online' = FALSE /\ stats' = [stats EXCEPT !.due = FALSE]
    /\ UNCHANGED <<rows, conn, book, owed, rev, dirty, pushed, board, form, found, sentPartner, failed>>

\* Typing another callsign forgets what was found; the lookup of this one answers.
TypeCall(c) ==
    /\ form # c /\ form' = c /\ found' = NoCall
    /\ UNCHANGED <<rows, conn, book, owed, rev, dirty, pushed, stats, online, board, sentPartner, failed>>

LookupAnswers ==
    /\ form # NoCall /\ found # form /\ found' = form
    /\ UNCHANGED <<rows, conn, book, owed, rev, dirty, pushed, stats, online, board, form, sentPartner, failed>>

DashboardFeedNext ==
    \/ Push \/ StatsStart \/ StatsRead \/ StatsApply \/ StatsFail \/ Write \/ Invalidate \/ Switch
    \/ ServerUp \/ ServerDown \/ LookupAnswers \/ \E c \in Calls \cup {NoCall} : TypeCall(c)

DashboardFeedSpec == DashboardFeedInit /\ [][DashboardFeedNext]_feedVars

-----------------------------------------------------------------------------
Quiet == online /\ ~dirty /\ ~owed /\ ~stats.due /\ stats.stage = "none"

\* What the board shows once nothing is outstanding is this logbook, as it is, where its
\* last query did not fail: no unchanged fingerprint keeps older contacts, and totals that
\* are not those of the database are of a revision the next refresh will not reuse.
BoardShowsLog ==
    Quiet => /\ board.panels \in {Now, Unset} \/ failed.panels
             /\ board.totals \in {Now, Unset} \/ failed.totals
                    \/ (board.totals.book = book /\ stats.cache.rev # rev)

\* Totals that may be reused are those of the database, once every writer was heard.
CachedTotalsAreTrue ==
    stats.cache.conn = conn /\ stats.cache.rev = rev /\ ~owed => stats.cache.totals \in {Now, Unset}

\* A new server shows the contacts there are.
NewServerIsFed == Quiet => board.panels # Unset

\* The partner on the board is the station in the form.
PartnerIsInForm == [][Push /\ online => board'.partner \in {NoCall, form}]_feedVars
==============================================================================
