---------------------------- MODULE RecentTable -----------------------------
(***************************************************************************)
(* The table of recent contacts under the form.  It is read in a worker of  *)
(* its own for every reason to read it again, filtered by the contest that  *)
(* is active, and the answers arrive in any order, also from a logbook that *)
(* was left.                                                                *)
(***************************************************************************)
EXTENDS Integers, Sequences

CONSTANTS
    Books,
    MaxAsked        \* reloads on their way

VARIABLES
    book, owed,     \* App.LogbookName; logbookSwitchedMsg is on its way
    contest,        \* the logbooks with their contest active
    list,           \* what the table shows, and whether that is what the log holds
    failed,         \* the last reload ended with an error toast
    asked,          \* reloads on their way, in the order they were asked for
    late,           \* the table was read by a reload older than one answered before
    need,           \* needRefresh
    quiet           \* logbooks with a change that no reload was asked for since

tableVars == <<book, owed, contest, list, failed, asked, late, need, quiet>>

View == [book : Books, contest : BOOLEAN, current : BOOLEAN]
Asked == [book : Books, contest : BOOLEAN, read : {"no", "current", "past"}, old : BOOLEAN]

TableTypeOK ==
    /\ book \in Books /\ owed \in BOOLEAN /\ contest \subseteq Books /\ quiet \subseteq Books
    /\ list \in View /\ failed \in BOOLEAN /\ late \in BOOLEAN /\ need \in BOOLEAN
    /\ asked \in Seq(Asked) /\ Len(asked) <= MaxAsked

TableInit ==
    /\ book \in Books /\ contest \in SUBSET Books
    /\ list = [book |-> book, contest |-> book \in contest, current |-> TRUE]
    /\ asked = <<>> /\ quiet = {}
    /\ owed = FALSE /\ failed = FALSE /\ late = FALSE /\ need = FALSE

-----------------------------------------------------------------------------
\* refreshQSOS, with the contest that is active in logbook b.
Request(b) == [book |-> b, contest |-> b \in contest, read |-> "no", old |-> FALSE]

Reloads(q, b) ==
    /\ Len(q) < MaxAsked /\ asked' = Append(q, Request(b)) /\ quiet' = quiet \ {b}

\* What was read of logbook b before is no longer what it holds.
Past(q, b) ==
    [i \in DOMAIN q |-> IF q[i].book = b /\ q[i].read = "current" THEN [q[i] EXCEPT !.read = "past"] ELSE q[i]]

Outdated(b) == IF list.book = b THEN [list EXCEPT !.current = FALSE] ELSE list

Superseded(q) == [i \in DOMAIN q |-> [q[i] EXCEPT !.old = TRUE]]

-----------------------------------------------------------------------------
(* Changes of the log and of the contest. *)

\* saveQSO.
Save ==
    /\ list' = Outdated(book) /\ Reloads(Past(asked, book), book)
    /\ UNCHANGED <<book, owed, contest, failed, late, need>>

\* WSJT-X logs: at once on the form, and with the next screen that shows contacts elsewhere.
WSJTXLogs ==
    /\ list' = Outdated(book) /\ need' = TRUE
    /\ \/ Reloads(Past(asked, book), book)
       \/ asked' = Past(asked, book) /\ UNCHANGED quiet
    /\ UNCHANGED <<book, owed, contest, failed, late>>

\* An editor's work, an upload or an enrichment, in the logbook it began in.
WorkWrites(b) ==
    /\ list' = Outdated(b) /\ asked' = Past(asked, b) /\ quiet' = quiet \cup {b}
    /\ UNCHANGED <<book, owed, contest, failed, late, need>>

\* Its completion reloads, or has the table reloaded when it is shown; it may not come
\* here: it is dropped with its editor or its logbook.
WorkDone ==
    /\ \/ Reloads(asked, book) /\ UNCHANGED need
       \/ need' = TRUE /\ UNCHANGED <<asked, quiet>>
    /\ UNCHANGED <<book, owed, contest, list, failed, late>>

Toggled == IF book \in contest THEN contest \ {book} ELSE contest \cup {book}

\* cycleActiveContest, and saving a contest in its menu.
ChangeContest ==
    /\ contest' = Toggled /\ need' = TRUE
    /\ UNCHANGED <<book, owed, list, failed, asked, late, quiet>>

\* handleActivate and deleteContest in the menu leave the table as it is.
MenuContest ==
    /\ contest' = Toggled /\ quiet' = quiet \cup {book}
    /\ UNCHANGED <<book, owed, list, failed, asked, late, need>>

-----------------------------------------------------------------------------
(* The logbook. *)

\* handleLogbookSwitched.
CycleLogbook(b) ==
    /\ b # book /\ book' = b /\ need' = TRUE /\ Reloads(Superseded(asked), b)
    /\ UNCHANGED <<owed, contest, list, failed, late>>

\* The chooser switches at once, and a message has the rest done.
PickLogbook(b) ==
    /\ b # book /\ book' = b /\ owed' = TRUE /\ asked' = Superseded(asked)
    /\ UNCHANGED <<contest, list, failed, late, need, quiet>>

LogbookSwitched ==
    /\ owed /\ owed' = FALSE /\ need' = TRUE /\ Reloads(asked, book)
    /\ UNCHANGED <<book, contest, list, failed, late>>

-----------------------------------------------------------------------------
(* Reading. *)

\* handlePendingRequests, on a screen with contacts.
PendingReload ==
    /\ need /\ need' = FALSE /\ Reloads(asked, book)
    /\ UNCHANGED <<book, owed, contest, list, failed, late>>

\* ListQSOs: the database of a reload older than a switch may be closed, and is then
\* taken for an empty one.
Read(i) ==
    /\ asked[i].read = "no"
    /\ asked' \in {[asked EXCEPT ![i].read = r] : r \in IF asked[i].old THEN {"current", "past"} ELSE {"current"}}
    /\ UNCHANGED <<book, owed, contest, list, failed, late, need, quiet>>

\* qsoRefreshedMsg.
Refreshed(i) ==
    LET q == asked[i]
        others == SubSeq(asked, 1, i - 1) \o SubSeq(asked, i + 1, Len(asked))
    IN /\ q.read # "no"
       /\ IF q.book # book THEN asked' = others /\ UNCHANGED <<list, failed, late>>
          ELSE /\ asked' = [j \in DOMAIN others |-> [others[j] EXCEPT !.old = @ \/ j < i]]
               /\ \/ failed' = TRUE /\ UNCHANGED <<list, late>>
                  \/ /\ list' = [book |-> q.book, contest |-> q.contest, current |-> q.read = "current"]
                     /\ failed' = FALSE /\ late' = q.old
       /\ UNCHANGED <<book, owed, contest, need, quiet>>

TableNext ==
    \/ Save \/ WSJTXLogs \/ WorkDone \/ ChangeContest \/ MenuContest \/ LogbookSwitched \/ PendingReload
    \/ \E b \in Books : CycleLogbook(b) \/ PickLogbook(b) \/ WorkWrites(b)
    \/ \E i \in DOMAIN asked : Read(i) \/ Refreshed(i)

TableSpec == TableInit /\ [][TableNext]_tableVars

-----------------------------------------------------------------------------
Arrived == asked = <<>> /\ ~need /\ ~owed /\ ~failed

\* "A late result from a previous logbook must never replace the current logbook's
\* table": once every reload is answered the table is one of the open logbook, ...
TableIsOfBook == Arrived => list.book = book

\* ... and if they were answered in the order they were asked for, it is what the log
\* holds for the active contest, whoever wrote and however often logbooks were changed.
TableIsLog ==
    /\ Arrived /\ ~late /\ book \notin quiet
    => list = [book |-> book, contest |-> book \in contest, current |-> TRUE]

==============================================================================
