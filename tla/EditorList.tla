----------------------------- MODULE EditorList -----------------------------
(***************************************************************************)
(* The list of the log editor: a page of the logbook or a search result,   *)
(* the row under the cursor, the questions asked before something is done,  *)
(* and the completions that reload the list whenever their worker is done.  *)
(* Contacts are numbered as they are logged; the newest is listed first.    *)
(***************************************************************************)
EXTENDS Integers, Sequences, FiniteSets, FiniteSetsExt, Functions

CONSTANTS
    MaxId,              \* contacts ever logged
    Found,              \* the contacts the search text matches
    Sizes,              \* rows on a page, by the terminal's height
    MaxSessions,        \* forms opened
    MaxSearches,        \* searches typed
    MaxOps              \* completions outstanding at once

VARIABLES
    logged, newest,     \* the contacts in the database, the last one logged
    mode, session,      \* LogbookEditor.mode and .editSession
    list, total, page, size, cursor,
    asked,              \* the contact the open question names
    search,             \* on, searchGen, debounce timer running
    ops,                \* background work whose completion is outstanding
    gone                \* contacts this editor has reported as deleted

view == <<list, total, page, size, cursor>>
listVars == <<logged, newest, mode, session, view, asked, search, ops, gone>>

Ids == 1..MaxId
Nobody == 0
Questions == {"askDelete", "askPurge", "askSend"}

EditorListTypeOK ==
    /\ logged \subseteq Ids /\ newest \in 0..MaxId /\ session \in 0..MaxSessions
    /\ mode \in {"list", "edit"} \cup Questions
    /\ list \in Seq(Ids) /\ total \in 0..MaxId /\ page \in 1..MaxId /\ size \in Sizes
    /\ cursor \in 1..MaxId /\ asked \in Ids \cup {Nobody} /\ gone \subseteq Ids
    /\ search \in [on : BOOLEAN, gen : 0..(MaxSearches + 1), waits : BOOLEAN]

\* Contacts by age, the newest first, as the queries return them.
Listed(S) == [i \in 1..Cardinality(S) |-> CHOOSE x \in S : Cardinality({y \in S : y >= x}) = i]
PagesFor(n, s) == IF n = 0 THEN 1 ELSE (n + s - 1) \div s
Rows(p, s) == SubSeq(Listed(logged), (p - 1) * s + 1, Min({p * s, Cardinality(logged)}))

\* loadPage: clamped with the count of the previous load, and with the new count
\* when that page is gone.
LoadedPage(p, n) == Min({p, PagesFor(n, size), PagesFor(Cardinality(logged), size)})

\* The page is installed as a whole, with the cursor of a new table at its top; a
\* read that fails leaves the one on screen.
Install(p) ==
    \/ /\ page' = p /\ list' = Rows(p, size) /\ total' = Cardinality(logged) /\ cursor' = 1
       /\ UNCHANGED size
    \/ UNCHANGED view

\* A search result is not paged: reloads leave it alone.
Reload(searching) == IF searching THEN UNCHANGED view ELSE Install(LoadedPage(page, total))

EditorListInit ==
    /\ logged = 1..(MaxId - 1) /\ newest = MaxId - 1 /\ mode = "list" /\ session = 0
    /\ size \in Sizes /\ page = 1 /\ cursor = 1 /\ total = MaxId - 1 /\ list = Rows(1, size)
    /\ asked = Nobody /\ ops = {} /\ gone = {}
    /\ search = [on |-> FALSE, gen |-> 0, waits |-> FALSE]

-----------------------------------------------------------------------------
(* The operator. *)

UnderCursor == IF cursor > Len(list) THEN list[1] ELSE list[cursor]
InList == mode = "list" /\ UNCHANGED <<logged, newest, gone>>

\* Down, page down and their likes, over the edge of a page too.
MoveCursor ==
    /\ InList /\ UNCHANGED <<mode, session, asked, search, ops>>
    /\ \/ cursor < Len(list) /\ cursor' = cursor + 1 /\ UNCHANGED <<list, total, page, size>>
       \/ cursor >= Len(list) /\ page < PagesFor(total, size) /\ ~search.on
          /\ Install(LoadedPage(page + 1, total))

\* Typing starts the debounce; the emptied text restores the page at once.
TypeSearch ==
    /\ InList /\ UNCHANGED <<mode, session, asked, ops>>
    /\ \/ search.gen < MaxSearches /\ search' = [on |-> TRUE, gen |-> search.gen + 1, waits |-> TRUE]
          /\ UNCHANGED view
       \/ search.on /\ search' = [search EXCEPT !.on = FALSE] /\ Reload(FALSE)

\* Enter, and Esc or a save that leads back.
OpenForm ==
    /\ InList /\ list # <<>> /\ session < MaxSessions /\ session' = session + 1 /\ mode' = "edit"
    /\ UNCHANGED <<view, asked, search, ops>>
LeaveForm == mode = "edit" /\ mode' = "list" /\ UNCHANGED <<logged, newest, session, view, asked, search, ops, gone>>

\* The dialog's text is made at its first frame and kept.
Ask(question) ==
    /\ InList /\ mode' = question
    /\ IF question = "askDelete" THEN list # <<>> /\ asked' = UnderCursor ELSE asked' = Nobody
    /\ UNCHANGED <<session, view, search, ops>>

Cancel ==
    /\ mode \in Questions /\ mode' = "list" /\ asked' = Nobody
    /\ UNCHANGED <<logged, newest, session, view, search, ops, gone>>

\* doConfirm: a delete takes the row under the cursor now.
Confirm ==
    /\ mode \in Questions /\ mode' = "list" /\ asked' = Nobody
    /\ ops' = ops \cup
         IF mode = "askDelete" THEN {[kind |-> "delete", session |-> session, id |-> UnderCursor] : x \in Range(list)}
         ELSE {[kind |-> IF mode = "askPurge" THEN "purge" ELSE "sent", session |-> session]}
    /\ UNCHANGED <<logged, newest, session, view, search, gone>>

\* The terminal's height changes: the contact under the cursor is looked for by
\* its id, on the page of its rank; a contact that is gone leaves its position.
Resize ==
    /\ ~search.on
    /\ \E s \in Sizes \ {size} :
         LET at == IF cursor <= Len(list) /\ list[cursor] \in logged
                   THEN Cardinality({y \in logged : y >= list[cursor]})
                   ELSE Min({(page - 1) * size + cursor, Max({total, 1})})
             p == Min({(at - 1) \div s + 1, PagesFor(Cardinality(logged), s)})
         IN /\ size' = s /\ page' = p /\ list' = Rows(p, s) /\ total' = Cardinality(logged)
            /\ cursor' = Max({1, Min({at - (p - 1) * s, Len(Rows(p, s))})})
    /\ UNCHANGED <<logged, newest, mode, session, asked, search, ops, gone>>

-----------------------------------------------------------------------------
(* Workers, other writers, and completions. *)

\* Another program's contact is logged while the editor is open.
LogAnother ==
    /\ newest < MaxId /\ newest' = newest + 1 /\ logged' = logged \cup {newest + 1}
    /\ UNCHANGED <<mode, session, view, asked, search, ops, gone>>

\* searchWorkerCmd, once the debounce is over for the latest text.
SearchRuns ==
    /\ search.waits /\ search' = [search EXCEPT !.waits = FALSE]
    /\ ops' = (IF search.on THEN ops \cup {[kind |-> "found", gen |-> search.gen, rows |-> Listed(logged \cap Found)]}
               ELSE ops)
    /\ UNCHANGED <<logged, newest, mode, session, view, asked, gone>>

\* The local write of a delete or purge; its completion waits for the server.
Works(o) ==
    /\ o \in ops
    /\ \/ /\ o.kind = "delete" /\ logged' = logged \ {o.id}
          /\ ops' = (ops \ {o}) \cup {[kind |-> "deleted", session |-> o.session, id |-> o.id]}
       \/ /\ o.kind = "purge" /\ logged' = {}
          /\ ops' = (ops \ {o}) \cup {[kind |-> "purged", session |-> o.session]}
    /\ UNCHANGED <<newest, mode, session, view, asked, search, gone>>

\* The search result still asked for: same generation, same text.
Wanted(o) == o.gen = search.gen /\ search.on

SearchArrives(o) ==
    /\ o \in ops /\ o.kind = "found" /\ ops' = ops \ {o}
    /\ IF Wanted(o) THEN list' = o.rows /\ total' = Len(o.rows) /\ cursor' = 1 /\ UNCHANGED <<page, size>>
       ELSE UNCHANGED view
    /\ UNCHANGED <<logged, newest, mode, session, asked, search, gone>>

\* A delete or purge ends the search, whose rows, and those under way, would
\* bring the contact back.
SearchAfter(o) ==
    IF o.kind \in {"deleted", "purged"} /\ search.on THEN [on |-> FALSE, gen |-> MaxSearches + 1, waits |-> FALSE] ELSE search

\* editorMsg, then handleLogbookEditorUpdate: back to the list unless a form was
\* opened since, and a reload in any case, also behind a form or a question.
Completed(o) ==
    /\ o \in ops /\ o.kind \in {"deleted", "purged", "sent"} /\ ops' = ops \ {o}
    /\ search' = SearchAfter(o)
    /\ IF o.session = session THEN mode' = "list" /\ asked' = Nobody ELSE UNCHANGED <<mode, asked>>
    /\ Reload(search'.on)
    /\ gone' = gone \cup (IF o.kind = "purged" THEN (1..newest) \ logged ELSE IF o.kind = "deleted" THEN {o.id} ELSE {})
    /\ UNCHANGED <<logged, newest, session>>

EditorListStep ==
    \/ MoveCursor \/ TypeSearch \/ OpenForm \/ LeaveForm \/ Cancel \/ Confirm \/ Resize
    \/ \E q \in Questions : Ask(q)
    \/ LogAnother \/ SearchRuns
    \/ \E o \in ops : Works(o) \/ SearchArrives(o) \/ Completed(o)

EditorListNext == EditorListStep /\ Cardinality(ops') <= MaxOps

EditorListSpec == EditorListInit /\ [][EditorListNext]_listVars

-----------------------------------------------------------------------------
\* Whatever the order of deletes, purges, pages and resizes, an empty list means
\* an empty logbook, or no match, at the last read.
PageExists == total > 0 => list # <<>>

\* A search result under way does not bring back a contact reported as deleted.
NoGhosts ==
    \A o \in ops \ ops' : o.kind = "found" => Range(list') \cap gone \subseteq Range(list)

\* A resize keeps the contact under the cursor while it is in the logbook.
ResizeKeepsContact ==
    ~search.on /\ size' # size /\ cursor <= Len(list) /\ list[cursor] \in logged
         => list'[cursor'] = list[cursor]

\* The question names a contact, and that one is deleted.
DeletesWhatWasAsked ==
    \A o \in ops' \ ops : o.kind = "delete" => o.id = asked
==============================================================================
