----------------------------- MODULE DupeCheck ------------------------------
(***************************************************************************)
(* The warning before a contact is logged twice.  Its verdict is cached     *)
(* until the fields it depends on, the logbook or the data revision change; *)
(* the editor, downloads and imports write behind the form's back, and tell *)
(* when they are done, if somebody still listens.  The badge is left out.   *)
(***************************************************************************)
EXTENDS Integers, FiniteSets

CONSTANTS
    Calls, NoCall,
    Slots,          \* band, mode and date together
    Refs,           \* SOTA, POTA, WWFF and IOTA together, none being one of them
    Books,
    MaxOps          \* works of the editor's workers at a time

VARIABLES
    rows,           \* what contacts each logbook holds, once or more
    book,           \* App.LogbookName
    form,           \* the fields the verdict depends on
    cache,          \* dupeCacheKey and dupeCacheResult; qsoRev is still the key's, or not
    confirmed,      \* dupeConfirmed
    retain,         \* retainForm
    ops,            \* works on their way, and what they have written
    lost,           \* logbooks with a change nobody was told of since the last revision
    warned          \* the last Enter warned, and no call was typed since

dupeVars == <<rows, book, form, cache, confirmed, retain, ops, lost, warned>>

Contact == [call : Calls, slot : Slots, refs : Refs]
FormOf == [call : Calls \cup {NoCall}, slot : Slots, refs : Refs]
NoKey == [fresh |-> FALSE, key |-> [call |-> NoCall], book |-> NoCall, dupe |-> FALSE]

DupeTypeOK ==
    /\ rows \in [Books -> SUBSET Contact]
    /\ book \in Books /\ form \in FormOf
    /\ cache = NoKey \/ cache \in [fresh : BOOLEAN, key : Contact, book : Books, dupe : BOOLEAN]
    /\ confirmed \in BOOLEAN /\ retain \in BOOLEAN
    /\ ops \subseteq [book : Books, written : BOOLEAN] /\ Cardinality(ops) <= MaxOps
    /\ lost \subseteq Books /\ warned \in BOOLEAN

NoneRefs == CHOOSE r \in Refs : TRUE
Blank(f) == [f EXCEPT !.call = NoCall, !.refs = NoneRefs]

DupeInit ==
    /\ \E s \in Slots : form = [call |-> NoCall, slot |-> s, refs |-> NoneRefs]
    /\ rows \in [Books -> SUBSET Contact]
    /\ book \in Books /\ cache = NoKey /\ confirmed = FALSE /\ retain \in BOOLEAN
    /\ ops = {} /\ lost = {} /\ warned = FALSE

-----------------------------------------------------------------------------
(* The verdict. *)

\* IsDuplicateQSO: some contact on that call, band, mode and date, whichever is found first.
Matches(b, f) == {c \in rows[b] : c.call = f.call /\ c.slot = f.slot}
Answers(b, f) ==
    IF Matches(b, f) = {} THEN {FALSE} ELSE {c.refs = f.refs : c \in Matches(b, f)}

Cached(f, b) == cache.fresh /\ cache.key = f /\ cache.book = b

\* checkDupe in logbook b: the cache as it leaves it, for each answer there may be.
Checked(f, b) ==
    IF f.call = NoCall \/ Cached(f, b) THEN {cache}
    ELSE {[fresh |-> TRUE, key |-> f, book |-> b, dupe |-> d] : d \in Answers(b, f)}

\* qsoDataChanged, from refreshQSOS or invalidateDashboardFlags: a key with the
\* revision before is never met again.
Changed(c) == cache' = [c EXCEPT !.fresh = FALSE] /\ lost' = {}

-----------------------------------------------------------------------------
(* The form. *)

\* afterFieldEdit and fillFromDXCSpot, with the spot's references: another call needs a
\* confirmation of its own.
TypeCall(c) ==
    /\ c # form.call /\ confirmed' = FALSE
    /\ \E refs \in Refs : form' = [form EXCEPT !.call = c, !.refs = refs]
    /\ warned' = FALSE /\ UNCHANGED <<rows, book, cache, retain, ops, lost>>

\* dxcFillFromSelected: Enter in the DX table fills the form and checks it; what was
\* confirmed for the call before stays confirmed.
FromTable(f) ==
    /\ f.call # NoCall /\ form' = f /\ cache' \in Checked(f, book)
    /\ UNCHANGED <<rows, book, confirmed, retain, ops, lost, warned>>

\* Band, mode, date and references; the call that WSJT-X or an APRS station fills in.
OtherFill(f) ==
    /\ f # form /\ form' = f
    /\ UNCHANGED <<rows, book, cache, confirmed, retain, ops, lost, warned>>

LeaveField ==
    /\ cache' \in Checked(form, book) /\ cache' # cache
    /\ UNCHANGED <<rows, book, form, confirmed, retain, ops, lost, warned>>

\* clearForm; the key is dropped with it.
Cleared == IF retain THEN form ELSE Blank(form)

Delete ==
    /\ form' = Cleared /\ cache' = NoKey
    /\ UNCHANGED <<rows, book, confirmed, retain, ops, lost, warned>>

\* InsertQSO of the form in the open logbook and what follows it.
Logged(c) ==
    /\ rows' = [rows EXCEPT ![book] = @ \cup {c}]
    /\ form' = Cleared

\* saveQSO: the first Enter on a dupe warns; what is not valid, or does not reach the
\* database, uses the confirmation up without logging anything.
Warned(c) == form.call # NoCall /\ c.dupe /\ ~confirmed

Save ==
    /\ UNCHANGED <<book, retain, ops>>
    /\ \E c \in Checked(form, book) :
          /\ confirmed' = Warned(c) /\ warned' = Warned(c)
          /\ \/ cache' = c /\ UNCHANGED <<rows, form, lost>>
             \/ form.call # NoCall /\ ~Warned(c) /\ Logged(form) /\ Changed(NoKey)

\* handleWSJTXLogged logs without asking, and clears the form.
WSJTXLogs(c) ==
    /\ c.refs = NoneRefs /\ Logged(c) /\ UNCHANGED <<book, confirmed, retain, ops, warned>>
    /\ Changed(NoKey)

-----------------------------------------------------------------------------
(* Works of the editor: a save, a delete, an import, a download or a purge. *)

StartWork ==
    /\ Cardinality(ops) < MaxOps
    /\ ops' = ops \cup {[book |-> book, written |-> FALSE]} /\ ops' # ops
    /\ UNCHANGED <<rows, book, form, cache, confirmed, retain, lost, warned>>

\* What one step of a work makes of a logbook: a contact added, deleted or edited; one
\* deleted may have left another like it.
Written(s) ==
    UNION {{s, s \cup {c}, s \ {c}} \cup {(s \ {c}) \cup {d} : d \in Contact} : c \in Contact}

WorkWrites(o) ==
    /\ ~o.written /\ ops' = (ops \ {o}) \cup {[o EXCEPT !.written = TRUE]} /\ Cardinality(ops') = Cardinality(ops)
    /\ \E s \in Written(rows[o.book]) : rows' = [rows EXCEPT ![o.book] = s]
    /\ UNCHANGED <<book, form, cache, confirmed, retain, lost, warned>>

\* The completion reaches the editor that began the work, still on the screen.
WorkAnnounced(o) ==
    /\ o.written /\ ops' = ops \ {o} /\ Changed(cache)
    /\ UNCHANGED <<rows, book, form, confirmed, retain, warned>>

\* The editor was left or replaced, and its completion is dropped.
WorkDiscarded(o) ==
    /\ o.written /\ ops' = ops \ {o} /\ lost' = lost \cup {o.book}
    /\ UNCHANGED <<rows, book, form, cache, confirmed, retain, warned>>

-----------------------------------------------------------------------------
(* The logbook. *)

\* handleLogbookSwitched, cycled or picked: it checks in the new logbook, then reloads.
Switch(b) ==
    /\ b # book /\ book' = b /\ \E c \in Checked(form, b) : Changed(c)
    /\ UNCHANGED <<rows, form, confirmed, retain, ops, warned>>

\* refreshQSOS for any other reason.
Reload == Changed(cache) /\ UNCHANGED <<rows, book, form, confirmed, retain, ops, warned>>

DupeNext ==
    \/ \E c \in Calls \cup {NoCall} : TypeCall(c)
    \/ \E f \in FormOf : OtherFill(f) \/ FromTable(f)
    \/ \E c \in Contact : WSJTXLogs(c)
    \/ LeaveField \/ Delete \/ Save \/ StartWork \/ Reload
    \/ \E o \in ops : WorkWrites(o) \/ WorkAnnounced(o) \/ WorkDiscarded(o)
    \/ \E b \in Books : Switch(b)

DupeSpec == DupeInit /\ [][DupeNext]_dupeVars

-----------------------------------------------------------------------------
\* Every writer of the open logbook was heard.
Settled == book \notin lost /\ \A o \in ops : o.written => o.book # book

\* The verdict kept for what the form says now is one the log gives now: whoever
\* changes the log, in whatever order logbooks are opened and answers come.
VerdictIsCurrent == Settled /\ Cached(form, book) => cache.dupe \in Answers(book, form)

\* Enter logs what the log already has only if an Enter before warned and no call was
\* typed since; another call that WSJT-X, an APRS station or the DX table fills in is not
\* told apart.
NoSilentDuplicate ==
    Save /\ cache' = NoKey /\ Settled /\ Answers(book, form) = {TRUE} => warned

==============================================================================
