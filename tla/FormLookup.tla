----------------------------- MODULE FormLookup -----------------------------
(***************************************************************************)
(* The contact form and the callbook answers that fill it.  They take their *)
(* time, and meanwhile the operator corrects the callsign, logs the contact,*)
(* picks a spot or changes the logbook, and WSJT-X moves the form on by      *)
(* itself.  An answer too late for the form completes the row just logged.   *)
(***************************************************************************)
EXTENDS Integers, Sequences, FiniteSets

CONSTANTS
    Calls, NoCall, Typed,   \* a field is blank (NoCall), typed or of a reference, or data about a call
    Books,
    MaxRows, MaxClears,     \* contacts logged; forms cleared without one
    MaxAsked                \* answers outstanding

VARIABLES
    form,               \* callsign, name and grid, gridSource, formGen, retainForm; carried: an Enter
                        \* in the DX table has kept the grid WSJT-X gave for the call before
    partner,            \* lookup.partnerData
    done,               \* the call qrzLookupDone is for
    recent,             \* qrzLastCall, while under 3 s have passed since qrzLast
    book,
    rows,               \* contacts logged, with the book they went to
    saved,              \* savedID, savedCall and savedLogbook: an index of rows, or 0
    asked               \* lookups on their way

lookupVars == <<form, partner, done, recent, book, rows, saved, asked>>

Value == Calls \cup {NoCall, Typed}
Anyone == Calls \cup {NoCall}
MaxGen == 2 * (MaxRows + MaxClears)

FormLookupTypeOK ==
    /\ form \in [call : Anyone, name : Value, grid : Value, carried : BOOLEAN,
                 source : {"none", "callbook", "manual", "wsjtx", "ref"}, gen : 0..MaxGen, retain : BOOLEAN]
    /\ partner \in Anyone /\ done \in Anyone
    /\ recent \in [asked : BOOLEAN, call : Anyone]
    /\ book \in Books /\ rows \in Seq([call : Calls, name : Value, grid : Value, carried : BOOLEAN, book : Books])
    /\ saved \in 0..Len(rows)
    /\ asked \subseteq [call : Calls, book : Books, gen : 0..MaxGen] /\ Cardinality(asked) <= MaxAsked

NothingRecent == [asked |-> FALSE, call |-> NoCall]

FormLookupInit ==
    /\ \E retain \in BOOLEAN :
          form = [call |-> NoCall, name |-> NoCall, grid |-> NoCall, carried |-> FALSE, source |-> "none",
                  gen |-> 0, retain |-> retain]
    /\ partner = NoCall /\ done = NoCall /\ recent = NothingRecent
    /\ book \in Books /\ rows = <<>> /\ saved = 0 /\ asked = {}

Emptied(c) == [form EXCEPT !.call = c, !.name = NoCall, !.grid = NoCall, !.carried = FALSE, !.source = "none"]

-----------------------------------------------------------------------------
(* Asking. *)

\* callbookLookup: not for the call it is done for, and not within 3 s for the
\* call recorded last; the answer names the logbook and the form it was asked for.
Ask(c, isDone, before, b) ==
    IF c # NoCall /\ isDone # c /\ before # [asked |-> TRUE, call |-> c]
    THEN /\ recent' = [asked |-> TRUE, call |-> c]
         /\ asked' = asked \cup {[call |-> c, book |-> b, gen |-> form.gen]}
         /\ Cardinality(asked') <= MaxAsked
    ELSE recent' = before /\ UNCHANGED asked

\* commitAndLookup, on the Lookup key or when the callsign field is left: leaving
\* records the call as looked up last before the lookup tests its rate limit.
Commit ==
    /\ form.call # NoCall /\ UNCHANGED <<form, partner, done, book, rows, saved>>
    /\ \/ Ask(form.call, done, recent, book)
       \/ Ask(form.call, done, IF recent.asked THEN [recent EXCEPT !.call = form.call] ELSE recent, book)

ThreeSecondsPass ==
    /\ recent.asked /\ recent' = NothingRecent
    /\ UNCHANGED <<form, partner, done, book, rows, saved, asked>>

-----------------------------------------------------------------------------
(* The operator and WSJT-X. *)

\* afterFieldEdit on another callsign, and fillFromDXCSpot: everything that was
\* about the previous one goes.
ChangeCall(c) ==
    /\ c # form.call /\ form' = Emptied(c) /\ partner' = NoCall /\ done' = NoCall
    /\ UNCHANGED <<recent, book, rows, saved, asked>>

\* afterFieldEdit of the other fields; leaving a reference, entered or removed, settles
\* what grid the references give, which is neither a typed one nor WSJT-X's.
RefFree == form.source \notin {"manual", "wsjtx"}
WithGrid(f, v, from) == [f EXCEPT !.grid = v, !.carried = FALSE, !.source = from]

TypeField ==
    /\ form.call # NoCall
    /\ form' \in {[form EXCEPT !.name = Typed], WithGrid(form, Typed, "manual")}
                 \cup (IF RefFree THEN {WithGrid(form, Typed, "ref")} ELSE {})
                 \cup (IF form.source = "ref" THEN {WithGrid(form, NoCall, "none")} ELSE {})
    /\ UNCHANGED <<partner, done, recent, book, rows, saved, asked>>

\* dxcFillFromSelected: Enter in the DX table takes the spot's call and the grid of its
\* references; a grid typed, or given by WSJT-X, stays, and with it the call done.
FromTable(c) ==
    /\ partner' = IF c # form.call THEN NoCall ELSE partner
    /\ form' \in IF RefFree THEN {Emptied(c), WithGrid(Emptied(c), Typed, "ref")}
                ELSE {[form EXCEPT !.call = c, !.name = NoCall,
                                   !.carried = form.source = "wsjtx" /\ form.grid \notin {NoCall, c}]}
    /\ UNCHANGED <<done, book, rows, saved>> /\ Ask(c, done, recent, book)

\* clearForm: the form that asked is over; on the Partner screen what was found
\* stays in view.
ClearForm ==
    /\ form' = IF form.retain THEN [form EXCEPT !.gen = @ + 1] ELSE [Emptied(NoCall) EXCEPT !.gen = @ + 2]
    /\ \/ partner' = NoCall /\ done' = NoCall
       \/ UNCHANGED <<partner, done>>
    /\ UNCHANGED <<recent, book, asked>>

\* saveQSO, when nothing refuses it.
Save ==
    /\ form.call # NoCall /\ Len(rows) < MaxRows /\ ClearForm
    /\ rows' = Append(rows, [call |-> form.call, name |-> form.name, grid |-> form.grid, carried |-> form.carried,
                             book |-> book])
    /\ saved' = Len(rows')

\* The Delete key, and a contact logged by WSJT-X.
Clear == form.gen < 2 * (Len(rows) + MaxClears) /\ ClearForm /\ UNCHANGED <<rows, saved>>

\* applyWSJTXStatus with another partner, or with none after one, and with a grid:
\* the lookup it flags leaves at the end of the same update.
WSJTXMovesOn(c) ==
    /\ c # form.call /\ partner' = NoCall /\ UNCHANGED <<done, book, rows, saved>>
    /\ form' \in {[Emptied(c) EXCEPT !.source = form.source]}
                 \cup (IF c = NoCall THEN {} ELSE {WithGrid(Emptied(c), c, "wsjtx")})
    /\ Ask(c, done, recent, book)

\* applyWSJTXStatus with the same partner: its grid replaces another, a typed one too.
WSJTXRepeats ==
    /\ form.call # NoCall /\ form' = WithGrid(form, form.call, "wsjtx")
    /\ UNCHANGED <<partner, done, recent, book, rows, saved, asked>>

\* handleLogbookSwitched: the callbook is asked again, in the new logbook.
SwitchBook(b) ==
    /\ b # book /\ book' = b /\ done' = NoCall /\ UNCHANGED <<form, partner, rows, saved>>
    /\ Ask(form.call, NoCall, NothingRecent, b)

-----------------------------------------------------------------------------
(* Answers. *)

\* A provider knows nothing, a name, or a name and a grid.
Knows == {{}, {"name"}, {"name", "grid"}}

\* enrichSavedQSO fills what is blank in the row that was logged last, and forgets
\* a row of another logbook.
IsForSaved(q, known) == saved # 0 /\ known # {} /\ rows[saved].call = q.call
Completes(q, known) == IsForSaved(q, known) /\ rows[saved].book = book

Completed(q, known) ==
    [rows EXCEPT ![saved].name = IF @ = NoCall THEN q.call ELSE @,
                 ![saved].grid = IF @ = NoCall /\ "grid" \in known THEN q.call ELSE @]

OurGrid == form.source \in {"none", "callbook"}

\* fillCallbookData: a field known overwrites the name, and the grid unless it has
\* a better source; nothing known clears the same fields.
Fill(q, known) ==
    /\ done' = q.call
    /\ IF known = {}
       THEN /\ form' = [form EXCEPT !.name = NoCall, !.grid = IF OurGrid THEN NoCall ELSE @,
                                    !.source = IF OurGrid THEN "none" ELSE @]
            /\ UNCHANGED partner
       ELSE /\ partner' = q.call
            /\ form' = [form EXCEPT !.name = q.call,
                          !.grid = IF "grid" \in known /\ OurGrid THEN q.call ELSE @,
                          !.source = IF "grid" \in known /\ OurGrid THEN "callbook" ELSE @]

OwnsAnswer(q) == q.gen = form.gen /\ form.call \in {NoCall, q.call}

Answer(q, known) ==
    /\ asked' = asked \ {q}
    /\ UNCHANGED <<recent, book>>
    /\ IF q.book # book THEN UNCHANGED <<form, partner, done, rows, saved>>
       ELSE /\ rows' = IF ~OwnsAnswer(q) /\ Completes(q, known) THEN Completed(q, known) ELSE rows
            /\ saved' = IF ~OwnsAnswer(q) /\ IsForSaved(q, known) THEN 0 ELSE saved
            /\ IF OwnsAnswer(q) \/ (Completes(q, known) /\ form.call = q.call)
               THEN Fill(q, known) ELSE UNCHANGED <<form, partner, done>>

\* EnrichQSO fails: the contact stays as it was, and can still be completed later.
AnswerFails(q, known) ==
    /\ q.book = book /\ ~OwnsAnswer(q) /\ Completes(q, known)
    /\ asked' = asked \ {q} /\ UNCHANGED <<form, partner, done, recent, book, rows, saved>>

FormLookupNext ==
    \/ Commit \/ ThreeSecondsPass \/ TypeField \/ Save \/ Clear \/ WSJTXRepeats
    \/ \E c \in Anyone : ChangeCall(c) \/ WSJTXMovesOn(c)
    \/ \E c \in Calls : FromTable(c)
    \/ \E b \in Books : SwitchBook(b)
    \/ \E q \in asked, known \in Knows : Answer(q, known) \/ AnswerFails(q, known)

FormLookupSpec == FormLookupInit /\ [][FormLookupNext]_lookupVars

-----------------------------------------------------------------------------
\* What was looked up for one callsign never ends in the form or in the contact of
\* another, however late it comes; of what WSJT-X said, only a grid that an Enter in the
\* DX table kept does.
OwnData ==
    /\ form.call # NoCall =>
          /\ {form.name, partner} \subseteq {NoCall, Typed, form.call}
          /\ form.grid \in {NoCall, Typed, form.call} \/ form.carried
    /\ \A i \in DOMAIN rows :
          /\ rows[i].name \in {NoCall, Typed, rows[i].call}
          /\ rows[i].grid \in {NoCall, Typed, rows[i].call} \/ rows[i].carried

\* "Clear QRZ-populated fields so old callsign data does not bleed" (dxcFillFromSelected):
\* not so for the grid WSJT-X gave.
NothingCarried == ~form.carried /\ \A i \in DOMAIN rows : ~rows[i].carried

\* A grid the operator or a reference gave is replaced by the operator and the radio only, not by an answer.
TypedGridStays ==
    form.grid = Typed /\ asked \ asked' # {} => form'.grid = Typed

\* "Never wipe values the operator typed" (clearQRZFields): not so for the name.
TypedNameStays ==
    [][form.name = Typed /\ asked \ asked' # {} => form'.name = Typed]_lookupVars

\* The answer for the contact just logged reaches it, also when the form has moved on,
\* if the database takes it.
AnswerReachesContact ==
    LET last == rows[Len(rows)] IN
       \A q \in asked : \A known \in Knows \ {{}} :
          /\ saved # 0 /\ q.book = book /\ last.book = book /\ last.call = q.call
          /\ q.gen < form.gen /\ Answer(q, known)
          => rows'[Len(rows)].name # NoCall

\* After a save the form stays as it was left until the operator goes on.
BlankStaysBlank ==
    form.call = NoCall /\ asked \ asked' # {} /\ form' # form
       => \E q \in asked \ asked' : q.gen = form.gen

==============================================================================
