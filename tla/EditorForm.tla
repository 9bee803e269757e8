----------------------------- MODULE EditorForm -----------------------------
(***************************************************************************)
(* The edit form of the log editor, which stays open while its save is on  *)
(* its way to the server.  Completions of saves, deletes, uploads and       *)
(* purges, and remote copies fetched for the form, arrive at any time, for   *)
(* any earlier form or editor; the form is filled from the listed row.       *)
(***************************************************************************)
EXTENDS Integers, FiniteSets

CONSTANTS
    Contacts, NoContact,
    Linked,             \* the contacts with a remote copy
    MaxGen,             \* editors opened with F8
    MaxSessions,        \* forms opened in an editor
    MaxRevs,            \* changes typed into a form
    MaxOps              \* messages outstanding at once

VARIABLES
    stored, listed,     \* each contact's text: saves it has seen, in the database and in the list
    pending,            \* wavelog_dirty
    gen, mode,          \* LogbookEditor.gen and .mode
    form,               \* the contact, editSession, editRev, the text it shows,
                        \* and whether it holds input that was never saved
    ops

formVars == <<stored, listed, pending, gen, mode, form, ops>>

MaxSaves == MaxGen * MaxSessions * MaxRevs
NoForm == [id |-> NoContact, session |-> 0, rev |-> 0, text |-> 0, typed |-> FALSE]

EditorFormTypeOK ==
    /\ stored \in [Contacts -> 0..MaxSaves] /\ listed \in [Contacts -> 0..MaxSaves]
    /\ pending \subseteq Linked /\ gen \in 1..MaxGen /\ mode \in {"list", "edit", "askSave"}
    /\ form \in [id : Contacts \cup {NoContact}, session : 0..MaxSessions, rev : 0..MaxRevs,
                 text : 0..MaxSaves, typed : BOOLEAN]
    /\ Cardinality(ops) <= MaxOps

EditorFormInit ==
    /\ stored = [c \in Contacts |-> 0] /\ listed = stored /\ pending = {}
    /\ gen = 1 /\ mode = "list" /\ form = NoForm /\ ops = {}

Sends(m) == ops' = ops \cup {m} /\ Cardinality(ops') <= MaxOps

-----------------------------------------------------------------------------
(* The operator. *)

\* A new editor, with a page just read; the old one's work goes on.
Reopen ==
    /\ gen < MaxGen /\ gen' = gen + 1 /\ mode' = "list" /\ form' = NoForm /\ listed' = stored
    /\ UNCHANGED <<stored, pending, ops>>

\* Enter on a row: a copy of the listed row, a new session; a contact with a
\* remote copy and nothing pending is fetched.
Open(c) ==
    /\ mode = "list" /\ form.session < MaxSessions /\ mode' = "edit"
    /\ form' = [id |-> c, session |-> form.session + 1, rev |-> 0, text |-> listed[c], typed |-> FALSE]
    /\ \/ c \in Linked \ pending
          /\ Sends([kind |-> "fetched", gen |-> gen, session |-> form.session + 1, rev |-> 0, id |-> c])
       \/ UNCHANGED ops
    /\ UNCHANGED <<stored, listed, pending, gen>>

\* A key or a paste that changes a field.
Type ==
    /\ mode = "edit" /\ form.rev < MaxRevs /\ form' = [form EXCEPT !.rev = @ + 1, !.typed = TRUE]
    /\ UNCHANGED <<stored, listed, pending, gen, mode, ops>>

AskSave == mode = "edit" /\ mode' = "askSave" /\ UNCHANGED <<stored, listed, pending, gen, form, ops>>

\* Esc in the form, and Cancel in the question.
Leave ==
    /\ mode \in {"edit", "askSave"} /\ mode' = "list" /\ form' = [form EXCEPT !.typed = FALSE]
    /\ UNCHANGED <<stored, listed, pending, gen, ops>>

\* doSave: written on the owner loop, from the fields of the form; the completion
\* comes at once or when the remote call is over, and the form stays open.
Save ==
    /\ mode = "askSave" /\ mode' = "edit"
    /\ \/ LET new == IF form.typed THEN form.text + 1 ELSE form.text
          IN /\ stored' = [stored EXCEPT ![form.id] = new]
             /\ form' = [form EXCEPT !.typed = FALSE, !.text = new]
             /\ pending' = pending \cup ({form.id} \cap Linked)
             /\ Sends([kind |-> "saved", gen |-> gen, session |-> form.session, rev |-> form.rev, id |-> form.id])
       \/ UNCHANGED <<stored, pending, form, ops>>
    /\ UNCHANGED <<listed, gen>>

\* A delete, upload or purge of other contacts, begun in the list.
Begin ==
    /\ mode = "list" /\ UNCHANGED <<stored, listed, pending, gen, mode, form>>
    /\ Sends([kind |-> "other", gen |-> gen, session |-> form.session, rev |-> 0, id |-> NoContact])

-----------------------------------------------------------------------------
(* Messages. *)

\* needsReload: a new page, unless a search is on or the read fails.
Reload == listed' \in {stored, listed}

\* Only the session that was left alone since may be taken back to the list.
\* Mutant: the revision of the input is not looked at.
ClosesFormTyped(o) == o.gen = gen /\ o.session = form.session
ClosesForm(o) ==
    /\ o.gen = gen /\ o.session = form.session
    /\ o.kind = "saved" => o.rev = form.rev

Completed(o) ==
    /\ o \in ops /\ o.kind \in {"saved", "other"} /\ ops' = ops \ {o}
    /\ IF ClosesForm(o)
       THEN mode' = "list" /\ form' = [form EXCEPT !.typed = FALSE]
       ELSE UNCHANGED <<mode, form>>
    /\ IF ClosesForm(o) \/ (o.kind = "other" /\ o.gen = gen) THEN Reload ELSE UNCHANGED listed
    /\ pending' \in {pending, pending \ {o.id}} \cup (IF o.kind = "other" THEN {pending} ELSE {})
    /\ UNCHANGED <<stored, gen>>

\* ApplyRemoteRefresh: the form, its session and its input are as they were when
\* the fetch began, and the row has nothing pending.
Applies(o) ==
    /\ o.gen = gen /\ o.session = form.session /\ mode = "edit" /\ o.id = form.id
    /\ o.rev = form.rev /\ form.id \notin pending

RemoteArrives(o) ==
    /\ o \in ops /\ o.kind = "fetched" /\ ops' = ops \ {o}
    /\ IF Applies(o) THEN form' = [form EXCEPT !.text = stored[form.id], !.typed = FALSE] /\ Reload
       ELSE UNCHANGED <<form, listed>>
    /\ UNCHANGED <<stored, pending, gen, mode>>

EditorFormNext ==
    \/ Reopen \/ (\E c \in Contacts : Open(c)) \/ Type \/ AskSave \/ Leave \/ Save \/ Begin
    \/ \E o \in ops : Completed(o) \/ RemoteArrives(o)

EditorFormSpec == EditorFormInit /\ [][EditorFormNext]_formVars

-----------------------------------------------------------------------------
\* Input that was never saved is given up by the operator only: no completion of
\* an earlier session, revision or editor closes or refills the form it is in.
TypedSurvives ==
    \A o \in ops \ ops' : form.typed => form' = form /\ mode' = mode

\* A save replaces the text it showed: it does not undo an earlier edit unseen.
SavesOverWhatItShowed == [][\A c \in Contacts : stored'[c] >= stored[c]]_formVars
==============================================================================
