---------------------------- MODULE ContestEntry ----------------------------
(***************************************************************************)
(* What an active contest puts into the form: its name as the comment, and  *)
(* the exchange sent.  Contests are cycled and picked while the form is     *)
(* half filled, logbooks with other contests are opened, and the comment    *)
(* may be kept from contact to contact and over a restart.  The numbers in  *)
(* an exchange are left out.                                                *)
(***************************************************************************)
EXTENDS Integers, Sequences, Functions

CONSTANTS
    Contests, NoContest,
    Order,              \* ActiveContestIDs of each logbook
    Prefilled,          \* contests with PrefillExchange; the others leave it to the operator
    Blank, Own          \* a field is blank, or the operator's

VARIABLES
    book, active,       \* the open logbook; ActiveContest of each
    comment, tag, tagFor, \* the field; contestComment and contestCommentFor
    sent,               \* the exchange sent: one made for a contest, or text
    keep, retain,       \* keepComment, retainForm
    state,              \* RetainComment and RetainedComment
    disk,               \* the configuration as it was saved last
    logged              \* the contact logged last

entryVars == <<book, active, comment, tag, tagFor, sent, keep, retain, state, disk, logged>>

Logbooks == DOMAIN Order
Active == Contests \cup {NoContest}
Text == Contests \cup {Blank, Own}
Kept == [retain : BOOLEAN, text : Text]

EntryTypeOK ==
    /\ book \in Logbooks /\ active \in [Logbooks -> Active] /\ \A b \in Logbooks : active[b] \in Range(Order[b]) \cup {NoContest}
    /\ comment \in Text /\ tag \in Active /\ tagFor \in Active
    /\ sent \in Text
    /\ keep \in BOOLEAN /\ retain \in BOOLEAN /\ state \in Kept
    /\ disk \in [active : [Logbooks -> Active], state : Kept]
    /\ logged \in [contest : Active, comment : Text, sent : Text]

\* applyContestComment: the comment, the tag and the contest it is for, after it saw
\* contest id.
Tagged(id, text, was, for) ==
    IF id = for /\ id # NoContest THEN <<text, was, for>>
    ELSE IF id = NoContest
         THEN <<IF was # NoContest /\ text = was THEN Blank ELSE text, NoContest, id>>
    ELSE IF text \in {Blank, was} THEN <<id, id, id>>
    ELSE <<text, NoContest, id>>

Becomes(t) == comment' = t[1] /\ tag' = t[2] /\ tagFor' = t[3]
Tags(id, text, was, for) == Becomes(Tagged(id, text, was, for))

EntryInit ==
    /\ book \in Logbooks /\ active = [b \in Logbooks |-> NoContest] /\ comment = Blank /\ tag = NoContest /\ tagFor = NoContest
    /\ sent = Blank /\ keep = FALSE /\ retain = FALSE
    /\ state = [retain |-> FALSE, text |-> Blank]
    /\ disk = [active |-> active, state |-> state]
    /\ logged = [contest |-> NoContest, comment |-> Blank, sent |-> Blank]

\* config.Save.
Saved(a, s) == disk' = [active |-> a, state |-> s]

-----------------------------------------------------------------------------
(* The form. *)

TypeComment(t) ==
    /\ t # comment /\ comment' = t
    /\ UNCHANGED <<book, active, tag, tagFor, sent, keep, retain, state, disk, logged>>

TypeExchange(t) ==
    /\ t # sent /\ sent' = t
    /\ UNCHANGED <<book, active, comment, tag, tagFor, keep, retain, state, disk, logged>>

\* The Keep Comment box, and persistKeepComment.
ToggleKeep ==
    /\ keep' = ~keep
    /\ state' = [retain |-> keep', text |-> IF keep' THEN comment ELSE Blank]
    /\ \/ Saved(active, state')
       \/ UNCHANGED disk
    /\ UNCHANGED <<book, active, comment, tag, tagFor, sent, retain, logged>>

ToggleRetain ==
    /\ retain' = ~retain
    /\ UNCHANGED <<book, active, comment, tag, tagFor, sent, keep, state, disk, logged>>

\* handleTick on the form.
Tick ==
    /\ Tags(active[book], comment, tag, tagFor)
    /\ UNCHANGED <<book, active, sent, keep, retain, state, disk, logged>>

\* prefillContestExchange: the exchange sent is made anew.
Prefill(id, x) == IF id \in Prefilled THEN id ELSE x

\* prefillPreviousContestExchange: what was sent to the station before in this contest.
Previous(id, x) ==
    IF x = Blank /\ logged.contest = id /\ id # NoContest THEN logged.sent ELSE x

LeaveCall ==
    LET id == active[book] IN
    /\ Tags(id, comment, tag, tagFor)
    /\ \E x \in {sent, Previous(id, sent)} : sent' = Prefill(id, x)
    /\ UNCHANGED <<book, active, keep, retain, state, disk, logged>>

\* clearForm, for the comment t and the tag as they are by then, and the exchange x.
Cleared(t, was, for, x) ==
    IF retain THEN Becomes(<<t, was, for>>) /\ sent' = x
    ELSE Tags(active[book], IF keep THEN t ELSE Blank, was, NoContest) /\ sent' = Blank

\* The Delete key, and a contact that WSJT-X logs with its own exchange.
Clear ==
    /\ Cleared(comment, tag, tagFor, sent)
    /\ UNCHANGED <<book, active, keep, retain, state, disk, logged>>

\* saveQSO.
Save ==
    LET id == active[book]
        t == Tagged(id, comment, tag, tagFor)
        x == Prefill(id, sent)
    IN /\ logged' = [contest |-> id, comment |-> t[1], sent |-> x]
       /\ Cleared(t[1], t[2], t[3], x)
       /\ UNCHANGED <<book, active, keep, retain, state, disk>>

-----------------------------------------------------------------------------
(* Contests and logbooks. *)

\* cycleActiveContest, through the contests of the logbook and none.
After(b) ==
    LET o == Order[b]
        here == {i \in DOMAIN o : o[i] = active[b]}
    IN IF active[b] = NoContest THEN o[1]
       ELSE IF \E i \in here : i < Len(o) THEN o[1 + CHOOSE i \in here : TRUE] ELSE NoContest

CycleContest ==
    /\ Order[book] # <<>> /\ active' = [active EXCEPT ![book] = After(book)] /\ Saved(active', state)
    /\ UNCHANGED <<book, comment, tag, tagFor, sent, keep, retain, state, logged>>

\* handleActivate does not save.
PickContest(c) ==
    /\ c # active[book] /\ c \in Range(Order[book]) \cup {NoContest} /\ active' = [active EXCEPT ![book] = c]
    /\ UNCHANGED <<book, comment, tag, tagFor, sent, keep, retain, state, disk, logged>>

\* Any menu that saves the configuration.
MenuSaves ==
    /\ Saved(active, state)
    /\ UNCHANGED <<book, active, comment, tag, tagFor, sent, keep, retain, state, logged>>

\* handleLogbookSwitched empties the exchange and fills it for the new logbook.
SwitchLogbook(b) ==
    /\ b # book /\ book' = b /\ Tags(active[b], comment, tag, tagFor) /\ sent' = Prefill(active[b], Blank)
    /\ UNCHANGED <<active, keep, retain, state, disk, logged>>

\* The program ends, in whatever way, and begins with what was saved.
Restart ==
    LET text == IF disk.state.retain THEN disk.state.text ELSE Blank
        old == IF text \in Contests THEN Own ELSE text     \* a tag of before is text like any other
    IN /\ active' = disk.active /\ state' = disk.state
       /\ keep' = disk.state.retain /\ retain' = FALSE /\ sent' = Blank
       /\ Tags(disk.active[book], old, NoContest, NoContest)
       /\ UNCHANGED <<book, disk, logged>>

EntryNext ==
    \/ TypeComment(Blank) \/ TypeComment(Own) \/ TypeExchange(Blank) \/ TypeExchange(Own)
    \/ ToggleKeep \/ ToggleRetain \/ Tick \/ LeaveCall \/ Clear \/ Save
    \/ CycleContest \/ MenuSaves \/ Restart
    \/ \E c \in Active : PickContest(c)
    \/ \E b \in Logbooks : SwitchLogbook(b)

EntrySpec == EntryInit /\ [][EntryNext]_entryVars

-----------------------------------------------------------------------------
\* A contact never carries the name of another contest than its own, however the
\* contests were changed while its form was filled.
TagIsOfContest == logged.comment \in Contests => logged.comment = logged.contest

\* "Operator text is never overwritten": a comment typed goes only with its form.
OwnCommentStays ==
    comment = Own /\ comment' # Own => Clear \/ Save \/ Restart \/ TypeComment(Blank)

\* A contact in a contest that fills the exchange was sent that contest's own.
ExchangeIsOfContest == logged.contest \in Prefilled => logged.sent = logged.contest

==============================================================================
