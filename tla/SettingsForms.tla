---------------------------- MODULE SettingsForms ---------------------------
(***************************************************************************)
(* The settings menus and forms of CQOps: where the keyboard focus is, and *)
(* which Wavelog station a logbook belongs to.                             *)
(*                                                                         *)
(* Focus.  The shared engine (menuFocus) holds the active row, or none     *)
(* while the Save & Back button has the focus; the station and rig forms   *)
(* also keep a focus of their own.  Sections open and close with their     *)
(* checkboxes, the setup wizard walks two forms, and a connection test     *)
(* answers later.  A form is cut down to a row of each kind.               *)
(*                                                                         *)
(* Stations.  Update fetches the stations of the server in the form, Space *)
(* goes to the next one, and the profile of the chosen station is fetched  *)
(* to fill the form.  Answers come back to the chooser, whatever form it   *)
(* shows by then; its fields live on when a form is closed.                *)
(***************************************************************************)
EXTENDS Naturals, Sequences, FiniteSetsExt

(* Focus. *)

CONSTANT MaxChanges                 \* bound on the changes of the settings

VARIABLES
    menu,       \* the form on the screen
    opts,       \* what is switched on in it
    row,        \* menuFocus.row: 0 is the button
    marker,     \* where each form shows its own focus, 0 nowhere
    rev,        \* edition of the settings in the form
    testing,    \* the edition a running connection test looks at, 0 none
    verdict     \* the edition the last verdict spoke of

focusVars == <<menu, opts, row, marker, rev, testing, verdict>>

\* A row is shown when `needs` is on and `hides` is off; `kind` is what Space does.
Row(kind, needs, hides) == [kind |-> kind, needs |-> needs, hides |-> hides]
Always(kind) == Row(kind, {}, {})
In(kind, opt) == Row(kind, {opt}, {})

StationRows == <<Always("text"), In("text", "advanced"), Always("wavelog"), In("text", "wavelog"), In("button", "wavelog")>>
RigRows == <<Always("text"), Always("backend"), In("text", "backend"), Always("wsjtx"), In("text", "wsjtx")>>
Forms == [
    integrations |-> <<Always("gps"), In("gpsd", "gps"), Row("text", {"gps"}, {"gpsd"}), Row("text", {"gps", "gpsd"}, {}),
                       In("test", "gps"), Always("http"), In("tls", "http"), Row("text", {"http", "tls"}, {})>>,
    callbook     |-> <<Always("fallback"), Always("qrz"), In("text", "qrz"), In("test", "qrz"), Always("wavelog")>>,
    chooser      |-> StationRows \o <<Always("aprs"), In("text", "aprs")>>,
    rig          |-> RigRows,
    contest      |-> <<Always("text"), Always("prefill"), In("text", "prefill")>>,
    wstation     |-> StationRows,
    wrig         |-> RigRows ]
Wizard == {"wstation", "wrig"}
OwnFocus == Wizard \cup {"chooser", "rig", "contest"}
Fixed == {"text", "button", "test"}
Options == {"gps", "gpsd", "http", "tls", "fallback", "qrz", "wavelog", "advanced", "aprs", "backend", "wsjtx", "prefill"}

FocusTypeOK ==
    /\ row \in Nat /\ rev \in 1..MaxChanges + 1
    /\ opts \subseteq Options
    /\ DOMAIN marker = DOMAIN Forms /\ (\A f \in DOMAIN marker : marker[f] \in Nat) /\ testing \in 0..MaxChanges + 1 /\ verdict \in 0..MaxChanges + 1

FocusInit ==
    /\ opts = {} /\ row = 1 /\ rev = 1 /\ testing = 0 /\ verdict = 0
    /\ \/ menu = "list" /\ marker = [f \in DOMAIN Forms |-> 0]
       \/ menu = "wstation" /\ marker = [f \in DOMAIN Forms |-> IF f \in Wizard THEN 1 ELSE 0]

-----------------------------------------------------------------------------

Rows == Forms[menu]
Shown(on) == LET rows == Rows IN {i \in DOMAIN rows : rows[i].needs \subseteq on /\ rows[i].hides \cap on = {}}

\* blurAll, then focusRow.
Focus(i) ==
    /\ row' = i
    /\ marker' = IF menu \in OwnFocus THEN [marker EXCEPT ![menu] = i] ELSE marker

\* next, prev: round the slots of the form, from a row that may be hidden.
Round(i, steps, n) == ((i - 1 + steps) % n) + 1
After(i, on) == LET n == Len(Rows) shown == Shown(on) IN Round(i, Min({s \in 1..n : Round(i, s, n) \in shown}), n)
Before(i) == LET n == Len(Rows) shown == Shown(opts) IN Round(i, Max({s \in 0..n - 1 : Round(i, s, n) \in shown}), n)

\* The callbook menu takes no key while it tests.
\* Mutant: it does.
KeysAlways == menu # "list"
Keys == menu # "list" /\ ~(menu = "callbook" /\ testing # 0)

\* onKey
Tab ==
    /\ Keys
    /\ Focus(IF row = 0 THEN Min(Shown(opts)) ELSE IF row = Max(Shown(opts)) THEN 0 ELSE After(row, opts))
    /\ UNCHANGED <<menu, opts, rev, testing, verdict>>
BackTab ==
    /\ Keys
    /\ Focus(IF row = 0 THEN Max(Shown(opts)) ELSE IF row = Min(Shown(opts)) THEN 0 ELSE Before(row))
    /\ UNCHANGED <<menu, opts, rev, testing, verdict>>

Changes == rev <= MaxChanges /\ rev' = rev + 1

\* fixFocus
FixFocus(on) == IF row \in Shown(on) THEN UNCHANGED <<row, marker>> ELSE Focus(After(row, on))

\* Space on a checkbox or a selector: the two settings menus then fix the focus.
Toggle ==
    /\ Keys /\ row # 0 /\ Rows[row].kind \notin Fixed
    /\ Changes
    /\ LET opt == Rows[row].kind
           on == IF opt \in opts THEN opts \ {opt} ELSE opts \cup {opt}
       IN  /\ opts' = on
           /\ IF menu \in {"integrations", "callbook"} THEN FixFocus(on) ELSE UNCHANGED <<row, marker>>
    /\ UNCHANGED <<menu, testing, verdict>>

Type ==
    /\ Keys /\ row # 0 /\ Rows[row].kind = "text"
    /\ Changes /\ UNCHANGED <<menu, opts, row, marker, testing, verdict>>

\* The Test button may be pressed again in the integrations menu.
Test ==
    /\ Keys /\ row # 0 /\ Rows[row].kind = "test"
    /\ testing' = rev
    /\ UNCHANGED <<menu, opts, row, marker, rev, verdict>>
Answered ==
    /\ testing # 0 /\ menu \in {"integrations", "callbook"}
    /\ verdict' = testing /\ testing' = 0
    /\ UNCHANGED <<menu, opts, row, marker, rev>>

\* Enter on a row of the settings menus goes on; in the other forms it saves.
EnterNext ==
    /\ Keys /\ menu \in {"integrations", "callbook"} /\ row # 0 /\ Rows[row].kind # "test"
    /\ Focus(After(row, opts))
    /\ UNCHANGED <<menu, opts, rev, testing, verdict>>

\* Ctrl+A in the wizard.
Advanced ==
    /\ menu = "wstation" /\ row # 0
    /\ opts' = IF "advanced" \in opts THEN opts \ {"advanced"} ELSE opts \cup {"advanced"}
    /\ UNCHANGED <<menu, row, marker, rev, testing, verdict>>

\* fm.reset: row one, and the button without focus.
Reset == row' = 1

\* A menu or form is opened on what is stored.
Open(f, on) ==
    /\ f \notin Wizard
    /\ menu' = f /\ Reset /\ rev' = 1
    /\ opts' = IF f = "chooser" THEN on \cup {"advanced"} ELSE on
    /\ marker' = [marker EXCEPT ![f] = IF f \in OwnFocus THEN 1 ELSE 0]
    /\ testing' = 0 /\ verdict' = 0

\* Esc, and a save that passes, from any row or the button.
Leave ==
    /\ Keys /\ menu \notin Wizard
    /\ menu' = "list" /\ opts' = {} /\ rev' = 1 /\ testing' = 0 /\ verdict' = 0
    /\ marker' = [marker EXCEPT ![menu] = 0]
    /\ UNCHANGED row

\* finishStation, finishRig and Esc: a form keeps the focus it was left with.
WizardStep ==
    /\ menu \in Wizard
    /\ menu' \in Wizard /\ Reset
    /\ (menu' = menu => menu = "wrig")      \* to the summary and back
    /\ UNCHANGED <<opts, marker, rev, testing, verdict>>

FocusNext ==
    \/ /\ menu = "list"
       /\ \E f \in DOMAIN Forms : \E on \in SUBSET ({Forms[f][i].kind : i \in DOMAIN Forms[f]} \ Fixed) : Open(f, on)
    \/ Tab \/ BackTab \/ Toggle \/ Type \/ Test \/ Answered \/ EnterNext \/ Advanced \/ Leave \/ WizardStep

FocusSpec == FocusInit /\ [][FocusNext]_focusVars

-----------------------------------------------------------------------------

\* The invariants menu_focus.go states, "exactly one active marker is visible (row
\* or button, never both)" and "hidden rows never receive focus", for the menus:
\* typed text and Space go to the row that is highlighted.
OneMarker == menu \in OwnFocus \ Wizard => marker[menu] = row
HiddenNeverFocused == menu \notin Wizard \cup {"list"} => row = 0 \/ row \in Shown(opts)

\* Each row that is shown, and the button, is reached with Tab alone: rows that Tab
\* does not lead out of are all of them.
AllReachable ==
    menu # "list" =>
        LET rows == Shown(opts)
            tab(j) == IF j = 0 THEN Min(rows) ELSE IF j = Max(rows) THEN 0 ELSE After(j, opts)
        IN  \A seen \in SUBSET (rows \cup {0, row}) :
               row \in seen /\ (\A j \in seen : tab(j) \in seen) => rows \cup {0} \subseteq seen

\* The verdict of a callbook test is about the login in the form.
VerdictIsForForm == menu = "callbook" /\ verdict' # verdict /\ menu' = menu => verdict' = rev

\* Violated: in the wizard Ctrl+A hides the row in focus, and a step taken back
\* leaves the form's own focus behind.
WizardKeepsFocus == menu \in Wizard => marker[menu] = row /\ (row = 0 \/ row \in Shown(opts))

\* Violated: "connection verified" of the integrations menu may speak of settings
\* that were changed while the test ran.
TestedIsShown == [][menu = "integrations" /\ verdict' # verdict /\ menu' = menu => verdict' = rev]_focusVars

-----------------------------------------------------------------------------
(* Stations. *)

CONSTANTS
    Books, Servers, None,
    Ids,            \* ids of the stations, 1..n; each server counts its own
    MaxForms        \* bound on the forms opened

VARIABLES
    config,     \* the Wavelog server and station of each logbook
    editing,    \* the logbook in the form, "new", or None while the list is shown
    form,       \* server, chosen station, and whose profile fills the rest
    list,       \* the server whose stations are listed, or None
    chosen,     \* wlStationIdx, as an id
    wanted,     \* wlStationID: the choice a new list starts with
    fetches,    \* lists under way, by server
    profiles,   \* profiles under way
    failed,     \* the profile of the chosen station could not be fetched
    forms

pickVars == <<config, editing, form, list, chosen, wanted, fetches, profiles, failed, forms>>

Station == [server : Servers, id : Ids]
IsStation(p) == p.server \in Servers /\ p.id \in Ids
NoStation == [server |-> None, id |-> 0]
Own == [server |-> None, id |-> 1]      \* the values stored, or typed
Nothing == [server |-> None, id |-> 0]
Link == [server : Servers \cup {None}, station : Station \cup {NoStation}]

PickerTypeOK ==
    /\ \A l \in {config[b] : b \in Books} \cup {form} :
          l.server \in Servers \cup {None} /\ (IsStation(l.station) \/ l.station = NoStation)
    /\ editing \in Books \cup {"new", None} /\ (IsStation(form.profile) \/ form.profile \in {Own, Nothing})
    /\ list \in Servers \cup {None} /\ chosen \in Ids /\ wanted \in Ids \cup {0}
    /\ fetches \subseteq Servers /\ \A p \in profiles : IsStation(p)
    /\ failed \in BOOLEAN /\ forms \in 0..MaxForms

\* A logbook starts on a station of its server, or without Wavelog.
PickerInit ==
    /\ config \in [Books -> {l \in Link : l.station.server = l.server}]
    /\ editing = None /\ form = [server |-> None, station |-> NoStation, profile |-> Nothing]
    /\ list = None /\ chosen = 1 /\ wanted = 0
    /\ fetches = {} /\ profiles = {} /\ failed = FALSE /\ forms = 0

-----------------------------------------------------------------------------
(* The forms. *)

Opens == editing = None /\ forms < MaxForms /\ forms' = forms + 1

\* startEdit, and duplicateSelected, which makes a new logbook of what it loads.
Load(b) ==
    /\ form' = [server |-> config[b].server, station |-> config[b].station, profile |-> Own]
    /\ list' = None /\ chosen' = 1 /\ failed' = FALSE
    /\ wanted' = IF config[b].server = None THEN wanted ELSE config[b].station.id
StartEdit(b) == Opens /\ Load(b) /\ editing' = b /\ UNCHANGED <<config, fetches, profiles>>
Duplicate(b) == Opens /\ Load(b) /\ editing' = "new" /\ UNCHANGED <<config, fetches, profiles>>

\* startCreate clears the station's fields, and not the Wavelog ones.
StartCreate ==
    /\ Opens /\ editing' = "new"
    /\ form' = [form EXCEPT !.profile = Nothing]
    /\ UNCHANGED <<config, list, chosen, wanted, fetches, profiles, failed>>

Cancel ==
    /\ editing # None /\ editing' = None
    /\ UNCHANGED <<config, form, list, chosen, wanted, fetches, profiles, failed, forms>>

\* saveForm: Wavelog needs a station.  A new logbook takes the place of one of Books.
Save(b) ==
    /\ editing \in {b, "new"} /\ form.station # NoStation /\ form.server # None
    /\ config' = [config EXCEPT ![b] = [server |-> form.server, station |-> form.station]]
    /\ editing' = None
    /\ UNCHANGED <<form, list, chosen, wanted, fetches, profiles, failed, forms>>

TypeServer(s) ==
    /\ editing # None /\ form.server # s /\ form' = [form EXCEPT !.server = s]
    /\ UNCHANGED <<config, editing, list, chosen, wanted, fetches, profiles, failed, forms>>

-----------------------------------------------------------------------------
(* The station. *)

\* fetchWavelogStations
PressUpdate ==
    /\ editing # None /\ form.server # None
    /\ fetches' = fetches \cup {form.server}
    /\ UNCHANGED <<config, editing, form, list, chosen, wanted, profiles, failed, forms>>

\* stationDetailCmd asks the server that is in the form now.
AskProfile(id) ==
    profiles' = IF form.server = None THEN profiles ELSE profiles \cup {[server |-> form.server, id |-> id]}

\* updateStationIDField: id, callsign and grid of the station that is chosen now.
Choose(s, id) ==
    /\ chosen' = id /\ wanted' = id /\ failed' = (form.server = None)
    /\ form' = [form EXCEPT !.station = [server |-> s, id |-> id]]
    /\ AskProfile(id)

\* wlUpdateMsg
ListArrives(s) ==
    /\ s \in fetches /\ fetches' = fetches \ {s}
    /\ list' = s
    /\ Choose(s, IF wanted \in Ids THEN wanted ELSE 1)
    /\ UNCHANGED <<config, editing, forms>>
ListFails(s) ==
    /\ s \in fetches /\ fetches' = fetches \ {s}
    /\ list' = None /\ chosen' = 1
    /\ UNCHANGED <<config, editing, form, wanted, profiles, failed, forms>>

\* wlCycleStation
Cycle ==
    /\ editing # None /\ list # None
    /\ Choose(list, (chosen % Cardinality(Ids)) + 1)
    /\ UNCHANGED <<config, editing, list, fetches, forms>>

\* wlStationDetailMsg: applied when its id is the one chosen now.
IsChosen(p) == list # None /\ p.id = chosen
ProfileArrives(p) ==
    /\ profiles' = profiles \ {p}
    /\ form' = IF IsChosen(p) THEN [form EXCEPT !.profile = p] ELSE form
    /\ UNCHANGED <<config, editing, list, chosen, wanted, fetches, failed, forms>>
ProfileFails(p) ==
    /\ profiles' = profiles \ {p}
    /\ failed' = (failed \/ IsChosen(p))
    /\ UNCHANGED <<config, editing, form, list, chosen, wanted, fetches, forms>>

PickerNext ==
    \/ \E b \in Books : StartEdit(b) \/ Duplicate(b) \/ Save(b)
    \/ \E s \in Servers : TypeServer(s) \/ ListArrives(s) \/ ListFails(s)
    \/ \E p \in profiles : ProfileArrives(p) \/ ProfileFails(p)
    \/ StartCreate \/ Cancel \/ PressUpdate \/ Cycle

PickerSpec == PickerInit /\ [][PickerNext]_pickVars

-----------------------------------------------------------------------------

\* The list Space walks through is the one the station in the form was taken from,
\* at its place: the next Space gives the station after the one that is shown.
ListIsOfForm == list # None => form.station = [server |-> list, id |-> chosen]

\* "stationID guards against stale results": once the profile of the chosen station
\* is here, the form is not filled with that of another one.
ProfileIsOfChosen ==
    list # None /\ ~failed /\ (\A p \in profiles : p.id # chosen) /\ IsStation(form.profile) => form.profile.id = chosen

\* A logbook is linked to a station of its own server.
\* Violated: the list of another form's server arrives late, or the URL is edited.
StationIsOfServer == \A b \in Books : config[b].station.server = config[b].server

\* A form for a new logbook starts without the Wavelog link of another one.
\* Violated: startCreate leaves it in the form.
NewIsUnlinked == [][editing = None /\ StartCreate => form'.server = None]_pickVars
=============================================================================
