---------------------------- MODULE ScreenRouting ---------------------------
(***************************************************************************)
(* Which screen is in view and where a key goes: to an overlay first, then  *)
(* to the function keys and the panes, and last to the screen.  Everything  *)
(* else reaches the screen past the overlays.  A screen's model is made     *)
(* when it is opened by its key, or found again by moving through the panes.*)
(***************************************************************************)
EXTENDS Integers, Sequences, Functions

CONSTANTS Books

VARIABLES
    screen,
    spot, help, confirm,    \* spotDialog, help.ShowAll, the quit dialog
    editor,                 \* logbookEditor: made, done, its logbook, what it does, its dialog
    menu,                   \* mainMenu: made, done
    book,
    call,                   \* the form holds a callsign
    up,                     \* panes whose service is there
    over                    \* the program ended

routeVars == <<screen, spot, help, confirm, editor, menu, book, call, up, over>>

Services == {"aprs", "dxc", "psk", "ref"}
Panes == <<"qso", "partner", "aprs", "dxc", "psk", "ref", "bpl", "editor", "menu">>
Screens == Range(Panes) \cup {"image", "logs", "chooser", "submenu", "general", "notifications"}

RouteTypeOK ==
    /\ screen \in Screens /\ spot \in BOOLEAN /\ help \in BOOLEAN /\ confirm \in BOOLEAN
    /\ editor \in [made : BOOLEAN, done : BOOLEAN, book : Books, mode : {"list", "form", "running"}, dialog : BOOLEAN]
    /\ menu \in [made : BOOLEAN, done : BOOLEAN]
    /\ book \in Books /\ call \in BOOLEAN /\ up \subseteq Services /\ over \in BOOLEAN

RouteInit ==
    /\ screen = "qso" /\ spot = FALSE /\ help = FALSE /\ confirm = FALSE /\ book \in Books
    /\ editor = [made |-> FALSE, done |-> FALSE, book |-> book, mode |-> "list", dialog |-> FALSE]
    /\ menu = [made |-> FALSE, done |-> FALSE] /\ call = FALSE /\ up = {} /\ over = FALSE

NewEditor == [made |-> TRUE, done |-> FALSE, book |-> book, mode |-> "list", dialog |-> FALSE]
NewMenu == [made |-> TRUE, done |-> FALSE]

overlays == <<spot, help, confirm>>
rest == <<book, call, up, over>>

-----------------------------------------------------------------------------
(* Overlays take the keys. *)

NoOverlay == ~spot /\ ~help /\ ~confirm /\ ~over
Running == editor.mode = "running"
Keys == NoOverlay /\ ~Running

SpotKey == spot /\ ~over /\ spot' = FALSE /\ UNCHANGED <<screen, help, confirm, editor, menu, rest>>

HelpKey == help /\ ~spot /\ ~over /\ help' = FALSE /\ UNCHANGED <<screen, spot, confirm, editor, menu, rest>>

ConfirmKey ==
    /\ confirm /\ ~spot /\ ~help /\ ~over /\ confirm' = FALSE /\ over' \in BOOLEAN
    /\ UNCHANGED <<screen, spot, help, editor, menu, book, call, up>>

-----------------------------------------------------------------------------
(* handleGlobalKeys: while the editor runs an operation only Quit, and its dialog's keys. *)

QuitKey == NoOverlay /\ confirm' = TRUE /\ UNCHANGED <<screen, spot, help, editor, menu, rest>>

HelpOpens == Keys /\ help' = TRUE /\ UNCHANGED <<screen, spot, confirm, editor, menu, rest>>

\* Which of the keys F1 to F7 is answered: Partner wants a callsign, and turns to its
\* image and back; a service's pane wants the service.
Answers(s) ==
    CASE s = "partner" -> screen # "partner" /\ (call \/ screen = "image")
      [] s = "image" -> screen = "partner"
      [] s \in Services -> s \in up
      [] OTHER -> s \in {"qso", "bpl", "logs"}

Go(s) == Keys /\ screen' = s /\ UNCHANGED <<overlays, rest>>

ScreenKey(s) == Answers(s) /\ Go(s) /\ UNCHANGED <<editor, menu>>

EditorKey == Go("editor") /\ editor' = NewEditor /\ UNCHANGED menu

MenuKey ==
    /\ UNCHANGED editor
    /\ IF screen = "menu" THEN Go("qso") /\ UNCHANGED menu ELSE Go("menu") /\ menu' = NewMenu

\* handlePaneNav, through paneScreens; the image counts as Partner.
Pane == IF screen = "image" THEN "partner" ELSE screen

Usable(s) ==
    \/ s \in {"qso", "bpl", "editor", "menu", Pane}
    \/ s = "partner" /\ call
    \/ s \in up

\* How many panes are between the i-th and the k-th on the way round, the whole round to itself.
Between(i, k, step) == (step * (k - i) - 1) % Len(Panes)

PaneKey(step) ==
    \E i, k \in DOMAIN Panes :
        /\ Panes[i] = Pane /\ Usable(Panes[k])
        /\ \A other \in DOMAIN Panes : Usable(Panes[other]) => Between(i, k, step) <= Between(i, other, step)
        /\ LET target == Panes[k]
           IN /\ Go(target)
              /\ editor' = IF target = "editor" /\ ~editor.made THEN NewEditor ELSE editor
              /\ menu' = IF target = "menu" /\ ~menu.made THEN NewMenu ELSE menu

-----------------------------------------------------------------------------
(* The screen's own keys. *)

\* A model that was left once is still done with when its pane is found again.
Ended == (screen = "editor" /\ editor.done) \/ (screen = "menu" /\ menu.done)

\* Esc where nothing but the form is behind, and Enter in the tables that fill the form.
BackToForm ==
    /\ screen \in Services \cup {"partner", "bpl", "logs"} /\ Go("qso") /\ UNCHANGED <<editor, menu>>

BackToPartner == screen = "image" /\ Go("partner") /\ UNCHANGED <<editor, menu>>

LeaveMenu == screen = "menu" /\ Go("qso") /\ menu' = [menu EXCEPT !.done = TRUE] /\ UNCHANGED editor

\* handleMainMenuUpdate, and Notifications from General.
OpenSub(s) ==
    /\ \/ screen = "menu" /\ s \in {"chooser", "submenu", "general"}
       \/ screen = "general" /\ s = "notifications"
    /\ Go(IF Ended THEN "qso" ELSE s) /\ UNCHANGED <<editor, menu>>

\* A submenu goes back, or is done with: then some end at the form.
LeaveSub ==
    /\ screen \in {"chooser", "submenu", "general", "notifications"}
    /\ \E s \in {"menu", "qso"} : Go(IF screen = "notifications" /\ s = "menu" THEN "general" ELSE s)
    /\ screen = "chooser" => screen' = "menu"
    /\ menu' \in {menu, NewMenu} /\ UNCHANGED editor

\* openSpotDialog, on the form.
OpenSpot ==
    /\ screen = "qso" /\ call /\ Keys /\ spot' = TRUE
    /\ UNCHANGED <<screen, help, confirm, editor, menu, rest>>

\* Typed on the form, or filled in and cleared by WSJT-X whatever is in view.
CallChanges ==
    /\ ~over /\ call' = ~call
    /\ UNCHANGED <<screen, overlays, editor, menu, book, up, over>>

\* Ctrl+L on the form, and the chooser.
SwitchLogbook(b) ==
    /\ screen \in {"qso", "chooser"} /\ Keys /\ b # book /\ book' = b
    /\ UNCHANGED <<screen, overlays, editor, menu, call, up, over>>

\* The editor: its form opens and closes, an operation begins.
EditorActs(mode) ==
    /\ screen = "editor" /\ Keys /\ editor' = [editor EXCEPT !.mode = mode, !.dialog = FALSE]
    /\ screen' = (IF Ended THEN "qso" ELSE screen) /\ UNCHANGED <<overlays, menu, rest>>

LeaveEditor ==
    /\ screen = "editor" /\ editor.mode = "list" /\ Go("qso") /\ editor' = [editor EXCEPT !.done = TRUE]
    /\ UNCHANGED menu

\* The dialog of a running operation is made when it is drawn, and then takes its keys.
Draw ==
    /\ screen = "editor" /\ Running /\ editor' = [editor EXCEPT !.dialog = TRUE]
    /\ UNCHANGED <<screen, overlays, menu, rest>>

\* cancelDownload; the operation runs on until its worker's last message.
Abort ==
    /\ screen = "editor" /\ Running /\ NoOverlay /\ editor.dialog
    /\ editor' = [editor EXCEPT !.dialog = FALSE]
    /\ UNCHANGED <<screen, overlays, menu, rest>>

-----------------------------------------------------------------------------
(* Messages reach the screen whatever overlay is open. *)

\* The next message sends to the form whoever finds an ended editor or menu.
Bounce ==
    /\ ~over /\ Ended
    /\ screen' = "qso" /\ UNCHANGED <<overlays, editor, menu, rest>>

\* The operation's last message, on its screen or kept alive off it.
Finished ==
    /\ ~over /\ Running /\ editor' = [editor EXCEPT !.mode = "list", !.dialog = FALSE]
    /\ UNCHANGED <<screen, overlays, menu, rest>>

\* A service comes and goes; only the cluster takes its pane with it, but not when its
\* connection is lost.
Service(s) ==
    /\ ~over /\ up' = IF s \in up THEN up \ {s} ELSE up \cup {s}
    /\ screen' \in {screen, IF s = "dxc" /\ s \in up /\ screen = s THEN "qso" ELSE screen}
    /\ UNCHANGED <<overlays, editor, menu, book, call, over>>

RouteNext ==
    \/ SpotKey \/ HelpKey \/ ConfirmKey \/ QuitKey \/ HelpOpens
    \/ EditorKey \/ MenuKey \/ PaneKey(1) \/ PaneKey(-1)
    \/ BackToForm \/ BackToPartner \/ LeaveMenu \/ LeaveSub \/ OpenSpot \/ CallChanges
    \/ LeaveEditor \/ Draw \/ Abort \/ Bounce \/ Finished
    \/ \E s \in Screens : ScreenKey(s) \/ OpenSub(s)
    \/ \E b \in Books : SwitchLogbook(b)
    \/ \E mode \in {"list", "form", "running"} : EditorActs(mode)
    \/ \E s \in Services : Service(s)

RouteSpec == RouteInit /\ [][RouteNext]_routeVars

-----------------------------------------------------------------------------
\* A running download, import or export is never left behind, "otherwise the Abort
\* button can never be activated from the keyboard", but in an editor left before.
OperationInView == Running /\ ~editor.done => screen = "editor"

\* A screen in view has its model, by whatever way it was reached.
ScreenHasModel == (screen = "editor" => editor.made) /\ (screen = "menu" => menu.made)

\* No overlay opens over another, so that none takes the keys of one that is not seen.
OneOverlay == ~(spot /\ help) /\ ~(spot /\ confirm) /\ ~(help /\ confirm)

\* Tests and comments take the editor for one of the open logbook: not so by the panes.
EditorIsOfBook == screen = "editor" => editor.book = book

==============================================================================
