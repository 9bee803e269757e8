---------------------------- MODULE Connectivity ----------------------------
(***************************************************************************)
(* What CQOps believes of the network: the periodic check of the Internet, *)
(* the check of the logbook's Wavelog server with its retries, and the     *)
(* CQOps radio it keeps there.  All requests run in workers, several at a  *)
(* time, and answer in any order.  Meanwhile the network, the servers and  *)
(* the open logbook change.                                                *)
(***************************************************************************)
EXTENDS Naturals, FiniteSets

CONSTANTS
    Books, None,
    Probes, Checks,         \* workers: checks of the Internet, checks of Wavelog
    MaxChanges              \* bound on outages, logbook switches and network errors

VARIABLES
    net,            \* whether the Internet is reachable
    servers,        \* the logbooks whose Wavelog server answers and knows the token
    linked,         \* the logbooks with Wavelog enabled and a station chosen
    book,           \* the open logbook
    inet,           \* inetOnline, inetConfirmed, inetFailStreak (2 stands for more)
    rapid,          \* triggerRapidCheck
    ticked,         \* the first tick has passed
    wl,             \* wlOnline, wlFailCount > 0, wlForceCheck
    station,        \* the logbook whose station is shown
    radio,          \* the logbook whose server gave wlRadioID, or None
    probes, checks, \* the workers
    posts,          \* the requests about the radio: to ensure it, to push its state
    version,        \* versionChecked
    learnt,         \* the logbook wlOnline was learnt of
    edited,         \* history: the link of the open logbook was edited since a check was last forced
    changes

connVars == <<net, servers, linked, book, inet, rapid, ticked, wl, station, radio, probes, checks, posts,
              version, learnt, edited, changes>>

Idle == [of |-> None, at |-> "idle"]
Request == {Idle} \cup [of : Books, at : {"asked", "up", "down"}]

ConnTypeOK ==
    /\ net \in BOOLEAN /\ servers \subseteq Books /\ linked \subseteq Books /\ book \in Books
    /\ inet \in [online : BOOLEAN, confirmed : BOOLEAN, streak : 0..2]
    /\ rapid \in BOOLEAN /\ ticked \in BOOLEAN /\ version \in BOOLEAN
    /\ wl \in [online : BOOLEAN, failed : BOOLEAN, force : BOOLEAN]
    /\ station \in Books \cup {None} /\ radio \in Books \cup {None} /\ learnt \in Books \cup {None}
    /\ probes \in [Probes -> {"idle", "asked", "yes", "no"}] /\ checks \in [Checks -> Request]
    /\ posts \in [{"ensure", "push"} -> Request] /\ edited \in BOOLEAN /\ changes \in 0..MaxChanges

\* NewModel: online until the first check says otherwise.
ConnInit ==
    /\ net \in BOOLEAN /\ servers \in SUBSET Books /\ linked \in SUBSET Books /\ book \in Books
    /\ inet = [online |-> TRUE, confirmed |-> FALSE, streak |-> 0]
    /\ rapid = FALSE /\ ticked = FALSE /\ version = FALSE
    /\ wl = [online |-> FALSE, failed |-> FALSE, force |-> FALSE]
    /\ station = None /\ radio = None /\ learnt = None
    /\ probes = [p \in Probes |-> "idle"] /\ checks = [c \in Checks |-> Idle]
    /\ posts = [k \in {"ensure", "push"} |-> Idle] /\ edited = FALSE /\ changes = 0

outside == <<net, servers, linked, book, edited, changes>>
wavelog == <<wl, station, radio, learnt, checks, posts>>

-----------------------------------------------------------------------------
\* The checks that a step of the owner loop starts.

Ask(n) == \E P \in SUBSET {p \in Probes : probes[p] = "idle"} :
             Cardinality(P) = n /\ probes' = [p \in Probes |-> IF p \in P THEN "asked" ELSE probes[p]]

\* maybeCheckWavelog: forced, on the first tick, or again after a failure.
Unchecked(on) == ~on \/ book \notin linked
Forced(first, w) == first \/ w.force
CheckWavelog(on, first, w, due) ==
    IF Unchecked(on)
    THEN wl' = [w EXCEPT !.online = FALSE, !.failed = FALSE] /\ UNCHANGED checks
    ELSE IF Forced(first, w) \/ (~w.online /\ w.failed /\ due)
    THEN /\ wl' = IF Forced(first, w) THEN [w EXCEPT !.force = FALSE] ELSE w
         /\ \E c \in Checks : checks[c] = Idle /\ checks' = [checks EXCEPT ![c] = [of |-> book, at |-> "asked"]]
    ELSE wl' = w /\ UNCHANGED checks

\* The state of the rig is pushed to the radio every 15 seconds.
Push(due) ==
    IF due /\ book \in linked /\ wl.online /\ radio # None /\ posts["push"] = Idle
    THEN posts' = [posts EXCEPT !["push"] = [of |-> book, at |-> "asked"]]
    ELSE UNCHANGED posts

\* handleTick.  Which periods have passed is left open.
Tick ==
    \E inetDue, retryDue, pushDue \in BOOLEAN :
       /\ Push(pushDue)
       /\ Ask((IF rapid /\ inet.online THEN 1 ELSE 0) + (IF inetDue THEN 1 ELSE 0))
       /\ rapid' = FALSE /\ ticked' = TRUE
       /\ CheckWavelog(inet.online, ~ticked, wl, retryDue)
       /\ UNCHANGED <<outside, inet, station, radio, learnt, version>>

-----------------------------------------------------------------------------
\* The workers.

ProbeAnswers(p) ==
    /\ probes[p] = "asked" /\ probes' = [probes EXCEPT ![p] = IF net THEN "yes" ELSE "no"]
    /\ UNCHANGED <<outside, inet, rapid, ticked, wavelog, version>>

Reached(of) == IF net /\ of \in servers THEN "up" ELSE "down"
Works(r) == [r EXCEPT !.at = Reached(r.of)]
CheckAnswers(c) ==
    /\ checks[c].at = "asked" /\ checks' = [checks EXCEPT ![c] = Works(@)]
    /\ UNCHANGED <<outside, inet, rapid, ticked, wl, station, radio, learnt, probes, posts, version>>
\* EnsureRadio and PushRadio: the server makes the radio of that name if there is none.
PostAnswers(k) ==
    /\ posts[k].at = "asked" /\ posts' = [posts EXCEPT ![k] = Works(@)]
    /\ UNCHANGED <<outside, inet, rapid, ticked, wl, station, radio, learnt, probes, checks, version>>

-----------------------------------------------------------------------------
\* The results, on the owner loop.

\* inetResultMsg: one success is enough, and starts the services again.
Online(p) ==
    /\ probes[p] = "yes" /\ probes' = [probes EXCEPT ![p] = "idle"]
    /\ inet' = [online |-> TRUE, confirmed |-> TRUE, streak |-> 0]
    /\ IF inet.online THEN UNCHANGED <<wl, checks, edited>>
       ELSE CheckWavelog(TRUE, FALSE, [wl EXCEPT !.force = TRUE], FALSE) /\ edited' = FALSE
    /\ version' = TRUE
    /\ UNCHANGED <<net, servers, linked, book, changes, rapid, ticked, station, radio, learnt, posts>>

\* The second failure in a row tells that the Internet is gone.
Offline(p) ==
    /\ probes[p] = "no" /\ probes' = [probes EXCEPT ![p] = "idle"]
    /\ LET streak == IF inet.streak = 2 THEN 2 ELSE inet.streak + 1
       IN inet' = [inet EXCEPT !.streak = streak, !.online = @ /\ streak < 2]
    /\ version' = (version \/ inet'.online)
    /\ UNCHANGED <<outside, rapid, ticked, wavelog>>

\* wlStatusMsg, which does not say of which logbook it is.
Status(c) ==
    LET r == checks[c] IN
    /\ r.at \in {"up", "down"} /\ checks' = [checks EXCEPT ![c] = Idle]
    /\ wl' = [wl EXCEPT !.online = (r.at = "up"), !.failed = (r.at = "down")]
    /\ learnt' = r.of
    /\ station' = IF r.at = "up" THEN r.of ELSE station
    /\ IF r.at = "up" /\ radio = None /\ book \in linked
       THEN /\ posts["ensure"] = Idle
            /\ posts' = [posts EXCEPT !["ensure"] = [of |-> book, at |-> "asked"]]
       ELSE UNCHANGED posts
    /\ UNCHANGED <<outside, inet, rapid, ticked, radio, probes, version>>

\* handleWavelogRadioMsg
RadioResult(k) ==
    /\ posts[k].at \in {"up", "down"} /\ posts' = [posts EXCEPT ![k] = Idle]
    /\ radio' = IF posts[k].at = "up" THEN posts[k].of ELSE IF k = "ensure" THEN None ELSE radio
    /\ UNCHANGED <<outside, inet, rapid, ticked, wl, station, learnt, probes, checks, version>>

-----------------------------------------------------------------------------

Changing == changes < MaxChanges /\ changes' = changes + 1

\* handleLogbookSwitched
SwitchLogbook(b) ==
    /\ Changing /\ b # book /\ book' = b
    /\ wl' = [wl EXCEPT !.force = TRUE] /\ edited' = FALSE
    /\ UNCHANGED <<net, servers, linked, inet, rapid, ticked, station, radio, learnt, probes, checks, posts, version>>

\* The logbook menu: an edit turns Wavelog on or off, and nothing is checked before the
\* operator leaves the menu with Escape; a function key leaves it too, without a check.
EditLink(b) ==
    /\ Changing /\ linked' = IF b \in linked THEN linked \ {b} ELSE linked \cup {b}
    /\ edited' = (edited \/ b = book)
    /\ UNCHANGED <<net, servers, book, inet, rapid, ticked, wavelog, probes, version>>

\* handleChooserUpdate
LeaveMenu ==
    /\ wl' = [wl EXCEPT !.force = TRUE] /\ edited' = FALSE
    /\ UNCHANGED <<net, servers, linked, book, inet, rapid, ticked, station, radio, learnt, probes, checks, posts,
                   version, changes>>

\* The cluster or APRS fails at the network: noteNetworkError.  The cluster asks at once too.
NetworkError(cluster) ==
    /\ Changing /\ ~net
    /\ rapid' = (rapid \/ inet.online)
    /\ IF cluster THEN Ask(1) ELSE UNCHANGED probes
    /\ UNCHANGED <<net, servers, linked, book, edited, inet, ticked, wavelog, version>>

NetChanges == Changing /\ net' = ~net
              /\ UNCHANGED <<servers, linked, book, edited, inet, rapid, ticked, wavelog, probes, version>>
ServerChanges(b) ==
    /\ Changing /\ servers' = IF b \in servers THEN servers \ {b} ELSE servers \cup {b}
    /\ UNCHANGED <<net, linked, book, edited, inet, rapid, ticked, wavelog, probes, version>>

ConnNext ==
    \/ Tick \/ NetChanges \/ LeaveMenu
    \/ \E p \in Probes : ProbeAnswers(p) \/ Online(p) \/ Offline(p)
    \/ \E c \in Checks : CheckAnswers(c) \/ Status(c)
    \/ \E k \in {"ensure", "push"} : PostAnswers(k) \/ RadioResult(k)
    \/ \E b \in Books : SwitchLogbook(b) \/ ServerChanges(b) \/ EditLink(b)
    \/ \E cluster \in BOOLEAN : NetworkError(cluster)

ConnSpec == ConnInit /\ [][ConnNext]_connVars

-----------------------------------------------------------------------------

Quiet == \A c \in Checks : checks[c] = Idle

\* A Wavelog server that is not known to answer is asked again.  Violated: an edit turns
\* Wavelog on, the menu is left with a function key, and nothing is forced or pending.
EveryServerIsTried ==
    inet.online /\ ticked /\ book \in linked /\ ~wl.online /\ Quiet => wl.force \/ wl.failed

\* Whatever the order of outages, late answers, logbook switches and edits of the link, an
\* offline server with no check under way has one forced or a retry pending, once a menu
\* in which its link was edited is left with Escape.
NeverForgotten == ~edited => EveryServerIsTried

\* The status shown is that of the logbook that is open.  Violated: the answer about
\* the logbook that was left comes after the answer about this one, and an answer
\* "online" is never checked again.
StatusIsOfBook == Quiet /\ wl.online /\ ~wl.force => learnt = book

\* "Connection confirmed - make sure the CQOps radio exists so rig-state pushes can
\* start."  Violated: a request for the radio that failed is not made again while
\* the server counts as online.
RadioIsTried == wl.online /\ radio = None /\ book \in linked /\ ~wl.force => posts["ensure"] # Idle \/ ~Quiet

\* "Runs once when internet is first confirmed reachable."  Violated: the first failed
\* check leaves inetOnline as it was assumed, and uses up the only version check.
VersionAskedOnline == version => inet.confirmed
=============================================================================
