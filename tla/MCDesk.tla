------------------------------- MODULE MCDesk -------------------------------
(***************************************************************************)
(* Instances of what the operator works with, for TLC: the editor of the    *)
(* logbook, the form with its lookups, the dashboard, the panels and the    *)
(* menus.  They share no state here: a behaviour is one of a single         *)
(* component, which "part" names, and whose variables are those of v1 to    *)
(* v19 that its INSTANCE gives them; the others are 0.                      *)
(***************************************************************************)
EXTENDS Integers, Sequences, FiniteSets, TLC

CONSTANTS
    None, Typed, Books, Calls,
    MaxId, Hits, Sizes, MaxVisits, MaxSearches, MaxLoads,              \* EditorList
    Contacts, Linked, MaxGens, MaxSessions, MaxRevs, MaxWrites,        \* EditorForm
    FewCalls, MaxVersions, MaxConns,                                   \* DashboardFeed
    Clients, MaxValue, MaxSubscribers, Buffer, MaxServers, MaxSettings,\* DashboardServer
    Conns, Slots,                                                      \* HybridListener
    MaxDownloads, Capacity, MaxProgress,                               \* DownloadPump
    MaxClears, MaxAsked,                                               \* FormLookup
    Sources, Prefix, Local, Lookups, MaxKeys, Gap,                     \* Callbook
    Spots, MaxBatches,                                                 \* SpotTable
    MaxChanges, FewBooks, Servers, StationIds, MaxForms,               \* SettingsForms
    MaxSwitches, MaxToggles, MaxPeriods,                               \* PSKReporter
    Probes, Checks, MaxOutages,                                        \* Connectivity
    Attempts, MaxTimes,                                                \* SolarPanel
    Moments, Refs, MaxWorks,                                           \* DupeCheck
    MaxReloads,                                                        \* RecentTable
    Contests, NoContest, Order, Prefilled, NoText,                     \* ContestEntry
    MaxCopies                                                          \* ContactDelete

\* No logbook has the name of the empty panel's.
ASSUME BooksAssumption == "unset" \notin Books

\* The bounds are numbers, and a page of the list holds something.
ASSUME ListAssumption == MaxId \in Nat \ {0} /\ MaxSearches \in Nat /\ Sizes \subseteq Nat \ {0}
ASSUME PumpAssumption == MaxDownloads \in Nat

\* There are finitely many browsers and connections, and no connection is a message of the listener's.
ASSUME WebAssumption == IsFiniteSet(Clients) /\ MaxSubscribers \in Nat /\ MaxServers \in Nat
ASSUME TlsAssumption == IsFiniteSet(Conns) /\ Conns \cap {"slot", "accept", "ended", "failed"} = {}

\* None, and what the operator types, is no callsign, server or contest.
ASSUME LookupAssumption == None \notin Calls \cup {Typed} /\ Typed \notin Calls
ASSUME DupeAssumption == None \notin FewCalls
ASSUME PickerAssumption == None \notin Servers

\* A logbook lists its contests once each.
ASSUME EntryAssumption ==
    /\ Contests \cap {NoContest, NoText, Typed} = {} /\ Typed \notin {NoContest, NoText}
    /\ Prefilled \subseteq Contests
    /\ \A b \in DOMAIN Order :
          /\ Order[b] \in Seq(Contests)
          /\ \A i, j \in DOMAIN Order[b] : i # j => Order[b][i] # Order[b][j]

VARIABLES part, v1, v2, v3, v4, v5, v6, v7, v8, v9, v10, v11, v12, v13, v14, v15, v16, v17, v18, v19

\* Nothing distinguishes two logbooks, or two callsigns typed.
Symmetry == {p @@ q : p \in Permutations(Books), q \in Permutations(Calls)}

\* Two spots on one band.
MCSpots == {[call |-> "x", band |-> "20m", freq |-> 1, mode |-> "CW"],
            [call |-> "y", band |-> "20m", freq |-> 2, mode |-> "CW"]}

\* A logbook with two contests, one without.
MCOrder == [a |-> <<"c", "d">>, b |-> <<>>]

List == INSTANCE EditorList WITH
    logged <- v1, newest <- v2, mode <- v3, session <- v4, list <- v5, total <- v6, page <- v7, size <- v8,
    cursor <- v9, asked <- v10, search <- v11, ops <- v12, gone <- v13,
    MaxSessions <- MaxVisits, MaxOps <- MaxLoads, Found <- Hits

Form == INSTANCE EditorForm WITH
    stored <- v1, listed <- v2, pending <- v3, gen <- v4, mode <- v5, form <- v6, ops <- v7,
    NoContact <- None, MaxOps <- MaxWrites, MaxGen <- MaxGens

Feed == INSTANCE DashboardFeed WITH
    rows <- v1, conn <- v2, book <- v3, owed <- v4, rev <- v5, dirty <- v6, pushed <- v7, stats <- v8,
    online <- v9, board <- v10, form <- v11, found <- v12, sentPartner <- v13, failed <- v14,
    Calls <- FewCalls, NoCall <- None, MaxRows <- MaxVersions

Web == INSTANCE DashboardServer WITH
    value <- v1, publishing <- v2, subscribers <- v3, buffer <- v4, stage <- v5, shown <- v6, missed <- v7,
    running <- v8,
    enabled <- v9, restart <- v10, settings <- v11, client <- v12, online <- v13, waits <- v14, server <- v15,
    ended <- v16, starts <- v17

Tls == INSTANCE HybridListener WITH
    conn <- v1, loop <- v2, results <- v3, slots <- v4, raw <- v5, closing <- v6

Pump == INSTANCE DownloadPump WITH
    op <- v1, active <- v2, mode <- v3, captured <- v4, result <- v5, channel <- v6, closed <- v7,
    worker <- v8, sent <- v9, outcome <- v10, pending <- v11, drained <- v12, arriving <- v13, cancelled <- v14,
    MaxOps <- MaxDownloads

Lookup == INSTANCE FormLookup WITH
    form <- v1, partner <- v2, done <- v3, recent <- v4, book <- v5, rows <- v6, saved <- v7, asked <- v8,
    NoCall <- None, MaxRows <- MaxVersions

Cascade == INSTANCE Callbook WITH
    priority <- v1, order <- v2, shape <- v3, fallback <- v4, run <- v5, asking <- v6, pos <- v7, merged <- v8,
    failed <- v9, first <- v10, last <- v11, outcome <- v12,
    client <- v13, key <- v14, old <- v15, alive <- v16, issued <- v17, lookup <- v18, since <- v19, refused <- v19

Sessions == INSTANCE Callbook WITH
    client <- v1, key <- v2, old <- v3, alive <- v4, issued <- v5, lookup <- v6, since <- v7, refused <- v8,
    priority <- v9, order <- v10, shape <- v11, fallback <- v12, run <- v13, asking <- v14, pos <- v15,
    merged <- v16, failed <- v17, first <- v18, last <- v19, outcome <- v19

Table == INSTANCE SpotTable WITH
    stored <- v1, book <- v2, flying <- v3, batches <- v4, filter <- v5, settling <- v6, cached <- v7,
    sortedBand <- v8, ready <- v9, shown <- v10, cursor <- v11, selected <- v12,
    NoSpot <- None

Focus == INSTANCE SettingsForms WITH
    menu <- v1, opts <- v2, row <- v3, marker <- v4, rev <- v5, testing <- v6, verdict <- v7,
    config <- v8, editing <- v9, form <- v10, list <- v11, chosen <- v12, wanted <- v13, fetches <- v14,
    profiles <- v15, failed <- v16, forms <- v17, Books <- FewBooks, Ids <- StationIds

Picker == INSTANCE SettingsForms WITH
    config <- v1, editing <- v2, form <- v3, list <- v4, chosen <- v5, wanted <- v6, fetches <- v7,
    profiles <- v8, failed <- v9, forms <- v10,
    menu <- v11, opts <- v12, row <- v13, marker <- v14, rev <- v15, testing <- v16, verdict <- v17,
    Books <- FewBooks, Ids <- StationIds

PSK == INSTANCE PSKReporter WITH
    book <- v1, station <- v2, onScreen <- v3, enabled <- v4, fetching <- v5, flight <- v6, fetched <- v7,
    lastCall <- v8, stamps <- v9, cache <- v10, asked <- v11, again <- v12, table <- v13, spots <- v14,
    key <- v15, need <- v16, load <- v17, crashed <- v18, left <- v19

Net == INSTANCE Connectivity WITH
    net <- v1, servers <- v2, linked <- v3, book <- v4, inet <- v5, rapid <- v6, ticked <- v7, wl <- v8,
    station <- v9, radio <- v10, probes <- v11, checks <- v12, posts <- v13, version <- v14, learnt <- v15,
    changes <- v16, edited <- v17,
    MaxChanges <- MaxOutages

Solar == INSTANCE SolarPanel WITH
    wanted <- v1, net <- v2, shown <- v3, failed <- v4, fetching <- v5, tried <- v6, reply <- v7, recent <- v8,
    file <- v9, young <- v10, answered <- v11, again <- v12, times <- v13

Dupe == INSTANCE DupeCheck WITH
    rows <- v1, book <- v2, form <- v3, cache <- v4, confirmed <- v5, retain <- v6, ops <- v7, lost <- v8,
    warned <- v9,
    Calls <- FewCalls, NoCall <- None, Slots <- Moments, MaxOps <- MaxWorks

Recent == INSTANCE RecentTable WITH
    book <- v1, owed <- v2, contest <- v3, list <- v4, failed <- v5, asked <- v6, late <- v7, need <- v8,
    quiet <- v9, MaxAsked <- MaxReloads

Entry == INSTANCE ContestEntry WITH
    book <- v1, active <- v2, comment <- v3, tag <- v4, tagFor <- v5, sent <- v6, keep <- v7, retain <- v8,
    state <- v9, disk <- v10, logged <- v11,
    Own <- Typed, Blank <- NoText

Route == INSTANCE ScreenRouting WITH
    screen <- v1, spot <- v2, help <- v3, confirm <- v4, editor <- v5, menu <- v6, book <- v7, call <- v8,
    up <- v9, over <- v10

Deletion == INSTANCE ContactDelete WITH
    row <- v1, listed <- v2, server <- v3, made <- v4, upload <- v5, deletion <- v6, toast <- v7, shared <- v8,
    offline <- v9

-----------------------------------------------------------------------------
\* The variables from the n-th on, or up to the eighth, and that they rest.

r17 == <<v17, v18, v19>>
Zero17 == v17 = 0 /\ v18 = 0 /\ v19 = 0
r15 == <<v15, v16, r17>>
Zero15 == v15 = 0 /\ v16 = 0 /\ Zero17
r14 == <<v14, r15>>
Zero14 == v14 = 0 /\ Zero15
r13 == <<v13, r14>>
Zero13 == v13 = 0 /\ Zero14
r12 == <<v12, r13>>
Zero12 == v12 = 0 /\ Zero13
r11 == <<v11, r12>>
Zero11 == v11 = 0 /\ Zero12
r10 == <<v10, r11>>
Zero10 == v10 = 0 /\ Zero11
r9 == <<v9, r10>>
Zero9 == v9 = 0 /\ Zero10
r8 == <<v8, r9>>
Zero8 == v8 = 0 /\ Zero9
r7 == <<v7, r8>>
Zero7 == v7 = 0 /\ Zero8
to8 == <<v1, v2, v3, v4, v5, v6, v7, v8>>
ZeroTo8 == v1 = 0 /\ v2 = 0 /\ v3 = 0 /\ v4 = 0 /\ v5 = 0 /\ v6 = 0 /\ v7 = 0 /\ v8 = 0
allVars == <<part, v1, v2, v3, v4, v5, v6, r7>>

DeskInit ==
    \/ part = "list" /\ List!EditorListInit /\ Zero14
    \/ part = "form" /\ Form!EditorFormInit /\ Zero8
    \/ part = "feed" /\ Feed!DashboardFeedInit /\ Zero15
    \/ part = "stream" /\ Web!DashboardStreamInit /\ Zero9
    \/ part = "server" /\ Web!DashboardServerInit /\ ZeroTo8 /\ v18 = 0 /\ v19 = 0
    \/ part = "tls" /\ Tls!HybridListenerInit /\ Zero7
    \/ part = "pump" /\ Pump!DownloadPumpInit /\ Zero15
    \/ part = "lookup" /\ Lookup!FormLookupInit /\ Zero9
    \/ part = "cascade" /\ Cascade!CascadeInit /\ Zero13
    \/ part = "sessions" /\ Sessions!SessionsInit /\ Zero9
    \/ part = "spots" /\ Table!SpotInit /\ Zero13
    \/ part = "focus" /\ Focus!FocusInit /\ Zero8
    \/ part = "picker" /\ Picker!PickerInit /\ Zero11
    \/ part = "psk" /\ PSK!PSKInit
    \/ part = "net" /\ Net!ConnInit /\ v18 = 0 /\ v19 = 0
    \/ part = "solar" /\ Solar!SolarInit /\ Zero14
    \/ part = "dupe" /\ Dupe!DupeInit /\ Zero10
    \/ part = "recent" /\ Recent!TableInit /\ Zero10
    \/ part = "entry" /\ Entry!EntryInit /\ Zero12
    \/ part = "route" /\ Route!RouteInit /\ Zero11
    \/ part = "delete" /\ Deletion!DeleteInit /\ Zero10

ListRuns == part = "list" /\ List!EditorListNext /\ UNCHANGED <<part, r14>>
FormRuns == part = "form" /\ Form!EditorFormNext /\ UNCHANGED <<part, r8>>
FeedRuns == part = "feed" /\ Feed!DashboardFeedNext /\ UNCHANGED <<part, r15>>
StreamRuns == part = "stream" /\ Web!DashboardStreamNext /\ UNCHANGED <<part, r9>>
ServerRuns == part = "server" /\ Web!DashboardServerNext /\ UNCHANGED <<part, to8, v18, v19>>
TlsRuns == part = "tls" /\ Tls!HybridListenerNext /\ UNCHANGED <<part, r7>>
PumpRuns == part = "pump" /\ Pump!DownloadPumpNext /\ UNCHANGED <<part, r15>>
LookupRuns == part = "lookup" /\ Lookup!FormLookupNext /\ UNCHANGED <<part, r9>>
CascadeRuns == part = "cascade" /\ Cascade!CascadeNext /\ UNCHANGED <<part, r13>>
SessionsRuns == part = "sessions" /\ Sessions!SessionsNext /\ UNCHANGED <<part, r9>>
TableRuns == part = "spots" /\ Table!SpotNext /\ UNCHANGED <<part, r13>>
FocusRuns == part = "focus" /\ Focus!FocusNext /\ UNCHANGED <<part, r8>>
PickerRuns == part = "picker" /\ Picker!PickerNext /\ UNCHANGED <<part, r11>>
PSKRuns == part = "psk" /\ PSK!PSKNext /\ UNCHANGED part
NetRuns == part = "net" /\ Net!ConnNext /\ UNCHANGED <<part, v18, v19>>
SolarRuns == part = "solar" /\ Solar!SolarNext /\ UNCHANGED <<part, r14>>
DupeRuns == part = "dupe" /\ Dupe!DupeNext /\ UNCHANGED <<part, r10>>
RecentRuns == part = "recent" /\ Recent!TableNext /\ UNCHANGED <<part, r10>>
EntryRuns == part = "entry" /\ Entry!EntryNext /\ UNCHANGED <<part, r12>>
RouteRuns == part = "route" /\ Route!RouteNext /\ UNCHANGED <<part, r11>>
DeletionRuns == part = "delete" /\ Deletion!DeleteNext /\ UNCHANGED <<part, r10>>

DeskNext ==
    \/ ListRuns \/ FormRuns \/ FeedRuns \/ StreamRuns \/ ServerRuns \/ TlsRuns
    \/ PumpRuns \/ LookupRuns \/ CascadeRuns \/ SessionsRuns \/ TableRuns \/ FocusRuns
    \/ PickerRuns \/ PSKRuns \/ NetRuns \/ SolarRuns
    \/ DupeRuns \/ RecentRuns \/ EntryRuns \/ RouteRuns \/ DeletionRuns

DeskSpec == DeskInit /\ [][DeskNext]_allVars

-----------------------------------------------------------------------------
\* The components' properties, under their names.

\* The values of the running component's variables.
DeskTypeOK ==
    /\ part = "list" => List!EditorListTypeOK
    /\ part = "form" => Form!EditorFormTypeOK
    /\ part = "feed" => Feed!DashboardFeedTypeOK
    /\ part = "stream" => Web!DashboardStreamTypeOK
    /\ part = "server" => Web!DashboardServerTypeOK
    /\ part = "tls" => Tls!HybridListenerTypeOK
    /\ part = "pump" => Pump!DownloadPumpTypeOK
    /\ part = "lookup" => Lookup!FormLookupTypeOK
    /\ part = "cascade" => Cascade!CascadeTypeOK
    /\ part = "sessions" => Sessions!SessionsTypeOK
    /\ part = "spots" => Table!SpotTypeOK
    /\ part = "focus" => Focus!FocusTypeOK
    /\ part = "picker" => Picker!PickerTypeOK
    /\ part = "psk" => PSK!PSKTypeOK
    /\ part = "net" => Net!ConnTypeOK
    /\ part = "solar" => Solar!SolarTypeOK
    /\ part = "dupe" => Dupe!DupeTypeOK
    /\ part = "recent" => Recent!TableTypeOK
    /\ part = "entry" => Entry!EntryTypeOK
    /\ part = "route" => Route!RouteTypeOK
    /\ part = "delete" => Deletion!DeleteTypeOK

\* EditorList, EditorForm, FormLookup, Callbook, DupeCheck, ContestEntry and
\* ContactDelete: the list shows a page that exists and no deleted contact, typed input
\* survives every completion, an answer about one station is not written into the contact
\* with another (but for a grid of WSJT-X, which an Enter in the DX table keeps), and what
\* is warned of, sent and reported is true of this contact.
ContactSafe ==
    /\ [](/\ part = "list" => List!PageExists
          /\ part = "lookup" => Lookup!OwnData
          /\ part = "cascade" => Cascade!OperatingEntityWins /\ Cascade!FoundIsReturned
          /\ part = "sessions" => Sessions!DeadKeyIsGone /\ Sessions!OutageKeepsSession
          /\ part = "dupe" => Dupe!VerdictIsCurrent
          /\ part = "entry" => Entry!TagIsOfContest /\ Entry!ExchangeIsOfContest
          /\ part = "delete" => Deletion!RemovedIsGone)
    /\ [][/\ part = "list" => List!NoGhosts /\ List!ResizeKeepsContact
          /\ part = "form" => Form!TypedSurvives
          /\ part = "lookup" => Lookup!TypedGridStays /\ Lookup!AnswerReachesContact /\ Lookup!BlankStaysBlank
          /\ part = "cascade" => Cascade!BaselineStands
          /\ part = "dupe" => Dupe!NoSilentDuplicate
          /\ part = "entry" => Entry!OwnCommentStays]_allVars

\* The dashboard's modules and HybridListener: the board comes to show the open logbook, where
\* its last query did not fail, a browser misses nothing that was buffered for it and never goes back, and servers,
\* slots and connections are given up when they end.
BoardSafe ==
    /\ [](/\ part = "feed" => Feed!BoardShowsLog /\ Feed!CachedTotalsAreTrue
          /\ part = "stream" => Web!StreamIsComplete /\ Web!SlotsAreReturned
          /\ part = "server" => Web!OnlineIsListening
          /\ part = "tls" => Tls!NoneLeftBehind /\ Tls!SlotsAreHeld)
    /\ [][/\ part = "stream" => Web!StreamNeverGoesBack
          /\ part = "server" => Web!RestartFreesThePort]_allVars

\* DownloadPump, SpotTable, SettingsForms, PSKReporter, Connectivity, SolarPanel,
\* RecentTable and ScreenRouting: a result, verdict, list or table on the screen is that of
\* what it stands beside, no server is forgotten and no callsign asked for twice (Connectivity
\* and PSKReporter name the exceptions), and the keys reach the screen that is drawn.
PanelsSafe ==
    /\ [](/\ part = "pump" => Pump!AlwaysBeingRead /\ Pump!ResultIsHonest
          /\ part = "spots" => Table!SelectedIsHighlighted /\ Table!NoSpotIsMissed
          /\ part = "focus" => Focus!OneMarker /\ Focus!HiddenNeverFocused /\ Focus!AllReachable
          /\ part = "picker" => Picker!ListIsOfForm /\ Picker!ProfileIsOfChosen
          /\ part = "psk" => PSK!SpotsMatchKey /\ PSK!AskedOnce
          /\ part = "net" => Net!NeverForgotten
          /\ part = "solar" => Solar!ServerIsSpared
          /\ part = "recent" => Recent!TableIsOfBook /\ Recent!TableIsLog
          /\ part = "route" => Route!OperationInView /\ Route!ScreenHasModel /\ Route!OneOverlay)
    /\ [][/\ part = "spots" => Table!SelectionFollowsCall
          /\ part = "focus" => Focus!VerdictIsForForm]_allVars

\* EditorList, a comment of the list's resize: "the position alone would select its
\* neighbour and the next edit would hit the wrong contact".
DeletesWhatWasAsked == [][part = "list" => List!DeletesWhatWasAsked]_allVars

\* PSKReporter: an answer under way when the panel is turned off is recorded or dropped.
AnswerIsKept == part = "psk" => PSK!AnswerIsKept

==============================================================================
