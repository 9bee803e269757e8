----------------------------- MODULE PSKReporter ----------------------------
(***************************************************************************)
(* The PSK Reporter panel of CQOps: who heard this station.  A fetch and a *)
(* query of the logbook's spot table run in workers; the screen asks for   *)
(* both while it is shown.  Meanwhile the operator goes to another         *)
(* logbook, leaves the screen, or turns the panel off and on.  A report is *)
(* known by the callsign it is about and the callsign it is stored under.  *)
(***************************************************************************)
EXTENDS Naturals, FiniteSets

CONSTANTS
    Books, Calls, None,
    MaxSwitches, MaxToggles, MaxPeriods     \* bounds

VARIABLES
    book,           \* the open logbook
    station,        \* the station callsign of each logbook
    onScreen, enabled,
    fetching,       \* psk.fetching
    flight,         \* the callsign the running fetch is about, or None
    fetched, lastCall,
    stamps,         \* lastFetchByCall: the callsigns fetched, and which lately
    cache,          \* callsigns with a cache file, and those whose file is under five minutes old
    asked,          \* callsigns PSK Reporter answered in this period of five minutes; those it has
                    \* no file of are dropped with the memory of the fetch
    again,          \* one of them was asked again
    table,          \* the spot table of each logbook
    spots, key,     \* the spots in memory and the query they answer
    need,           \* needDBLoad and the callsign to load, or None
    load,           \* the query under way
    crashed, left

pskVars == <<book, station, onScreen, enabled, fetching, flight, fetched, lastCall, stamps, cache, asked, again,
             table, spots, key, need, load, crashed, left>>

Report == [about : Calls, under : Calls]
NoLoad == [stage |-> "none", call |-> None, of |-> None, rows |-> {}]
NoStamps == [made |-> FALSE, known |-> {}, new |-> {}]
Call == station[book]

PSKTypeOK ==
    /\ book \in Books /\ station \in [Books -> Calls] /\ onScreen \in BOOLEAN /\ enabled \in BOOLEAN
    /\ fetching \in BOOLEAN /\ flight \in Calls \cup {None} /\ fetched \in BOOLEAN /\ lastCall \in Calls \cup {None}
    /\ stamps.known \subseteq Calls /\ stamps.new \subseteq stamps.known
    /\ cache.young \subseteq cache.files /\ cache.files \subseteq Calls /\ asked \subseteq Calls /\ again \in BOOLEAN
    /\ table \in [Books -> SUBSET Report] /\ spots \subseteq Report /\ key \in Calls \cup {None}
    /\ need \in Calls \cup {None} /\ load.stage \in {"none", "query", "rows"} /\ crashed \in BOOLEAN
    /\ left \in [switch : 0..MaxSwitches, toggle : 0..MaxToggles, period : 0..MaxPeriods]

PSKInit ==
    /\ book \in Books /\ station \in [Books -> Calls]
    /\ onScreen = FALSE /\ enabled = TRUE /\ fetching = FALSE /\ flight = None /\ fetched = FALSE /\ lastCall = None
    /\ stamps = [NoStamps EXCEPT !.made = TRUE] /\ asked = {} /\ again = FALSE
    /\ \E old \in SUBSET Calls : cache = [files |-> old, young |-> {}]
    /\ table = [b \in Books |-> {}] /\ spots = {} /\ key = None /\ need = None /\ load = NoLoad
    /\ crashed = FALSE
    /\ left = [switch |-> MaxSwitches, toggle |-> MaxToggles, period |-> MaxPeriods]

desk == <<book, station, onScreen, enabled, left>>
fetch == <<fetching, flight, fetched, lastCall, stamps>>
server == <<cache, asked, again>>
view == <<spots, key, need, load>>

-----------------------------------------------------------------------------

\* handlePSKReporterUpdate, for every message while the screen is shown: another
\* callsign empties the caches; then a fetch starts, at first or after five minutes.
Changed == Call # lastCall
Due == IF Changed \/ ~fetched THEN TRUE ELSE Call \in stamps.known \ stamps.new
OnFile == asked \cap cache.young
Update ==
    /\ ~crashed /\ onScreen
    /\ stamps' = [stamps EXCEPT !.made = TRUE]
    /\ lastCall' = Call
    /\ fetched' = (fetched /\ ~Changed)
    /\ IF Changed THEN spots' = {} /\ key' = None /\ asked' = OnFile ELSE UNCHANGED <<spots, key, asked>>
    /\ \/ Due /\ ~fetching /\ enabled /\ fetching' = TRUE /\ flight' = Call
       \/ UNCHANGED <<fetching, flight>>      \* nothing is due, or the Internet is away
    /\ UNCHANGED <<desk, cache, again, table, need, load, crashed>>

\* FetchReports in the worker: a young cache file answers instead of the server, whose
\* answer replaces the file, if it can be written; if not, only the memory of the fetch
\* keeps this callsign from being asked again.
Without(c) == [cache EXCEPT !.files = @ \ {c}]
Answered ==
    IF flight \in cache.young THEN UNCHANGED server
    ELSE /\ again' = (again \/ flight \in asked)
         /\ \/ cache' = [files |-> cache.files \cup {flight}, young |-> cache.young \cup {flight}]
               /\ asked' = asked \cup {flight}
            \/ cache' \in {cache, Without(flight)}
               /\ asked' = IF flight = Call THEN asked \cup {flight} ELSE asked

\* pskFetchMsg: the reports are stored under the callsign of now, if the database takes them.
Arrives(young) ==
    /\ fetching' = FALSE /\ flight' = None
    /\ table' \in {table, [table EXCEPT ![book] = @ \cup {[about |-> flight, under |-> Call]}]}
    /\ crashed' = ~stamps.made
    /\ stamps' = [stamps EXCEPT !.known = @ \cup {Call}, !.new = IF young THEN @ \cup {Call} ELSE @ \ {Call}]
    /\ lastCall' = Call /\ fetched' = TRUE /\ key' = None /\ spots' = {}
    /\ UNCHANGED <<desk, need, load>>
FetchDone == ~crashed /\ flight # None /\ Answered /\ Arrives(TRUE)

\* Nothing reaches the server: an old cache file answers, with its own time.
FetchFallsBack ==
    /\ ~crashed /\ flight \in cache.files \ cache.young
    /\ Arrives(FALSE) /\ UNCHANGED server

\* No file either, the server refuses, or its answer cannot be read, and then takes the
\* file's place.
FetchFails ==
    /\ ~crashed /\ flight # None /\ flight \notin cache.young
    /\ fetching' = FALSE /\ flight' = None
    /\ cache' \in {cache, Without(flight)}
    /\ UNCHANGED <<desk, asked, again, table, fetched, lastCall, stamps, view, crashed>>

\* viewPSKReporter
View ==
    /\ ~crashed /\ onScreen /\ (key # Call \/ spots = {})
    /\ need' = Call
    /\ UNCHANGED <<desk, fetch, server, table, spots, key, load, crashed>>

\* The tick, and loadPSKSpotsCmd on the database of now.
StartLoad ==
    /\ ~crashed /\ need # None /\ load.stage = "none"
    /\ load' = [stage |-> "query", call |-> need, of |-> book, rows |-> {}] /\ need' = None
    /\ UNCHANGED <<desk, fetch, server, table, spots, key, crashed>>
\* QueryPSKSpots; a database that a switch has closed answers with nothing.
Query ==
    /\ load.stage = "query"
    /\ load' \in {[load EXCEPT !.stage = "rows", !.rows = r] :
                     r \in {{s \in table[load.of] : s.under = load.call}} \cup (IF load.of = book THEN {} ELSE {{}})}
    /\ UNCHANGED <<desk, fetch, server, table, spots, key, need, crashed>>
\* pskSpotsLoadedMsg
Loaded ==
    /\ ~crashed /\ load.stage = "rows"
    /\ spots' = load.rows /\ key' = load.call /\ load' = NoLoad
    /\ UNCHANGED <<desk, fetch, server, table, need, crashed>>

-----------------------------------------------------------------------------

Show(on) ==
    /\ ~crashed /\ onScreen # on /\ (on => enabled) /\ onScreen' = on
    /\ UNCHANGED <<book, station, enabled, left, fetch, server, table, view, crashed>>
Switch(b) ==
    /\ ~crashed /\ b # book /\ left.switch > 0
    /\ book' = b /\ left' = [left EXCEPT !.switch = @ - 1]
    /\ UNCHANGED <<station, onScreen, enabled, fetch, server, table, view, crashed>>

\* handleIntegrations: turning the panel off or on forgets what was fetched.
Toggle ==
    /\ ~crashed /\ ~onScreen /\ left.toggle > 0
    /\ enabled' = ~enabled /\ left' = [left EXCEPT !.toggle = @ - 1]
    /\ fetched' = FALSE /\ stamps' = NoStamps /\ asked' = OnFile
    /\ UNCHANGED <<book, station, onScreen, fetching, flight, lastCall, cache, again, table, view, crashed>>

FiveMinutes ==
    /\ ~crashed /\ left.period > 0 /\ left' = [left EXCEPT !.period = @ - 1]
    /\ stamps' = [stamps EXCEPT !.new = {}]
    /\ cache' = [cache EXCEPT !.young = {}] /\ asked' = {}
    /\ UNCHANGED <<book, station, onScreen, enabled, fetching, flight, fetched, lastCall, again, table, view, crashed>>

PSKNext ==
    \/ \E on \in BOOLEAN : Show(on)
    \/ \E b \in Books : Switch(b)
    \/ Update \/ FetchDone \/ FetchFallsBack \/ FetchFails \/ View \/ StartLoad \/ Query \/ Loaded \/ Toggle \/ FiveMinutes

PSKSpec == PSKInit /\ [][PSKNext]_pskVars

-----------------------------------------------------------------------------

\* The spots in memory are those of the callsign they are kept for, whatever
\* logbook was left and entered while they were loaded.
SpotsMatchKey == key # None => \A s \in spots : s.under = key

\* "Results are cached to cacheDir for 5 minutes": however often the operator
\* switches, leaves and toggles, a callsign that was answered is not asked again; one
\* whose file could not be written, while it stays the station's and the panel on.
AskedOnce == ~again

\* Each answer is recorded.  Violated: a toggle drops the map of the fetch times,
\* and the answer of a fetch under way writes into a nil map, which ends the program.
AnswerIsKept == ~crashed

\* The panel shows who heard this station.  Violated: the answer to a fetch for the
\* logbook that was left is stored under the callsign of the one that is open.
ReportsAreOwn == \A b \in Books : \A s \in table[b] : s.about = s.under

\* With nothing under way the screen shows what is stored.  Violated: a query that
\* read before the reports were stored is installed after them.
NewSpotsAppear ==
    onScreen /\ load = NoLoad /\ need = None /\ key = Call /\ spots # {} => spots = {s \in table[book] : s.under = Call}
=============================================================================
