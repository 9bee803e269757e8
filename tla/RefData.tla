------------------------------- MODULE RefData -------------------------------
(***************************************************************************)
(* The reference database of summits, parks and islands: opened at start,  *)
(* by a background refresh or by the settings, and rebuilt by a worker     *)
(* from downloaded files.  The owner loop owns App.RefDB and the two flags *)
(* of the REF tab; a worker reads App.RefDB itself when it starts to run.  *)
(***************************************************************************)
EXTENDS Integers, FiniteSets

CONSTANTS
    Files,              \* the files a rebuild needs
    Workers,            \* rebuild commands that may be under way at once
    NoDB,
    MaxOpens            \* bound on the database handles opened

VARIABLES
    useRef,             \* General.UseRef
    db,                 \* App.RefDB: a handle, or NoDB
    opened, closed,     \* handles opened so far, and those closed
    building, ready,    \* the flags of the REF tab
    rebuild,            \* each worker's stage and the handle it works on
    refresh,            \* background refresh: stage and the handle it opened
    cached,             \* each downloaded file: "none", "good" or "bad"
    table,              \* the files whose rows are in the database
    modern,             \* the rows have the normalised search column
    panicked,           \* the program died of a nil database
    offline             \* the --offline flag, which stays as it is

refVars == <<useRef, db, opened, closed, building, ready, rebuild, refresh, cached, table, modern, panicked, offline>>
handles == <<opened, closed>>
data == <<cached, table, modern>>

Handles == 1..MaxOpens
Idle == [stage |-> "free", db |-> NoDB]
Stages == {"free", "queued", "fetching", "loading", "done", "failed"}

RefTypeOK ==
    /\ useRef \in BOOLEAN /\ building \in BOOLEAN /\ ready \in BOOLEAN
    /\ modern \in BOOLEAN /\ panicked \in BOOLEAN /\ offline \in BOOLEAN
    /\ db \in Handles \cup {NoDB} /\ opened \in 0..MaxOpens /\ closed \subseteq Handles
    /\ rebuild \in [Workers -> [stage : Stages, db : Handles \cup {NoDB}]]
    /\ refresh \in [stage : {"free", "queued", "done"}, db : Handles \cup {NoDB}]
    /\ cached \in [Files -> {"none", "good", "bad"}] /\ table \subseteq Files

\* The database may be new, filled, or filled by a release without search column.
RefInit ==
    /\ useRef \in BOOLEAN /\ building = FALSE /\ ready = FALSE /\ panicked = FALSE /\ offline \in BOOLEAN
    /\ opened \in IF useRef THEN {0, 1} ELSE {0}
    /\ db = (IF opened = 1 THEN 1 ELSE NoDB) /\ closed = {}
    /\ rebuild = [w \in Workers |-> Idle] /\ refresh = Idle
    /\ \/ table = {} /\ modern = TRUE /\ cached = [f \in Files |-> "none"]
       \/ table = Files /\ modern \in BOOLEAN /\ cached = [f \in Files |-> "good"]

Runs == ~panicked /\ UNCHANGED <<panicked, offline>>

\* ref.Open: a further handle, or an error; CREATE ... IF NOT EXISTS keeps rows.
Open(h) == \/ h = NoDB /\ UNCHANGED opened
           \/ h = opened + 1 /\ h \in Handles /\ opened' = h

-----------------------------------------------------------------------------
(* The owner loop. *)

\* The table is empty, or predates the normalised search.
NeedsRebuild == table = {} \/ ~modern

\* startRefRebuildCmd: one rebuild, unless the flag says that one is running; none
\* offline, as the files have to be downloaded.
startRefRebuildCmd(h, isReady) ==
    IF offline \/ building \/ h = NoDB
    THEN ready' = isReady /\ UNCHANGED <<building, rebuild>>
    ELSE IF NeedsRebuild
    THEN /\ building' = TRUE /\ ready' = isReady
         /\ \E w \in Workers : /\ rebuild[w] = Idle
                               /\ rebuild' = [rebuild EXCEPT ![w].stage = "queued"]
    ELSE ready' = TRUE /\ UNCHANGED <<building, rebuild>>

\* The settings are saved with the database enabled: reloadDataFiles opens it, or
\* asks the background refresh to; the menu's handler tries once more.
EnableRef ==
    /\ Runs /\ useRef' = TRUE
    /\ IF db # NoDB
       THEN /\ startRefRebuildCmd(db, ready) /\ UNCHANGED <<db, opened, refresh>>
       ELSE \E h \in Handles \cup {NoDB}, first \in BOOLEAN :
                /\ Open(h) /\ db' = h
                /\ first => h # NoDB /\ UNCHANGED refresh
                /\ ~first => /\ refresh.stage = "free"
                             /\ refresh' = [refresh EXCEPT !.stage = "queued"]
                /\ startRefRebuildCmd(h, ready \/ (first /\ table # {}))
    /\ UNCHANGED <<closed, data>>

\* Saved with the database disabled.
DisableRef ==
    /\ Runs /\ useRef' = FALSE /\ db' = NoDB
    /\ closed' = closed \cup ({db} \ {NoDB})
    /\ ready' = FALSE /\ building' = FALSE
    /\ UNCHANGED <<opened, rebuild, refresh, data>>

\* The tick; what needs no rebuild is offered at once, offline too.
Tick ==
    /\ Runs /\ useRef /\ db # NoDB /\ ~building /\ ~ready
    /\ IF NeedsRebuild THEN startRefRebuildCmd(db, ready)
       ELSE ready' = TRUE /\ UNCHANGED <<building, rebuild>>
    /\ UNCHANGED <<useRef, db, handles, refresh, data>>

\* maybeRefreshDataFiles, once a day; the daily check is not timed here.
MaybeRefresh ==
    /\ Runs /\ useRef /\ db = NoDB /\ refresh.stage = "free" /\ ~offline
    /\ refresh' = [refresh EXCEPT !.stage = "queued"]
    /\ UNCHANGED <<useRef, db, handles, building, ready, rebuild, data>>

\* Another path opened the database already, or it was disabled meanwhile.
LosesRace(h) == closed' = closed \cup {h}

\* refDataMsg.
RefData ==
    /\ Runs /\ refresh.stage = "done" /\ refresh' = Idle
    /\ LET h == refresh.db IN
       \/ h = NoDB /\ UNCHANGED <<db, closed, ready>>
       \/ /\ h # NoDB /\ useRef /\ db = NoDB
          /\ db' = h /\ ready' = (ready \/ table # {}) /\ UNCHANGED closed
       \/ /\ h # NoDB /\ ~(useRef /\ db = NoDB)
          /\ LosesRace(h) /\ UNCHANGED <<db, ready>>
    /\ UNCHANGED <<useRef, opened, building, rebuild, data>>

\* The flag that keeps a second rebuild out.
EndsBuilding(stage) == FALSE

\* refRebuildMsg, whatever became of the database and the flag since.
Rebuilt(w) ==
    /\ Runs /\ rebuild[w].stage \in {"done", "failed"}
    /\ building' = EndsBuilding(rebuild[w].stage)
    /\ ready' = (ready \/ rebuild[w].stage = "done")
    /\ rebuild' = [rebuild EXCEPT ![w] = Idle]
    /\ UNCHANGED <<useRef, db, handles, refresh, data>>

-----------------------------------------------------------------------------
(* The workers. *)

To(w, stage) == rebuild' = [rebuild EXCEPT ![w].stage = stage]
Works == Runs /\ UNCHANGED <<useRef, db, building, ready, refresh, handles>>

\* The closure reads App.RefDB now: it may be gone, or another one.
RebuildStarts(w) ==
    /\ Works /\ rebuild[w].stage = "queued"
    /\ rebuild' = [rebuild EXCEPT ![w] = [stage |-> "fetching", db |-> db]]
    /\ UNCHANGED data

\* downloadFile and fetchToFile: a cached file is taken as it is.  A complete
\* answer with status 200 is stored, whatever it holds; three failures give up.
DownloadFile(w) ==
    /\ Works /\ rebuild[w].stage = "fetching"
    /\ \E f \in Files :
          /\ cached[f] = "none"
          /\ \/ /\ \E got \in {"good", "bad"} : cached' = [cached EXCEPT ![f] = got]
                /\ UNCHANGED rebuild
             \/ To(w, "failed") /\ UNCHANGED cached
    /\ UNCHANGED <<table, modern>>

Loading == {w \in Workers : rebuild[w].stage = "loading"}

\* The transaction begins: not on a closed handle, nor past another writer that
\* keeps the database longer than the busy timeout.
BeginLoad(w) ==
    /\ Works /\ rebuild[w].stage = "fetching" /\ rebuild[w].db # NoDB
    /\ \A f \in Files : cached[f] # "none"
    /\ \/ rebuild[w].db \notin closed /\ Loading = {} /\ To(w, "loading")
       \/ (rebuild[w].db \in closed \/ Loading # {}) /\ To(w, "failed")
    /\ UNCHANGED data

\* The database was closed and forgotten before the command ran: the method is
\* called on nil, and the panic ends the program.
BeginNowhere(w) ==
    /\ ~panicked /\ rebuild[w].stage = "fetching" /\ rebuild[w].db = NoDB
    /\ \A f \in Files : cached[f] # "none"
    /\ panicked' = TRUE
    /\ UNCHANGED <<useRef, db, handles, building, ready, rebuild, refresh, data, offline>>

Usable == {f \in Files : cached[f] = "good"}

\* The imports and the commit.  A file that is not what it should be stops the
\* import of a JSON list; the rows of a table are skipped one by one.
Load(w) ==
    /\ Works /\ rebuild[w].stage = "loading"
    /\ \/ table' = Usable /\ modern' = TRUE /\ To(w, "done")
       \/ Usable # Files /\ To(w, "failed") /\ UNCHANGED <<table, modern>>
    /\ UNCHANGED cached

\* runRefDataRefresh opens the database for the message.
RefreshOpens ==
    /\ Runs /\ refresh.stage = "queued"
    /\ \E h \in Handles \cup {NoDB} : Open(h) /\ refresh' = [stage |-> "done", db |-> h]
    /\ UNCHANGED <<useRef, db, closed, building, ready, rebuild, data>>

Work(w) == RebuildStarts(w) \/ DownloadFile(w) \/ BeginLoad(w) \/ BeginNowhere(w) \/ Load(w)

RefNext ==
    \/ EnableRef \/ DisableRef \/ Tick \/ MaybeRefresh \/ RefData \/ RefreshOpens
    \/ \E w \in Workers : Rebuilt(w) \/ Work(w)

\* Commands run, and their messages and the ticks are processed.
RefFairness ==
    /\ WF_refVars(Tick)
    /\ \A w \in Workers : WF_refVars(Rebuilt(w)) /\ WF_refVars(Work(w))

RefSpec == RefInit /\ [][RefNext]_refVars /\ RefFairness

-----------------------------------------------------------------------------
\* Every handle that was opened is App.RefDB, on its way to the owner loop, or
\* closed: the settings, the refresh and the race between them leak none.
NoHandleLeak ==
    \A h \in 1..opened : h \in closed \cup {db, refresh.db}

\* The tab is blocked by "building" only while a rebuild is under way, so that it
\* is unblocked when that one ends, however often the settings were changed.
BlockedIsBuilding == building => \E w \in Workers : rebuild[w] # Idle

\* A database that stays enabled and open is offered for searching in the end,
\* unless a download never succeeds or a downloaded file is not what it should be,
\* or a program that was started offline would have to download them.
EnabledIsReady ==
    (useRef /\ db # NoDB) ~>
        \/ ready \/ ~useRef \/ panicked \/ (offline /\ NeedsRebuild)
        \/ \E f \in Files : cached[f] # "good"

\* A rebuild may assume the database it was started for.
NeverPanics == ~panicked

\* ref.go: the table is only written "during the controlled rebuild phase (single
\* writer)".
SingleWriter == Cardinality({w \in Workers : rebuild[w] # Idle}) <= 1

\* Searching is offered once all of the references are there.
ReadyIsComplete == ready /\ db # NoDB => table = Files /\ modern
==============================================================================
