------------------------------- MODULE GPSLink -------------------------------
(***************************************************************************)
(* The GPS receiver and what is believed about the station's position: the *)
(* reader goroutine decodes sentences into the latest position; once a     *)
(* minute the owner loop reads it, judges its age, tells the application   *)
(* object when the fix or the locator changes, and schedules a reconnect   *)
(* when the reader has died.  The beacon worker sends a cached locator.    *)
(***************************************************************************)
EXTENDS Integers

CONSTANTS Places, NoPlace    \* the locators the station can be at

VARIABLES
    gpsOn,        \* the receiver is enabled in the settings
    gpsLB,        \* the active logbook's locator: "station", "gps" or "fixed" (APRS)
    gpsUp,        \* the port or GPSD can be opened
    gpsClient,    \* "none", "reading" or "dead": m.gps.client and its loop
    gpsAt,        \* where the station is
    gpsPos,       \* Client.latest, with the ages of UpdatedAt and of the position
    gpsUI,        \* m.gps: online, hasFix, lastGrid
    gpsRetry,     \* reconnectUntil: "unset", "armed" or "due"
    gpsApp,       \* App.gpsGrid and App.gpsHasFix
    gpsBeacon     \* App.beaconGrid

gpsVars == <<gpsOn, gpsLB, gpsUp, gpsClient, gpsAt, gpsPos, gpsUI, gpsRetry, gpsApp, gpsBeacon>>

Grids == Places \cup {NoPlace}
NoPosition == [fix |-> FALSE, place |-> NoPlace, fresh |-> TRUE, told |-> FALSE]
Offline == [online |-> FALSE, hasFix |-> FALSE, grid |-> NoPlace]

GPSTypeOK ==
    /\ gpsOn \in BOOLEAN /\ gpsUp \in BOOLEAN /\ gpsLB \in {"station", "gps", "fixed"}
    /\ gpsClient \in {"none", "reading", "dead"} /\ gpsAt \in Places
    /\ gpsPos \in [fix : BOOLEAN, place : Grids, fresh : BOOLEAN, told : BOOLEAN]
    /\ gpsUI \in [online : BOOLEAN, hasFix : BOOLEAN, grid : Grids]
    /\ gpsRetry \in {"unset", "armed", "due"}
    /\ gpsApp \in [grid : Grids, hasFix : BOOLEAN]
    /\ gpsBeacon \in Grids \cup {"station", "fixed"}
    \* A fix is only believed while a reader runs or is about to be missed.
    /\ gpsClient = "none" => ~gpsUI.hasFix /\ ~gpsUI.online

---------------------------------------------------------------------------
\* What the receiver reports.

\* Client.parseGGA with a quality, and what GPSD's reports become.
HearFix ==
    /\ gpsClient = "reading"
    /\ gpsPos' = [fix |-> TRUE, place |-> gpsAt, fresh |-> TRUE, told |-> TRUE]

\* A void GGA or RMC sentence.
HearVoid ==
    /\ gpsClient = "reading"
    /\ gpsPos' = [gpsPos EXCEPT !.fix = FALSE, !.fresh = TRUE]

\* An RMC sentence with status A: it raises the fix, and carries no position.
HearActive ==
    /\ gpsClient = "reading"
    /\ gpsPos' = [gpsPos EXCEPT !.fix = TRUE]

\* No sentence for longer than gpsFixTTL; or only void ones.
PositionAges ==
    /\ gpsPos.told \/ gpsPos.fresh
    /\ \/ gpsPos' = [gpsPos EXCEPT !.told = FALSE, !.fresh = FALSE]
       \/ gpsPos.told /\ ~gpsPos.fix /\ gpsPos' = [gpsPos EXCEPT !.told = FALSE]

\* Mutant: a position counts as long as no void sentence arrives.
BelievedForever == gpsPos.fix /\ gpsPos.place # NoPlace

\* A position counts when it is valid and has been updated within the TTL.
Believed == gpsPos.fix /\ gpsPos.place # NoPlace /\ gpsPos.fresh

---------------------------------------------------------------------------
\* The effective locators.

Override(a) == gpsOn /\ a.hasFix /\ a.grid # NoPlace /\ gpsLB = "gps"
UIGrid == IF Override(gpsUI) THEN gpsUI.grid ELSE "station"
AppGrid(a) == IF gpsLB = "fixed" THEN "fixed"
              ELSE IF Override(a) THEN a.grid ELSE "station"

SetGPSGrid(g, f) ==
    /\ gpsApp' = [grid |-> g, hasFix |-> f]
    /\ gpsBeacon' = AppGrid(gpsApp')

\* startGPS of an enabled receiver, in a settings change or a reconnect: stopGPS
\* comes first and forgets the client and the fix.
Start ==
    \/ /\ gpsUp
       /\ gpsClient' = "reading" /\ gpsPos' = NoPosition
       /\ gpsUI' = [Offline EXCEPT !.online = TRUE]
    \/ /\ ~gpsUp
       /\ gpsClient' = "none" /\ gpsPos' = NoPosition
       /\ gpsUI' = Offline

\* Mutant: only an acquired or lost fix reaches the application object.
TellFixOnly(new) ==
    IF new.hasFix # gpsUI.hasFix THEN SetGPSGrid(new.grid, new.hasFix)
    ELSE UNCHANGED <<gpsApp, gpsBeacon>>

Tell(new) ==
    IF new.hasFix # gpsUI.hasFix \/ new.grid # gpsUI.grid
    THEN SetGPSGrid(new.grid, new.hasFix)
    ELSE UNCHANGED <<gpsApp, gpsBeacon>>

\* scheduleOrReconnect before the deadline, which is only set once.
Retry == gpsRetry # "due" /\ gpsRetry' = "armed"

\* handleGPSTick, with a client whose loop runs or has died, and without one.
Tick ==
    /\ LET runs == gpsClient = "reading"
           new == [online |-> runs, hasFix |-> runs /\ Believed,
                   grid |-> IF runs /\ Believed THEN gpsPos.place ELSE gpsUI.grid] IN
       \/ gpsClient # "none" /\ runs
          /\ gpsUI' = new /\ Tell(new) /\ UNCHANGED <<gpsClient, gpsPos, gpsRetry>>
       \/ /\ ~runs /\ (gpsClient = "none" => gpsOn)
          /\ Tell(new)
          /\ \/ Retry /\ gpsUI' = new /\ UNCHANGED <<gpsClient, gpsPos>>
             \/ /\ gpsRetry = "due" /\ gpsRetry' = "unset"
                /\ IF gpsOn THEN Start ELSE gpsUI' = new /\ UNCHANGED <<gpsClient, gpsPos>>
    /\ UNCHANGED <<gpsOn, gpsLB, gpsUp, gpsAt>>

\* RunPendingAPRS, once a second.
RefreshBeacon ==
    /\ gpsBeacon' = AppGrid(gpsApp)
    /\ UNCHANGED <<gpsOn, gpsLB, gpsUp, gpsClient, gpsAt, gpsPos, gpsUI, gpsRetry, gpsApp>>

\* The integration settings are saved: the receiver is started when it has been
\* enabled or its service changed, with a tick at once, and stopped when it was
\* disabled.
SaveSettings ==
    \/ /\ gpsOn' = TRUE /\ Start
       /\ gpsRetry' = (IF gpsClient' = "reading" THEN gpsRetry
                       ELSE IF gpsRetry = "due" THEN "unset" ELSE "armed")
       /\ UNCHANGED <<gpsLB, gpsUp, gpsAt, gpsApp, gpsBeacon>>
    \/ /\ gpsOn /\ gpsOn' = FALSE
       /\ gpsClient' = "none" /\ gpsPos' = NoPosition /\ gpsUI' = Offline
       /\ UNCHANGED <<gpsLB, gpsUp, gpsAt, gpsRetry, gpsApp, gpsBeacon>>

\* SwitchLogbook: another logbook, with its own way to its locator.
SwitchTo ==
    /\ gpsLB' \in {"station", "gps", "fixed"} \ {gpsLB}
    /\ gpsBeacon' = (IF gpsLB' = "fixed" THEN "fixed"
                     ELSE IF gpsOn /\ gpsApp.hasFix /\ gpsApp.grid # NoPlace /\ gpsLB' = "gps"
                          THEN gpsApp.grid ELSE "station")
    /\ UNCHANGED <<gpsOn, gpsUp, gpsClient, gpsAt, gpsPos, gpsUI, gpsRetry, gpsApp>>

\* The reader's error ends its loop; the device is unplugged or plugged in again.
Unplug ==
    /\ gpsUp /\ gpsUp' = FALSE
    /\ gpsClient' = IF gpsClient = "reading" THEN "dead" ELSE gpsClient
Others ==
    \/ /\ HearFix \/ HearVoid \/ HearActive \/ PositionAges
       /\ UNCHANGED <<gpsUp, gpsClient, gpsAt, gpsRetry>>
    \/ Unplug /\ UNCHANGED <<gpsAt, gpsPos, gpsRetry>>
    \/ ~gpsUp /\ gpsUp' = TRUE /\ UNCHANGED <<gpsClient, gpsAt, gpsPos, gpsRetry>>
    \/ gpsAt' \in Places \ {gpsAt} /\ UNCHANGED <<gpsUp, gpsClient, gpsPos, gpsRetry>>
World == Others /\ UNCHANGED <<gpsOn, gpsLB, gpsUI, gpsApp, gpsBeacon>>

\* The delay of gpsReconnectDelay has passed.
DelayPasses ==
    /\ gpsRetry = "armed" /\ gpsRetry' = "due"
    /\ UNCHANGED <<gpsOn, gpsLB, gpsUp, gpsClient, gpsAt, gpsPos, gpsUI, gpsApp, gpsBeacon>>

GPSInit ==
    /\ gpsOn \in BOOLEAN /\ gpsLB \in {"station", "gps", "fixed"} /\ gpsUp \in BOOLEAN
    /\ gpsAt \in Places /\ gpsPos = NoPosition
    /\ gpsClient = (IF gpsOn /\ gpsUp THEN "reading" ELSE "none")
    /\ gpsUI = [Offline EXCEPT !.online = gpsOn /\ gpsUp]
    /\ gpsRetry = "unset" /\ gpsApp = [grid |-> NoPlace, hasFix |-> FALSE]
    /\ gpsBeacon = AppGrid(gpsApp)

GPSNext == Tick \/ RefreshBeacon \/ SaveSettings \/ SwitchTo \/ World \/ DelayPasses

\* The ticks and the clock go on; nothing else is promised.
GPSFairness == WF_gpsVars(Tick) /\ WF_gpsVars(RefreshBeacon) /\ WF_gpsVars(DelayPasses)
GPSSpec == GPSInit /\ [][GPSNext]_gpsVars
GPSFairSpec == GPSSpec /\ GPSFairness

---------------------------------------------------------------------------
\* While the status bar shows a fix, the application object has the same fix
\* and the same locator: every move is passed on, not the first one only.
AppKnowsFix == gpsUI.hasFix => gpsApp = [grid |-> gpsUI.grid, hasFix |-> TRUE]

\* A receiver that has gone silent, without any void sentence, and is not
\* replaced loses its fix.
SilenceIsSeen == <>[](~gpsPos.fresh) => <>[](~gpsUI.hasFix)

\* A receiver that is enabled and can be opened is being read, in the end.
ReceiverReturns == <>[](gpsOn /\ gpsUp) => <>[](gpsClient = "reading")

\* In the end the beacon goes out with the locator that holds for the logbook.
BeaconFollows == []<>(gpsBeacon = AppGrid(gpsApp))

\* The doc of effectiveGrid: one source of truth for the locator used in logging,
\* beacons and the dashboard (a fixed APRS location apart).
OneGrid == gpsLB # "fixed" => UIGrid = AppGrid(gpsApp)

\* The docs of gpsFixTTL and parseRMC: a lost fix does not keep the previous
\* position alive, and a position older than the TTL is not shown as a fix.
FixIsRecent == [][gpsUI'.hasFix /\ ~gpsUI.hasFix => gpsPos.told]_gpsVars
==============================================================================
