------------------------------- MODULE MCLinks -------------------------------
(***************************************************************************)
(* Instances of the links to radios, networks and programs, for TLC.  The  *)
(* components share no state here: a behaviour is one of a single          *)
(* component, which "part" names, and the others rest in their first state. *)
(***************************************************************************)
EXTENDS Integers, Sequences, FiniteSets, TLC

CONSTANTS
    Clients, NoClient, LastDelay, MaxSaves,               \* DXCluster
    Peers, NoPeer, Books, ChanCap, MaxChanges,            \* APRSLink
    RigClients, RotorClients, NoRadio, StuckTicks, MaxRefresh,
    Tunes, NoTune, MaxLate,                               \* RigLine
    Places, NoPlace,                                      \* GPSLink
    Settings, Off, MsgCap,                                \* WSJTX: the listener
    Records, MaxPending, MaxReports, MaxCrashes,          \* and the queue
    Files, Workers, NoDB, MaxOpens                        \* RefData

VARIABLES
    part,
    want, ui, cmd, conn, joining, saves,
    asked, book, tx, peer, own, restart, events, stamped, changes,
    dev, info, polls, fetches, alive, refreshed,
    tune, cancel, dial,
    asking, line, vfoOK, got, timely,
    gpsOn, gpsLB, gpsUp, gpsClient, gpsAt, gpsPos, gpsUI, gpsRetry, gpsApp, gpsBeacon,
    wanted, applied, bindable, owner, run,
    queue, taken, at, file, logbook, saved, reported, dropped, refused, exposed, reports, crashes,
    useRef, db, opened, closed, building, ready, rebuild, refresh, cached, table, modern, panicked, offline

Dxc == INSTANCE DXCluster
APRS == INSTANCE APRSLink
Rig == INSTANCE RigControl WITH RotorClients <- {}       \* the rig alone, and the
Rotor == INSTANCE RigControl WITH RigClients <- {}       \* rotator alone
Line == INSTANCE RigLine
GPS == INSTANCE GPSLink
WSJT == INSTANCE WSJTX
Ref == INSTANCE RefData

dxcVars == <<want, ui, cmd, conn, joining, saves>>
aprsVars == <<asked, book, tx, peer, own, restart, events, stamped, changes>>
rigVars == <<dev, info, polls, fetches, alive, refreshed>>
tuneVars == <<tune, cancel, dial>>
wireVars == <<asking, line, vfoOK, got, timely>>
gpsVars == <<gpsOn, gpsLB, gpsUp, gpsClient, gpsAt, gpsPos, gpsUI, gpsRetry, gpsApp, gpsBeacon>>
listenerVars == <<wanted, applied, bindable, owner, run>>
queueVars == <<queue, taken, at, file, logbook, saved, reported, dropped, refused, exposed, reports, crashes>>
refVars == <<useRef, db, opened, closed, building, ready, rebuild, refresh, cached, table, modern, panicked, offline>>
allVars == <<part, dxcVars, aprsVars, rigVars, tuneVars, wireVars, gpsVars, listenerVars, queueVars, refVars>>

\* A component that rests has one first state, and logbooks are alike.
LinksInit ==
    /\ part \in {"dxc", "aprs", "rig", "rotor", "tune", "wire", "gps", "listener", "queue", "ref"}
    /\ Dxc!Init /\ APRS!APRSInit /\ Line!TuneInit
    /\ IF part = "rotor" THEN Rotor!RigInit ELSE Rig!RigInit
    /\ Line!WireInit /\ GPS!GPSInit /\ WSJT!ListenerInit /\ WSJT!QueueInit /\ Ref!RefInit
    /\ book = CHOOSE b \in Books : TRUE
    /\ part # "aprs" => tx = {} /\ asked = [on |-> FALSE, service |-> "kiss", inet |-> TRUE]
    /\ part # "wire" => ~timely
    /\ part # "gps" => ~gpsOn /\ ~gpsUp /\ gpsLB = "station" /\ gpsAt = CHOOSE p \in Places : TRUE
    /\ part # "listener" => bindable = {}
    /\ part # "ref" => ~useRef /\ table = {} /\ ~offline

DxcRuns ==
    /\ part = "dxc" /\ Dxc!Next
    /\ UNCHANGED <<part, aprsVars, rigVars, tuneVars, wireVars, gpsVars, listenerVars, queueVars, refVars>>
APRSRuns ==
    /\ part = "aprs" /\ APRS!APRSNext
    /\ UNCHANGED <<part, dxcVars, rigVars, tuneVars, wireVars, gpsVars, listenerVars, queueVars, refVars>>
RigRuns ==
    /\ (part = "rig" /\ Rig!RigNext) \/ (part = "rotor" /\ Rotor!RigNext)
    /\ UNCHANGED <<part, dxcVars, aprsVars, tuneVars, wireVars, gpsVars, listenerVars, queueVars, refVars>>
TuneRuns ==
    /\ part = "tune" /\ Line!TuneNext
    /\ UNCHANGED <<part, dxcVars, aprsVars, rigVars, wireVars, gpsVars, listenerVars, queueVars, refVars>>
WireRuns ==
    /\ part = "wire" /\ Line!WireNext
    /\ UNCHANGED <<part, dxcVars, aprsVars, rigVars, tuneVars, gpsVars, listenerVars, queueVars, refVars>>
GPSRuns ==
    /\ part = "gps" /\ GPS!GPSNext
    /\ UNCHANGED <<part, dxcVars, aprsVars, rigVars, tuneVars, wireVars, listenerVars, queueVars, refVars>>
ListenerRuns ==
    /\ part = "listener" /\ WSJT!ListenerNext
    /\ UNCHANGED <<part, dxcVars, aprsVars, rigVars, tuneVars, wireVars, gpsVars, queueVars, refVars>>
QueueRuns ==
    /\ part = "queue" /\ WSJT!QueueNext
    /\ UNCHANGED <<part, dxcVars, aprsVars, rigVars, tuneVars, wireVars, gpsVars, listenerVars, refVars>>
RefRuns ==
    /\ part = "ref" /\ Ref!RefNext
    /\ UNCHANGED <<part, dxcVars, aprsVars, rigVars, tuneVars, wireVars, gpsVars, listenerVars, queueVars>>

LinksNext ==
    \/ DxcRuns \/ APRSRuns \/ RigRuns \/ TuneRuns
    \/ WireRuns \/ GPSRuns \/ ListenerRuns \/ QueueRuns \/ RefRuns

LinksSpec == LinksInit /\ [][LinksNext]_allVars

\* The components' own fairness, each while it is the one that runs.
LinksFairness ==
    /\ WF_aprsVars(part = "aprs" /\ APRS!RunPendingAPRS)
    /\ WF_aprsVars(part = "aprs" /\ APRS!TimerFires)
    /\ \A p \in Peers :
          /\ WF_aprsVars(part = "aprs" /\ APRS!PeerStep(p))
          /\ WF_aprsVars(part = "aprs" /\ APRS!BackgroundStop(p))
          /\ WF_aprsVars(part = "aprs" /\ APRS!Reuse(p))
    /\ WF_rigVars(part = "rig" /\ Rig!PollRig)
    /\ WF_rigVars(part = "rig" /\ Rig!PollAges)
    /\ \A r \in RigClients : WF_rigVars(part = "rig" /\ Rig!ApplyPoll("rig", r))
    /\ WF_rigVars(part = "rotor" /\ Rotor!PollRotor)
    /\ \A r \in RotorClients :
          /\ WF_rigVars(part = "rotor" /\ Rotor!ApplyPoll("rotor", r))
          /\ WF_rigVars(part = "rotor" /\ Rotor!FetchDone(<<"rotor", "name">>, r))
    /\ \A f \in Rig!Facts :
          /\ WF_rigVars(part = "rig" /\ Rig!FetchRuns(f))
          /\ \A r \in RigClients : WF_rigVars(part = "rig" /\ Rig!FetchDone(f, r))
    /\ WF_wireVars(part = "wire" /\ Line!Status)
    /\ WF_wireVars(part = "wire" /\ (Line!AskVfo \/ Line!AskSplit \/ Line!AskFrequency \/ Line!AskMode \/ Line!AskOther))
    /\ WF_gpsVars(part = "gps" /\ GPS!Tick)
    /\ WF_gpsVars(part = "gps" /\ GPS!RefreshBeacon)
    /\ WF_gpsVars(part = "gps" /\ GPS!DelayPasses)
    /\ WF_listenerVars(part = "listener" /\ WSJT!OwnerStep)
    /\ WF_listenerVars(part = "listener" /\ WSJT!ReaderEnds)
    /\ WF_listenerVars(part = "listener" /\ WSJT!LoopStep)
    /\ WF_listenerVars(part = "listener" /\ WSJT!Retry)
    /\ WF_queueVars(part = "queue" /\ WSJT!TakeAll)
    /\ SF_queueVars(part = "queue" /\ WSJT!HandleRecord)
    /\ WF_queueVars(part = "queue" /\ WSJT!TickEnds)
    /\ WF_queueVars(part = "queue" /\ WSJT!Restart)
    /\ WF_refVars(part = "ref" /\ Ref!Tick)
    /\ \A w \in Workers : WF_refVars(part = "ref" /\ Ref!Rebuilt(w)) /\ WF_refVars(part = "ref" /\ Ref!Work(w))

\* The temporal properties are checked from a running connection only, with beacons in
\* all of the logbooks or in none; those of the cluster in MCWork.
LinksFairInit ==
    /\ LinksInit /\ part # "dxc"
    /\ part = "aprs" => asked.on /\ asked.service = "aprs_is" /\ tx \in {{}, Books}

LinksFairSpec == LinksFairInit /\ [][LinksNext]_allVars /\ LinksFairness

\* Interchangeable values, for the run without temporal properties.
Symmetry == {p @@ q : p \in Permutations(Peers), q \in Permutations(RigClients)}

-----------------------------------------------------------------------------
\* The components' properties, under their names.

\* The values of the running component's variables.
LinksTypeOK ==
    /\ part = "dxc" => Dxc!TypeOK
    /\ part = "aprs" => APRS!APRSTypeOK
    /\ part = "rig" => Rig!RigTypeOK
    /\ part = "rotor" => Rotor!RigTypeOK
    /\ part = "tune" => Line!TuneTypeOK
    /\ part = "wire" => Line!WireTypeOK
    /\ part = "gps" => GPS!GPSTypeOK
    /\ part = "listener" => WSJT!ListenerTypeOK
    /\ part = "queue" => WSJT!QueueTypeOK
    /\ part = "ref" => Ref!RefTypeOK

\* DXCluster: a client that may dial or read is known to someone who stops it,
\* two connections are never kept, and two parties never dial for one client.
ClusterSafe == part = "dxc" => Dxc!NoOrphan /\ Dxc!OneConnection /\ Dxc!OneDial

\* APRSLink: a client that may receive or transmit is installed or being
\* stopped, the pruner never works on a closed cache, and a beacon never
\* outlives the logbook whose settings it holds.
APRSSafe == part = "aprs" => APRS!NoStrayClient /\ APRS!PrunerHasCache /\ APRS!BeaconIsOwn

\* RigControl and RigLine: what is shown as connected is the preset that was
\* chosen, and a cancel goes to a command of its own pane that still runs.
RadioSafe ==
    /\ part = "rig" => Rig!ConnectedIsCurrent
    /\ part = "rotor" => Rotor!ConnectedIsCurrent
    /\ part = "tune" => Line!CancelIsLive

\* GPSLink and RefData: the application object has the fix and locator the screen
\* shows, the reference tab is blocked only while a rebuild is under way, and
\* every handle of its database is the application's or closed.
ShownIsTrue ==
    /\ part = "gps" => GPS!AppKnowsFix
    /\ part = "ref" => Ref!BlockedIsBuilding /\ Ref!NoHandleLeak

\* WSJTX: no callback of a stopped listener is running, a contact is logged once,
\* however often it is reported, between ticks the file holds what the queue holds
\* unless its last write failed, and no contact is lost in a way that is not named.
WSJTXSafe ==
    /\ part = "listener" => WSJT!StoppedIsQuiet
    /\ part = "queue" => WSJT!LoggedOnce /\ WSJT!RestIsOnDisk /\ WSJT!NothingVanishes

\* APRSLink and RefData: once the operator rests, the connection is the one asked
\* for, and an enabled reference database gets ready for searching.
SettingsServed == APRS!SettingsServed /\ Ref!EnabledIsReady

\* RigControl, RigLine and GPSLink: a radio that stays reachable is shown as
\* connected in the end, late answers do not shift the later ones for ever, a
\* silent receiver loses its fix, one that can be opened again is read again,
\* and the beacon's locator follows the effective one.
DevicesReturn ==
    /\ Rig!RigConnects /\ Rotor!RigConnects /\ Line!Resynchronises
    /\ GPS!SilenceIsSeen /\ GPS!ReceiverReturns /\ GPS!BeaconFollows

\* WSJTX: replacing the listener ends, and a queued
\* contact gets into the logbook or is skipped as invalid.
WSJTXServed == WSJT!ReplacingEnds /\ WSJT!QueuedIsLogged

\* APRSLink, startAPRS's comment: APRS off in the logbook transmits nothing.
ReceiveOnlyIsSilent == APRS!ReceiveOnlyIsSilent

\* WSJTX, Init's comment: written at once, so that contacts survive crashes.
SurvivesCrash == WSJT!SurvivesCrash

\* WSJTX, MaybeRestartWSJTX's doc: the listener follows the settings.
WantedIsServed == WSJT!WantedIsServed

\* RefData, a comment of its schema: the index is written "only during the controlled
\* rebuild phase (single writer)".
SingleWriter == Ref!SingleWriter
==============================================================================
