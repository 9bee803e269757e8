------------------------------ MODULE APRSLink ------------------------------
(***************************************************************************)
(* The life of the APRS connection: the client of the active service, the  *)
(* goroutine that prunes the station cache, the one that sends position    *)
(* beacons, and the owner loop that starts, replaces and stops them.       *)
(*                                                                         *)
(* Every transition runs on the owner loop: saves and logbook switches     *)
(* only arm a timer, which hands a token to the loop; beacon goroutines    *)
(* report through a bounded channel, into which they never wait to write.  *)
(* The generation an event carries is the client it was made for: the code *)
(* counts the generation once for every client it installs or gives up.    *)
(***************************************************************************)
EXTENDS Integers, Sequences, FiniteSets

CONSTANTS
    Peers,       \* client objects
    NoPeer,
    Books,       \* logbooks
    ChanCap,     \* capacity of the event channel
    MaxChanges   \* bound: saves, switches and changes of the settings

VARIABLES
    asked,       \* the settings: service on, which service, internet
    book,        \* the active logbook
    tx,          \* the logbooks that enable APRS and beacons
    peer,        \* the clients
    own,         \* what the owner holds: client, cache, pruner, beacon; and whether
                 \* that is behind the settings with no restart on its way
    restart,     \* the debounce timer and the token it hands over
    events,      \* beacon events on their way to the owner loop
    stamped,     \* whose beacons have set the last beacon time of a logbook
    changes

aprsVars == <<asked, book, tx, peer, own, restart, events, stamped, changes>>

Services == {"aprs_is", "kiss"}   \* stopped in the background, or waited for

FreePeer == [st |-> "free", stop |-> "no", kind |-> "kiss", book |-> CHOOSE b \in Books : TRUE]
NoBeacon == [on |-> FALSE, book |-> CHOOSE b \in Books : TRUE, peer |-> NoPeer]

APRSTypeOK ==
    /\ asked \in [on : BOOLEAN, service : Services, inet : BOOLEAN]
    /\ book \in Books /\ tx \in SUBSET Books
    /\ peer \in [Peers -> [st : {"free", "dial", "up", "wait", "refused", "ended"},
                           stop : {"no", "asked", "done"}, kind : Services, book : Books]]
    /\ own \in [peer : Peers \cup {NoPeer}, cache : BOOLEAN,
                pruner : BOOLEAN, behind : BOOLEAN,
                beacon : [on : BOOLEAN, book : Books, peer : Peers \cup {NoPeer}]]
    /\ restart \in [timer : BOOLEAN, token : BOOLEAN]
    /\ events \in Seq([peer : Peers, book : Books]) /\ Len(events) <= ChanCap
    /\ stamped \in [Books -> SUBSET Books]
    /\ changes \in 0..MaxChanges

APRSInit ==
    /\ asked \in [on : BOOLEAN, service : Services, inet : {TRUE}]
    /\ book \in Books /\ tx \in SUBSET Books
    /\ peer = [p \in Peers |-> FreePeer]
    /\ own = [peer |-> NoPeer, cache |-> FALSE, pruner |-> FALSE, behind |-> FALSE, beacon |-> NoBeacon]
    /\ restart = [timer |-> FALSE, token |-> TRUE]    \* the program's start
    /\ events = <<>> /\ stamped = [b \in Books |-> {}] /\ changes = 0

-----------------------------------------------------------------------------
(* The owner's operations, on s = [own, peer].                             *)

\* Client.Stop: the loop is told, and its link is cut.
ToldToStop(k) == [k EXCEPT !.stop = "done", !.st = IF @ = "refused" THEN "ended" ELSE @]

\* Both are joined.
StopBeacon(o) == [o EXCEPT !.beacon = NoBeacon]

StopPruner(o) == [o EXCEPT !.pruner = FALSE]

\* stopAPRS: the workers are joined, the client stopped, the cache closed.
StopAPRS(s) ==
    LET o == StopBeacon(StopPruner(s.own)) IN
    [own |-> [o EXCEPT !.peer = NoPeer, !.cache = FALSE, !.behind = FALSE],
     peer |-> IF o.peer = NoPeer THEN s.peer
              ELSE [s.peer EXCEPT ![o.peer] = ToldToStop(@)]]

\* Mutant: the replaced client is forgotten.
ReplacedForgets(s, service) == s.peer

\* The previous client: stopped at once for KISS, in the background for APRS-IS.
Replaced(s, service) ==
    IF s.own.peer = NoPeer THEN s.peer
    ELSE [s.peer EXCEPT ![s.own.peer] =
             IF service = "kiss" THEN ToldToStop(@) ELSE [@ EXCEPT !.stop = "asked"]]

\* The early returns of startAPRS, which leave what runs as it is: there is no callsign
\* to log in with, or the cache cannot be opened, or, once that is open, the serial
\* port is not configured.
EarlyReturns(s, service) ==
    {[s EXCEPT !.own.behind = TRUE, !.own.cache = c]
     : c \in IF service = "kiss" THEN {s.own.cache, TRUE} ELSE {s.own.cache}}

\* startAPRS: nothing at all while offline; else an early return, or a new client
\* for this logbook, a new pruner and, in full mode, a new beacon.
StartAPRS(s, full, set) ==
    IF ~set.inet THEN {s}
    ELSE EarlyReturns(s, set.service) \cup
         {[own  |-> [peer |-> p, cache |-> TRUE, pruner |-> TRUE, behind |-> FALSE,
                     beacon |-> IF full THEN [on |-> TRUE, book |-> book, peer |-> p]
                                ELSE s.own.beacon],
           peer |-> [Replaced(s, set.service) EXCEPT ![p] =
                        [st |-> "dial", stop |-> "no", kind |-> set.service, book |-> book]]]
          : p \in {q \in Peers : s.peer[q].st = "free"}}

MaybeRestartAPRS(s, set) ==
    IF ~set.on THEN {StopAPRS(s)} ELSE StartAPRS(s, book \in tx, set)

Held == [own |-> own, peer |-> peer]
Becoming(s) == own' = s.own /\ peer' = s.peer

-----------------------------------------------------------------------------
(* The owner loop.                                                         *)

\* An event counts when its client is still the installed one; the time it
\* stamps is that of the active logbook.
Stamps(b) ==
    IF b # book THEN stamped[b]
    ELSE stamped[b] \cup {events[i].book : i \in {j \in DOMAIN events :
                                events[j].peer = own.peer /\ book \in tx}}

\* RunPendingAPRS: the events first, then the restart.
RunPendingAPRS ==
    /\ restart.token \/ events # <<>>
    /\ stamped' = [b \in Books |-> Stamps(b)] /\ events' = <<>>
    /\ IF restart.token THEN \E s \in MaybeRestartAPRS(Held, asked) : Becoming(s)
                        ELSE UNCHANGED <<own, peer>>
    /\ restart' = [restart EXCEPT !.token = FALSE]
    /\ UNCHANGED <<asked, book, tx, changes>>

TimerFires ==
    /\ restart.timer
    /\ restart' = [timer |-> FALSE, token |-> TRUE]
    /\ UNCHANGED <<asked, book, tx, peer, own, events, stamped, changes>>

ScheduleAPRSRestart == restart' = [restart EXCEPT !.timer = TRUE]

Changing == changes < MaxChanges /\ changes' = changes + 1

\* The workers are joined before the logbook is replaced; the client stays.  The
\* switch to a logbook whose database cannot be opened changes nothing.
SwitchLogbook(b) ==
    /\ Changing /\ b # book
    /\ own' = StopBeacon(StopPruner(own))
    /\ book' = b
    /\ ScheduleAPRSRestart
    /\ UNCHANGED <<asked, tx, peer, events, stamped>>

\* The logbook form: the settings are changed in memory and saved, and a save that
\* fails returns before the restart is scheduled.
SaveLogbook(b) ==
    /\ Changing
    /\ tx' = IF b \in tx THEN tx \ {b} ELSE tx \cup {b}
    /\ \/ ScheduleAPRSRestart /\ UNCHANGED own
       \/ UNCHANGED restart /\ own' = [own EXCEPT !.behind = @ \/ b = book]
    /\ UNCHANGED <<asked, book, peer, events, stamped>>

\* handleStationSyncDone: the station's fields have changed, and are saved or not.
StationSynced ==
    /\ Changing /\ ScheduleAPRSRestart
    /\ UNCHANGED <<asked, book, tx, peer, own, events, stamped>>

\* The integrations form: restarted at once when a setting has changed.
SaveIntegrations ==
    /\ Changing
    /\ \E set \in [on : BOOLEAN, service : Services, inet : {asked.inet}] :
          /\ set # asked
          /\ asked' = set
          /\ \E s \in MaybeRestartAPRS(Held, set) : Becoming(s)
    /\ UNCHANGED <<book, tx, restart, events, stamped>>

\* Mutant: back online the connection is left to the next save.
BackOnlineQuietly ==
    /\ Changing
    /\ asked' = [asked EXCEPT !.inet = ~@]
    /\ UNCHANGED <<own, peer, book, tx, restart, events, stamped>>

\* The health check: only the way back acts on the connection.
InetChanges ==
    /\ Changing
    /\ asked' = [asked EXCEPT !.inet = ~@]
    /\ IF asked.inet THEN UNCHANGED <<own, peer>>
       ELSE \E s \in MaybeRestartAPRS(Held, asked') : Becoming(s)
    /\ UNCHANGED <<book, tx, restart, events, stamped>>

\* The GPS receiver gets its first fix: restarted at once, for the range filter.
FixAcquired ==
    /\ Changing
    /\ \E s \in MaybeRestartAPRS(Held, asked) : Becoming(s)
    /\ UNCHANGED <<asked, book, tx, restart, events, stamped>>

-----------------------------------------------------------------------------
(* The client's run loop, the background stop, and the beacon goroutine.   *)

OnlyPeer(p, k) ==
    /\ peer' = [peer EXCEPT ![p] = k]
    /\ UNCHANGED <<asked, book, tx, own, restart, events, stamped, changes>>

\* A connect ends; a login that is refused ends the loop of an APRS-IS client.
Connects(p) ==
    /\ peer[p].st = "dial"
    /\ \/ \E st \in {"up", "wait"} : OnlyPeer(p, [peer[p] EXCEPT !.st = st])
       \/ /\ peer[p].kind = "aprs_is"
          /\ OnlyPeer(p, [peer[p] EXCEPT !.st = IF peer[p].stop = "done" THEN "ended" ELSE "refused"])

LosesLink(p) == peer[p].st = "up" /\ OnlyPeer(p, [peer[p] EXCEPT !.st = "wait"])

Redials(p) ==
    peer[p].st = "wait" /\ peer[p].stop # "done" /\ OnlyPeer(p, [peer[p] EXCEPT !.st = "dial"])

BackgroundStop(p) == peer[p].stop = "asked" /\ OnlyPeer(p, ToldToStop(peer[p]))

\* The run loop sees the stop.
LoopEnds(p) ==
    /\ peer[p].stop = "done" /\ peer[p].st \in {"up", "wait"}
    /\ OnlyPeer(p, [peer[p] EXCEPT !.st = "ended"])

\* An ended client nobody refers to can stand for a new one.
Reuse(p) ==
    /\ peer[p].st = "ended" /\ own.peer # p /\ own.beacon.peer # p
    /\ \A i \in DOMAIN events : events[i].peer # p
    /\ OnlyPeer(p, FreePeer)

\* Mutant: the beacon goroutine is not bounded by the channel.
BeaconSendsAlways ==
    /\ own.beacon.on /\ peer[own.beacon.peer].st = "up" /\ Len(events) <= ChanCap
    /\ events' = Append(events, [peer |-> own.beacon.peer, book |-> own.beacon.book])
    /\ UNCHANGED <<asked, book, tx, peer, own, restart, stamped, changes>>

\* The beacon goes out over the client of the snapshot, with its callsign.
BeaconSends ==
    /\ own.beacon.on /\ peer[own.beacon.peer].st = "up"
    /\ events' = IF Len(events) < ChanCap
                 THEN Append(events, [peer |-> own.beacon.peer, book |-> own.beacon.book])
                 ELSE events
    /\ UNCHANGED <<asked, book, tx, peer, own, restart, stamped, changes>>

-----------------------------------------------------------------------------
PeerStep(p) == Connects(p) \/ Redials(p) \/ LoopEnds(p)

APRSNext ==
    \/ RunPendingAPRS \/ TimerFires \/ SaveIntegrations \/ InetChanges \/ FixAcquired
    \/ StationSynced \/ BeaconSends
    \/ \E b \in Books : SwitchLogbook(b) \/ SaveLogbook(b)
    \/ \E p \in Peers : PeerStep(p) \/ BackgroundStop(p) \/ LosesLink(p) \/ Reuse(p)

APRSSpec == APRSInit /\ [][APRSNext]_aprsVars

\* Timers fire, the loop runs RunPendingAPRS every second, dials time out.
APRSFairness ==
    /\ WF_aprsVars(RunPendingAPRS) /\ WF_aprsVars(TimerFires)
    /\ \A p \in Peers : WF_aprsVars(PeerStep(p)) /\ WF_aprsVars(BackgroundStop(p))
                        /\ WF_aprsVars(Reuse(p))

APRSFairSpec == APRSSpec /\ APRSFairness

-----------------------------------------------------------------------------
(* Properties.                                                             *)

Ended(p) == peer[p].st \in {"free", "ended"}

\* Every client that may receive or transmit is installed, or has been told
\* to stop, or is about to be.
NoStrayClient == \A p \in Peers : ~Ended(p) => own.peer = p \/ peer[p].stop # "no"

\* The pruner never works on a cache that has been closed.
PrunerHasCache == own.pruner => own.cache

\* A beacon goroutine never outlives the logbook whose settings it holds.
BeaconIsOwn == own.beacon.on => own.beacon.book = book

\* Once the operator rests, the connection is the one the settings ask for:
\* gone when APRS is off, and when it is on and the network is there, a client
\* of the active logbook, with a beacon if the logbook asks for one.  The last start
\* that returned early, and a change whose save failed, are set apart: nothing
\* tries again.
Served ==
    IF asked.on
    THEN asked.inet /\ ~own.behind =>
             /\ own.peer # NoPeer /\ peer[own.peer].book = book
             /\ book \in tx => own.beacon.on /\ own.beacon.peer = own.peer
    ELSE own.peer = NoPeer /\ ~own.beacon.on /\ ~own.cache /\ \A p \in Peers : Ended(p)

SettingsServed == <>[]Served

-----------------------------------------------------------------------------
(* What comments of the code say and its behaviour does not bear out.      *)

\* "beacon from a replaced run" is dropped: the last beacon time of a logbook
\* is only set by a beacon of that logbook.
StampsOwnBeacons == \A b \in Books : stamped[b] \subseteq {b}

\* "Receive-only: the integration is enabled at the CQOps level, but the active
\* logbook has no APRS config ... nothing is ever transmitted": once the
\* restart has been handled.
ReceiveOnlyIsSilent ==
    book \notin tx /\ ~restart.timer /\ ~restart.token
        => ~(own.beacon.on /\ peer[own.beacon.peer].st = "up" /\ peer[own.beacon.peer].stop = "no")
=============================================================================
