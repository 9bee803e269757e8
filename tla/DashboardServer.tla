--------------------------- MODULE DashboardServer ---------------------------
(***************************************************************************)
(* The web dashboard's server: its event streams and its life, which share  *)
(* no state.                                                               *)
(*                                                                         *)
(* A panel's value is set in the server's snapshot and published to the     *)
(* subscribers' buffers afterwards; a browser that connects is sent the     *)
(* snapshot and then subscribed; a buffer that is full drops the event, and *)
(* streams end when their client goes away, a write fails or the server     *)
(* stops.                                                                  *)
(*                                                                         *)
(* The terminal starts the server in a worker that binds the port and       *)
(* reports within three seconds, looks after it on the tick, restarts it    *)
(* when its settings change, and stops it when it is switched off.          *)
(***************************************************************************)
EXTENDS Integers, Sequences, FiniteSets

CONSTANTS
    Clients,
    MaxValue,           \* changes of the panel
    MaxSubscribers,
    Buffer,             \* events a subscriber's channel holds
    MaxServers, MaxSettings   \* servers made, settings saved

VARIABLES
    value,              \* the panel in the snapshot; each change is a new number
    publishing,         \* the change set but not yet published, or 0
    subscribers,        \* Hub.subscribers
    buffer,             \* [Clients -> events waiting in the channel]
    stage,              \* [Clients -> where its handler is]
    shown,              \* [Clients -> the value its browser has]
    missed,             \* clients an event with something new was not buffered for
    running             \* the stream context is not cancelled

streamVars == <<value, publishing, subscribers, buffer, stage, shown, missed, running>>

DashboardStreamTypeOK ==
    /\ value \in 0..MaxValue /\ publishing \in 0..MaxValue /\ subscribers \subseteq Clients
    /\ buffer \in [Clients -> Seq(1..MaxValue)] /\ \A c \in Clients : Len(buffer[c]) <= Buffer
    /\ stage \in [Clients -> {"away", "accepted", "seeded", "streaming"}]
    /\ shown \in [Clients -> 0..MaxValue] /\ missed \subseteq Clients /\ running \in BOOLEAN

DashboardStreamInit ==
    /\ value = 0 /\ publishing = 0 /\ subscribers = {} /\ buffer = [c \in Clients |-> <<>>]
    /\ stage = [c \in Clients |-> "away"] /\ shown = [c \in Clients |-> 0] /\ missed = {} /\ running = TRUE

-----------------------------------------------------------------------------
(* The owner loop. *)

\* A Set* call that found a change: the snapshot, under its lock, then Publish.
SetPanel ==
    /\ publishing = 0 /\ value < MaxValue /\ value' = value + 1 /\ publishing' = value + 1
    /\ UNCHANGED <<subscribers, buffer, stage, shown, missed, running>>

Publish ==
    /\ publishing # 0 /\ publishing' = 0
    /\ buffer' = [c \in Clients |->
                    IF c \in subscribers /\ Len(buffer[c]) < Buffer
                    THEN Append(buffer[c], publishing) ELSE buffer[c]]
    /\ missed' = missed \cup {c \in Clients : \/ (stage[c] = "seeded" /\ shown[c] # publishing)
                                             \/ (stage[c] = "streaming" /\ buffer'[c] = buffer[c])}
    /\ UNCHANGED <<value, subscribers, stage, shown, running>>

\* Stop cancels the streams before the shutdown waits for them.
Stop == running /\ running' = FALSE /\ UNCHANGED <<value, publishing, subscribers, buffer, stage, shown, missed>>

-----------------------------------------------------------------------------
(* handleEvents. *)

Go(c, from, to) == stage[c] = from /\ stage' = [stage EXCEPT ![c] = to]

\* The capacity is looked at while a refusal can still be answered.
Connect(c) ==
    /\ running /\ Cardinality(subscribers) < MaxSubscribers /\ Go(c, "away", "accepted")
    /\ buffer' = [buffer EXCEPT ![c] = <<>>] /\ missed' = missed \ {c}
    /\ UNCHANGED <<value, publishing, subscribers, shown, running>>

WriteSnapshot(c) ==
    /\ Go(c, "accepted", "seeded") /\ shown' = [shown EXCEPT ![c] = value]
    /\ UNCHANGED <<value, publishing, subscribers, buffer, missed, running>>

\* Subscribe, or the last slot is gone and the stream ends.
Subscribe(c) ==
    /\ IF Cardinality(subscribers) < MaxSubscribers
       THEN Go(c, "seeded", "streaming") /\ subscribers' = subscribers \cup {c}
       ELSE Go(c, "seeded", "away") /\ UNCHANGED subscribers
    /\ UNCHANGED <<value, publishing, buffer, shown, missed, running>>

WriteEvent(c) ==
    /\ stage[c] = "streaming" /\ buffer[c] # <<>> /\ buffer' = [buffer EXCEPT ![c] = Tail(@)]
    /\ shown' = [shown EXCEPT ![c] = Head(buffer[c])]
    /\ UNCHANGED <<value, publishing, subscribers, stage, missed, running>>

\* The client closes, a write exceeds its deadline, or the server stops.
End(c) ==
    /\ stage[c] # "away" /\ stage' = [stage EXCEPT ![c] = "away"] /\ subscribers' = subscribers \ {c}
    /\ UNCHANGED <<value, publishing, buffer, shown, missed, running>>

DashboardStreamNext ==
    \/ SetPanel \/ Publish \/ Stop
    \/ \E c \in Clients : Connect(c) \/ WriteSnapshot(c) \/ Subscribe(c) \/ WriteEvent(c) \/ End(c)

DashboardStreamSpec == DashboardStreamInit /\ [][DashboardStreamNext]_streamVars

-----------------------------------------------------------------------------
\* A browser whose events were all buffered shows the panel as it is, once it
\* has read them: nothing is lost between the snapshot, the subscription and
\* the publication, whose three locks are taken apart.
StreamIsComplete ==
    \A c \in Clients : stage[c] = "streaming" /\ buffer[c] = <<>> /\ publishing = 0 /\ c \notin missed
                           => shown[c] = value

\* A slot is held by a stream under way only, and never more than there are.
SlotsAreReturned ==
    /\ Cardinality(subscribers) <= MaxSubscribers
    /\ subscribers = {c \in Clients : stage[c] = "streaming"}

\* While its stream lasts, a browser never goes back to an older value, whatever
\* was dropped and however the snapshot and the events overtook each other.
StreamNeverGoesBack ==
    \A c \in Clients : stage[c] # "away" /\ stage'[c] = stage[c] => shown'[c] >= shown[c]

\* A browser that was connected throughout learns of every change.
EventsReachStreams == [][\A c \in Clients : c \in missed' \ missed => Len(buffer[c]) = Buffer]_streamVars

-----------------------------------------------------------------------------
(* The life of the server.                                                 *)

VARIABLES
    enabled, restart,   \* Config.Integrations.HTTPServer.Enabled, http.restart
    settings,
    client, online,     \* http.client (a server or 0), http.online
    waits,              \* less than httpReconnectDelay since http.lastAttempt
    server,             \* [servers made -> "binding", "listening" or "ended"]
    ended,              \* servers whose status channel holds the end of Serve
    starts              \* starts whose message is outstanding: server and outcome

serverVars == <<enabled, restart, settings, client, online, waits, server, ended, starts>>

Ids == 1..MaxServers
Made == {s \in Ids : server[s] # "none"}

DashboardServerTypeOK ==
    /\ enabled \in BOOLEAN /\ restart \in BOOLEAN /\ settings \in 0..MaxSettings
    /\ client \in 0..MaxServers /\ online \in BOOLEAN /\ waits \in BOOLEAN
    /\ server \in [Ids -> {"none", "binding", "listening", "ended"}] /\ ended \subseteq Ids
    /\ starts \subseteq [of : Ids, told : {"nothing", "up", "down", "timeout"}]

DashboardServerInit ==
    /\ enabled = TRUE /\ restart = FALSE /\ settings = 0 /\ client = 0 /\ online = FALSE /\ waits = FALSE
    /\ server = [s \in Ids |-> "none"] /\ ended = {} /\ starts = {}

\* Stop: the listener and its streams are closed before it returns; a server that
\* is still binding has nothing to serve any more.
\* Mutant: the old server keeps its listener.
StoppedNot == server
Stopped == IF client = 0 THEN server ELSE [server EXCEPT ![client] = "ended"]

\* The worker of a new server, begun with what was left by the stop.
StartFrom(left) ==
    IF waits \/ \A s \in Ids : left[s] # "none" THEN server' = left /\ UNCHANGED <<waits, starts>>
    ELSE LET s == CHOOSE i \in Ids : left[i] = "none" /\ \A j \in Ids : left[j] = "none" => i <= j
         IN server' = [left EXCEPT ![s] = "binding"] /\ waits' = TRUE
            /\ starts' = starts \cup {[of |-> s, told |-> "nothing"]}

-----------------------------------------------------------------------------
\* The dialog of the settings is saved: the switch, or address, port and keys.
Save ==
    /\ settings < MaxSettings /\ settings' = settings + 1
    /\ enabled' \in BOOLEAN /\ restart' = TRUE /\ online' = FALSE /\ waits' = FALSE
    /\ UNCHANGED <<client, server, ended, starts>>

\* maybeHTTP
TickOff ==
    /\ ~enabled /\ server' = Stopped /\ client' = 0 /\ online' = FALSE /\ waits' = FALSE /\ restart' = FALSE
    /\ UNCHANGED <<enabled, settings, ended, starts>>

TickRestart ==
    /\ enabled /\ restart /\ restart' = FALSE /\ client' = 0 /\ online' = FALSE /\ StartFrom(Stopped)
    /\ UNCHANGED <<enabled, settings, ended>>

TickOnline ==
    /\ enabled /\ ~restart /\ client # 0 /\ online
    /\ client \in ended /\ online' = FALSE /\ client' = 0 /\ server' = Stopped
    /\ UNCHANGED <<enabled, restart, settings, waits, ended, starts>>

TickOffline ==
    /\ enabled /\ ~restart /\ ~(client # 0 /\ online) /\ StartFrom(server)
    /\ UNCHANGED <<enabled, restart, settings, client, online, ended>>

Later == waits /\ waits' = FALSE /\ UNCHANGED <<enabled, restart, settings, client, online, server, ended, starts>>

\* The server binds or cannot, and reports to the worker that waits for it.
Bind(s) ==
    /\ server[s] = "binding"
    /\ \E up \in BOOLEAN :
         /\ server' = [server EXCEPT ![s] = IF up THEN "listening" ELSE "ended"]
         /\ starts' = {IF r.of = s /\ r.told = "nothing" THEN [r EXCEPT !.told = IF up THEN "up" ELSE "down"] ELSE r : r \in starts}
    /\ UNCHANGED <<enabled, restart, settings, client, online, waits, ended>>

GiveUp(r) ==
    /\ r \in starts /\ r.told = "nothing" /\ starts' = (starts \ {r}) \cup {[r EXCEPT !.told = "timeout"]}
    /\ UNCHANGED <<enabled, restart, settings, client, online, waits, server, ended>>

\* httpStatusMsg: a start that gave up brings no server along.
Status(r) ==
    /\ r \in starts /\ r.told # "nothing" /\ starts' = starts \ {r}
    /\ client' = IF r.told = "timeout" THEN client ELSE r.of
    /\ online' = (r.told = "up")
    /\ UNCHANGED <<enabled, restart, settings, waits, server, ended>>

\* Serve returns, by itself or after Stop, and reports it.
ServeEnds(s) ==
    /\ server[s] \in {"listening", "ended"} /\ s \notin ended
    /\ server' = [server EXCEPT ![s] = "ended"] /\ ended' = ended \cup {s}
    /\ UNCHANGED <<enabled, restart, settings, client, online, waits, starts>>

DashboardServerNext ==
    \/ Save \/ TickOff \/ TickRestart \/ TickOnline \/ TickOffline \/ Later
    \/ \E r \in starts : GiveUp(r) \/ Status(r)
    \/ \E s \in Ids : Bind(s) \/ ServeEnds(s)

DashboardServerSpec == DashboardServerInit /\ [][DashboardServerNext]_serverVars

-----------------------------------------------------------------------------
\* A dashboard said to be online answers, or its end is there to be read: what an
\* earlier start, stop or restart left behind is not taken for it.
OnlineIsListening == online => server[client] = "listening" \/ client \in ended

\* A restart never competes with the server it replaces for the port.
RestartFreesThePort ==
    restart /\ ~restart' /\ client # 0 => server'[client] = "ended"

\* Once switched off and quiet, nothing listens.
OffIsOff == ~enabled /\ ~restart /\ starts = {} /\ client = 0 => \A s \in Ids : server[s] # "listening"
==============================================================================
