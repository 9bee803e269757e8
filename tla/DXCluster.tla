----------------------------- MODULE DXCluster -----------------------------
(***************************************************************************)
(* The DX cluster connection: a telnet client that reconnects by itself,   *)
(* owned by the user interface.                                            *)
(*                                                                         *)
(* The owner loop decides on every tick whether a connection is wanted,    *)
(* starts a connect as a background command, and installs the client the   *)
(* command's message carries.  Saving the settings or going offline stops  *)
(* the installed client and invalidates the command in flight: its result  *)
(* is recognised as stale and the client it made is stopped.  After its    *)
(* first connection the client redials on its own (reader and reconnect    *)
(* loop) and reports each transition through a channel of one element,     *)
(* into which a goroutine never waits to write.                            *)
(*                                                                         *)
(* The generation of a command is kept as one bit, whether it is still     *)
(* the current one; that is all the code compares it for.                  *)
(***************************************************************************)
EXTENDS Integers, FiniteSets

CONSTANTS
    Clients,    \* dxc.Client objects
    NoClient,
    LastDelay,  \* last index of dxcReconnectDelays
    MaxSaves    \* bound: times the operator saves the settings

VARIABLES
    want,     \* the configuration asks for a connection, and the network is there
    ui,       \* m.dxc: the installed client and what the screen shows
    cmd,      \* connect commands in flight, by the client they run on
    conn,     \* the clients
    joining,  \* the client whose Stop the owner loop is waiting in
    saves     \* saves of the settings so far

vars == <<want, ui, cmd, conn, joining, saves>>

NoCmd   == [st |-> "none", ok |-> FALSE, current |-> FALSE]
NewConn == [used |-> FALSE, stopped |-> FALSE, once |-> FALSE, link |-> "none",
            loop |-> "none", q |-> "empty"]
NoUI    == [client |-> NoClient, online |-> FALSE, connecting |-> FALSE,
            timer |-> "zero", idx |-> 0]

TypeOK ==
    /\ want \in [enabled : BOOLEAN, inet : BOOLEAN]
    /\ ui \in [client : Clients \cup {NoClient}, online : BOOLEAN, connecting : BOOLEAN,
               timer : {"zero", "running", "due"}, idx : 0..LastDelay]
    /\ cmd \in [Clients -> [st : {"none", "start", "dial", "sent"}, ok : BOOLEAN,
                            current : BOOLEAN]]
    /\ conn \in [Clients -> [used : BOOLEAN, stopped : BOOLEAN, once : BOOLEAN,
                             link : {"none", "up", "broken"},
                             loop : {"none", "wait", "dial", "leaving"},
                             q : {"empty", "up", "down"}]]
    /\ joining \in Clients \cup {NoClient}
    /\ saves \in 0..MaxSaves

Init ==
    /\ want = [enabled |-> TRUE, inet |-> TRUE]
    /\ ui = NoUI
    /\ cmd = [c \in Clients |-> NoCmd] /\ conn = [c \in Clients |-> NewConn]
    /\ joining = NoClient /\ saves = 0

Running(c) == conn[c].link # "none" \/ conn[c].loop # "none"   \* loopWG is not zero
LoopFree   == joining = NoClient

-----------------------------------------------------------------------------
(* What the owner loop does to the connection.                             *)

\* Stop: no further reconnects, and the link is cut.
Stopped(c) == [c EXCEPT !.stopped = TRUE, !.link = IF @ = "up" THEN "broken" ELSE @]

\* Mutant: the teardown leaves the command in flight current.
TornDownForgetsCommand(s) ==
    [ui |-> NoUI, cmd |-> s.cmd,
     conn |-> IF s.ui.client = NoClient THEN s.conn
              ELSE [s.conn EXCEPT ![s.ui.client] = Stopped(@)]]

\* resetDXC and the refusals of maybeDXC: the client is stopped and the
\* command in flight is no longer current.
TornDown(s) ==
    [ui |-> NoUI,
     cmd |-> [c \in Clients |-> [s.cmd[c] EXCEPT !.current = FALSE]],
     conn |-> IF s.ui.client = NoClient THEN s.conn
              ELSE [s.conn EXCEPT ![s.ui.client] = Stopped(@)]]

Drained(s) ==
    IF s.ui.client = NoClient \/ s.conn[s.ui.client].q = "empty" THEN s
    ELSE LET up == s.conn[s.ui.client].q = "up" IN
         [s EXCEPT !.conn[s.ui.client].q = "empty",
                   !.ui = [@ EXCEPT !.online = up,
                                    !.idx = IF up /\ ~s.ui.online THEN 0 ELSE s.ui.idx]]

\* No attempt while one runs, while the client redials by itself, or before
\* the delay of the last failure has passed.
MayConnect(s) ==
    /\ ~s.ui.online /\ ~s.ui.connecting /\ s.ui.timer # "running"
    /\ s.ui.client # NoClient => ~s.conn[s.ui.client].once

\* The command runs on the installed client, or makes a new one.
Connecting(s, c) ==
    [s EXCEPT !.ui = [@ EXCEPT !.connecting = TRUE, !.timer = "running"],
              !.cmd[c] = [st |-> "start", ok |-> FALSE, current |-> TRUE],
              !.conn[c].used = TRUE]

Candidates(s) ==
    IF s.ui.client # NoClient THEN {s.ui.client} ELSE {c \in Clients : ~s.conn[c].used}

\* maybeDXC, from the state s with these wishes.
MaybeDXC(s, w) ==
    IF ~w.enabled \/ ~w.inet THEN {TornDown(s)}
    ELSE LET d == Drained(s) IN
         IF MayConnect(d) THEN {Connecting(d, c) : c \in Candidates(d)} ELSE {d}

Now == [ui |-> ui, cmd |-> cmd, conn |-> conn]

Becomes(s) == ui' = s.ui /\ cmd' = s.cmd /\ conn' = s.conn

\* The owner loop waits in Stop for the goroutines of the client it has stopped.
Waits(c) == joining' = IF c # NoClient /\ ~conn[c].stopped THEN c ELSE NoClient

Tick ==
    /\ LoopFree
    /\ \E s \in MaybeDXC(Now, want) : Becomes(s)
    /\ Waits(IF want.enabled /\ want.inet THEN NoClient ELSE ui.client)
    /\ UNCHANGED <<want, saves>>

\* A stopped client whose goroutines have ended can be used for a new one.
Recycle(c) ==
    /\ conn[c].used /\ conn[c].stopped /\ ~Running(c) /\ cmd[c].st = "none"
    /\ ui.client # c /\ joining # c
    /\ conn' = [conn EXCEPT ![c] = NewConn]
    /\ UNCHANGED <<want, ui, cmd, joining, saves>>

DelayPasses ==
    /\ ui.timer = "running"
    /\ ui' = [ui EXCEPT !.timer = "due"]
    /\ UNCHANGED <<want, cmd, conn, joining, saves>>

\* The settings are saved: reset, then connect at once when still wanted.
SaveConfig ==
    /\ LoopFree /\ saves < MaxSaves
    /\ \E on \in BOOLEAN :
          /\ want' = [want EXCEPT !.enabled = on]
          /\ \E s \in IF on THEN MaybeDXC(TornDown(Now), want') ELSE {TornDown(Now)} : Becomes(s)
    /\ Waits(ui.client)
    /\ saves' = saves + 1

\* The health check: back online the delays start over and a connect is tried
\* at once; offline only the flag changes, and the next tick acts on it.
InetResult ==
    /\ LoopFree
    /\ want' = [want EXCEPT !.inet = ~@]
    /\ IF want.inet THEN UNCHANGED <<ui, cmd, conn>>
       ELSE LET s == [Now EXCEPT !.ui = [@ EXCEPT !.timer = "zero", !.idx = 0]] IN
            \E r \in MaybeDXC(s, want') : Becomes(r)
    /\ UNCHANGED saves
    /\ Waits(IF want.inet \/ want.enabled THEN NoClient ELSE ui.client)

\* The client of a stale result is stopped, unless it is installed.
StaleResult(c) ==
    IF c # ui.client
    THEN conn' = [conn EXCEPT ![c] = Stopped(@)] /\ Waits(c)
    ELSE UNCHANGED <<conn, joining>>

\* handleDXCStatus.
Deliver(c) ==
    /\ LoopFree /\ cmd[c].st = "sent"
    /\ cmd' = [cmd EXCEPT ![c] = NoCmd]
    /\ IF cmd[c].current
       THEN /\ ui' = [ui EXCEPT !.client = c, !.connecting = FALSE, !.online = cmd[c].ok,
                                !.idx = IF cmd[c].ok THEN 0
                                        ELSE IF @ < LastDelay THEN @ + 1 ELSE @]
            /\ UNCHANGED <<conn, joining>>
       ELSE StaleResult(c) /\ UNCHANGED ui
    /\ UNCHANGED <<want, saves>>

\* Stop's loopWG.Wait returns.
StopReturns ==
    /\ joining # NoClient /\ ~Running(joining)
    /\ joining' = NoClient
    /\ UNCHANGED <<want, ui, cmd, conn, saves>>

-----------------------------------------------------------------------------
(* The client's goroutines.                                                *)

\* A non-blocking send on the status channel.
Offered(q, x) == IF q = "empty" THEN x ELSE q

\* Start after the dial: the link is taken up unless Stop came first.
LinkedUp(k) == [k EXCEPT !.link = "up", !.once = TRUE, !.q = Offered(@, "up")]

OnlyConn == UNCHANGED <<want, ui, joining, saves>>

CmdStart(c) ==
    /\ cmd[c].st = "start"
    /\ cmd' = [cmd EXCEPT ![c].st = IF conn[c].stopped THEN "sent" ELSE "dial"]
    /\ OnlyConn /\ UNCHANGED conn

CmdDialed(c) ==
    /\ cmd[c].st = "dial"
    /\ \E reached \in BOOLEAN :
          LET ok == reached /\ ~conn[c].stopped IN
          /\ cmd' = [cmd EXCEPT ![c] = [@ EXCEPT !.st = "sent", !.ok = ok]]
          /\ conn' = IF ok THEN [conn EXCEPT ![c] = LinkedUp(@)] ELSE conn
    /\ OnlyConn

\* The server or the network drops the connection.
LinkBreaks(c) ==
    /\ conn[c].link = "up"
    /\ conn' = [conn EXCEPT ![c].link = "broken"]
    /\ OnlyConn /\ UNCHANGED cmd

\* readLoop's deferred part: report the loss and hand over to reconnectLoop,
\* unless one is still marked as running.
Lost(k) ==
    [k EXCEPT !.link = "none", !.q = Offered(@, "down"),
              !.loop = IF ~k.stopped /\ @ = "none" THEN "wait" ELSE @]

ReaderEnds(c) ==
    /\ conn[c].link = "broken"
    /\ conn' = [conn EXCEPT ![c] = Lost(@)]
    /\ OnlyConn /\ UNCHANGED cmd

\* The shortest delay is two seconds and the owner loop ticks every second, so
\* an installed client's status has been consumed when a redial begins.
Consumed(c) == ui.client = c /\ LoopFree => conn[c].q = "empty"

\* Mutant: the reconnect loop does not look at Stop.
LoopIgnoresStop(c) ==
    \/ conn[c].loop = "wait" /\ conn' = [conn EXCEPT ![c].loop = "dial"]
    \/ conn[c].loop = "dial" /\ conn' = [conn EXCEPT ![c].loop = "wait"]

\* reconnectLoop, with the Start it calls; its mark is cleared only when it
\* has returned.
LoopStep(c) ==
    \/ /\ conn[c].loop = "wait"
       /\ \/ conn[c].stopped /\ conn' = [conn EXCEPT ![c].loop = "none"]
          \/ ~conn[c].stopped /\ Consumed(c) /\ conn' = [conn EXCEPT ![c].loop = "dial"]
    \/ /\ conn[c].loop = "dial"
       /\ \/ conn' = [conn EXCEPT ![c].loop = IF conn[c].stopped THEN "none" ELSE "wait"]
          \/ /\ ~conn[c].stopped
             /\ conn' = [conn EXCEPT ![c] = [LinkedUp(@) EXCEPT !.loop = "leaving"]]
    \/ /\ conn[c].loop = "leaving"
       /\ conn' = [conn EXCEPT ![c].loop = "none"]

ReconnectLoop(c) == LoopStep(c) /\ OnlyConn /\ UNCHANGED cmd

-----------------------------------------------------------------------------
Worker(c) == CmdStart(c) \/ CmdDialed(c) \/ ReaderEnds(c) \/ ReconnectLoop(c)

Next ==
    \/ Tick \/ SaveConfig \/ InetResult \/ StopReturns \/ DelayPasses
    \/ \E c \in Clients : Deliver(c) \/ Worker(c) \/ LinkBreaks(c) \/ Recycle(c)

Spec == Init /\ [][Next]_vars

\* Dials time out after ten seconds, sockets that are closed end their readers,
\* the timer message comes every second, and every message is delivered.
Fairness ==
    /\ WF_vars(Tick) /\ WF_vars(StopReturns) /\ WF_vars(DelayPasses)
    /\ \A c \in Clients : WF_vars(Worker(c)) /\ WF_vars(Deliver(c)) /\ WF_vars(Recycle(c))

FairSpec == Spec /\ Fairness

-----------------------------------------------------------------------------
(* Properties.                                                             *)

Alive(c) == conn[c].used /\ ~conn[c].stopped

\* A client that may dial, read or redial is known to somebody who will stop
\* it: it is installed, or it is bound to a command whose result will say so.
NoOrphan == \A c \in Clients : Alive(c) => ui.client = c \/ cmd[c].st # "none"

\* Two connections are never kept: beside the installed client only stale
\* commands run, whose clients will be stopped.
OneConnection ==
    \A c, d \in Clients :
        /\ Alive(c) /\ (ui.client = c \/ cmd[c].current)
        /\ Alive(d) /\ (ui.client = d \/ cmd[d].current)
        => c = d

\* The command and the client's own loop never dial at the same time.
OneDial == \A c \in Clients : ~(cmd[c].st = "dial" /\ conn[c].loop = "dial")

\* The owner loop never waits for ever in Stop, although the goroutines it
\* waits for may be dialling or about to start one another.
StopEnds == joining # NoClient ~> joining = NoClient

\* A refused connection is given up for good: unless the operator asks again,
\* every client is stopped, also one whose connect was under way.
RefusedIsSilent ==
    []<>(\/ want.enabled /\ want.inet
         \/ \A c \in Clients : ~Alive(c) /\ ~Running(c))

\* The attempt flag never stays: it would stop every later attempt.
AttemptEnds == ui.connecting ~> ~ui.connecting

-----------------------------------------------------------------------------
(* What comments of the code say and its behaviour does not bear out.      *)

\* "After the first successful connection, the client owns reconnection: it
\* redials with exponential backoff until Stop is called" (dxc.Client).
OwnsReconnection ==
    \A c \in Clients :
        conn[c].once /\ ~conn[c].stopped => conn[c].link # "none" \/ conn[c].loop # "none"

\* "BOTH transitions (lost and restored) must reach the UI" (maybeDXC): once
\* the reports are read, the screen does not claim a connection that is gone.
LossReachesUI ==
    ui.client # NoClient /\ ui.online /\ conn[ui.client].q = "empty"
        => conn[ui.client].link # "none"
=============================================================================
