-------------------------------- MODULE WSJTX --------------------------------
(***************************************************************************)
(* WSJT-X: the listener, and the contacts it reports on their way into the *)
(* logbook.  They meet in one call, the listener's callback appending to the*)
(* queue, which may come at any time; a property is about one of them.     *)
(***************************************************************************)
EXTENDS Integers, Sequences

-----------------------------------------------------------------------------
(***************************************************************************)
(* The listener.                                                           *)
(*                                                                         *)
(* The WSJT-X listener: a UDP reader that sends into a bounded channel, an *)
(* event loop that takes from it and runs callbacks under a generation     *)
(* guard, and the owner, who replaces both when the active rig's settings  *)
(* change: detach under the mutex, close the socket, join the loop, drain  *)
(* the channel until the reader is gone, and only then listen again.       *)
(***************************************************************************)

CONSTANTS Settings, Off,   \* host and port of a rig preset; WSJT-X disabled
          MsgCap           \* what the reader's channel holds

VARIABLES
    wanted,     \* the active rig's settings
    applied,    \* App.lastWSJTX
    bindable,   \* settings whose port can be bound
    owner,      \* "idle", "close", "join", "drain" or "start" in MaybeRestartWSJTX
    run         \* the listener's goroutines, the previous ones while they stop

wsjtxVars == <<wanted, applied, bindable, owner, run>>

NoRun == [of |-> Off, current |-> FALSE, socket |-> FALSE, stop |-> FALSE,
          loop |-> "gone", reader |-> "gone", queued |-> 0]
NewRun(c) == [of |-> c, current |-> TRUE, socket |-> TRUE, stop |-> FALSE,
              loop |-> "select", reader |-> "read", queued |-> 0]

ListenerTypeOK ==
    /\ wanted \in Settings \cup {Off} /\ applied \in Settings \cup {Off}
    /\ bindable \subseteq Settings
    /\ owner \in {"idle", "close", "join", "drain", "start"}
    /\ run \in [of : Settings \cup {Off}, current : BOOLEAN, socket : BOOLEAN, stop : BOOLEAN,
                loop : {"select", "call", "gone"}, reader : {"read", "send", "gone"},
                queued : 0..MsgCap]
    /\ run.current => run.socket /\ run.loop # "gone"

\* MaybeRestartWSJTX on the owner loop, after a change of rig and every 30 s
\* while nothing is heard: unchanged settings are a no-op; the listener is
\* detached in one critical section.
Apply(w) ==
    /\ owner = "idle" /\ wanted' = w
    /\ IF w = applied THEN UNCHANGED <<owner, run>>
       ELSE IF run.current THEN owner' = "close" /\ run' = [run EXCEPT !.current = FALSE]
       ELSE owner' = "start" /\ UNCHANGED run
    /\ UNCHANGED <<applied, bindable>>
Retry == Apply(wanted)
RigChange == \E w \in Settings \cup {Off} : Apply(w)

\* finishStop
CloseSocket ==
    /\ owner = "close" /\ owner' = "join"
    /\ run' = [run EXCEPT !.socket = FALSE, !.stop = TRUE]
    /\ UNCHANGED <<wanted, applied, bindable>>

JoinLoop ==
    /\ owner = "join" /\ run.loop = "gone" /\ owner' = "drain"
    /\ UNCHANGED <<wanted, applied, bindable, run>>

\* drainChannels discards until the reader has closed the channel.
Drain ==
    /\ owner = "drain"
    /\ \/ run.queued > 0 /\ run' = [run EXCEPT !.queued = @ - 1] /\ UNCHANGED owner
       \/ run.queued = 0 /\ run.reader = "gone" /\ owner' = "start" /\ UNCHANGED run
    /\ UNCHANGED <<wanted, applied, bindable>>

\* The rest of MaybeRestartWSJTX: listen with the new settings, unless they are
\* off; a port that cannot be bound leaves the applied settings as they were.
Listen ==
    /\ owner = "start" /\ owner' = "idle"
    /\ \/ wanted = Off /\ applied' = Off /\ run' = NoRun
       \/ wanted \in bindable /\ applied' = wanted /\ run' = NewRun(wanted)
       \/ wanted \in Settings \ bindable /\ run' = NoRun /\ UNCHANGED applied
    /\ UNCHANGED <<wanted, bindable>>

\* ListenToWsjtx: a datagram is read, and sent into the channel, which blocks
\* while it is full; a closed socket ends the reader before the next datagram.
Read ==
    /\ run.reader = "read"
    /\ run' = [run EXCEPT !.reader = IF run.socket THEN "send" ELSE "gone"]
    /\ UNCHANGED <<wanted, applied, bindable, owner>>
SendMessage ==
    /\ run.reader = "send" /\ run.queued < MsgCap
    /\ run' = [run EXCEPT !.reader = "read", !.queued = @ + 1]
    /\ UNCHANGED <<wanted, applied, bindable, owner>>

\* eventLoop: a message is taken, and its callback runs if the generation is
\* still the current one; a stopped loop may take some messages first.
TakeMessage ==
    /\ run.loop = "select" /\ run.queued > 0
    /\ run' = [run EXCEPT !.queued = @ - 1, !.loop = IF run.current THEN "call" ELSE "select"]
    /\ UNCHANGED <<wanted, applied, bindable, owner>>
CallbackReturns ==
    /\ run.loop = "call" /\ run' = [run EXCEPT !.loop = "select"]
    /\ UNCHANGED <<wanted, applied, bindable, owner>>
LoopStops ==
    /\ run.loop = "select" /\ run.stop /\ run' = [run EXCEPT !.loop = "gone"]
    /\ UNCHANGED <<wanted, applied, bindable, owner>>

\* Another program takes or frees a port that this one does not hold.
PortsChange ==
    /\ bindable' \in SUBSET Settings /\ bindable' # bindable
    /\ run.socket => (run.of \in bindable <=> run.of \in bindable')
    /\ UNCHANGED <<wanted, applied, owner, run>>

ListenerInit ==
    /\ wanted = Off /\ applied = Off /\ bindable \in SUBSET Settings
    /\ owner = "idle" /\ run = NoRun

OwnerStep == CloseSocket \/ JoinLoop \/ Drain \/ Listen
ReaderStep == Read \/ SendMessage
LoopStep == TakeMessage \/ CallbackReturns \/ LoopStops

ListenerNext == RigChange \/ Retry \/ OwnerStep \/ ReaderStep \/ LoopStep \/ PortsChange

\* Goroutines run, and the tick retries; no datagram ever has to arrive.
ReaderEnds == SendMessage \/ (~run.socket /\ Read)
ListenerFairness ==
    /\ WF_wsjtxVars(OwnerStep) /\ WF_wsjtxVars(ReaderEnds) /\ WF_wsjtxVars(LoopStep)
    /\ WF_wsjtxVars(Retry)
ListenerSpec == ListenerInit /\ [][ListenerNext]_wsjtxVars
ListenerFairSpec == ListenerSpec /\ ListenerFairness

---------------------------------------------------------------------------
\* When Stop has returned, no callback of the stopped listener is running.
StoppedIsQuiet == owner \in {"drain", "start"} => run.loop # "call"

\* Replacing the listener ends, whatever the reader and the loop are doing.
ReplacingEnds == []<>(owner = "idle")

\* MaybeRestartWSJTX's doc and the auto-recovery of the tick: the listener
\* follows the effective settings, once they can be bound.
WantedIsServed ==
    \A c \in Settings : <>[](wanted = c /\ bindable = Settings) => <>[](run.of = c)

-----------------------------------------------------------------------------
(***************************************************************************)
(* The queue.                                                              *)
(*                                                                         *)
(* Contacts logged in WSJT-X on their way into the logbook: the listener   *)
(* appends each record to a queue and rewrites the backup file; once a     *)
(* second the owner takes the whole queue, inserts what is not there yet,  *)
(* puts back what the database refused, and rewrites the file.  A crash    *)
(* loses the queue, and the next start reads the file and removes it.      *)
(* Each of these accesses to the file may fail, and says nothing then.     *)
(***************************************************************************)

CONSTANTS Records,       \* contacts, by the key that identifies one
          MaxPending,    \* maxPendingADIFs
          MaxReports, MaxCrashes    \* bounds: messages of WSJT-X; crashes

VARIABLES
    queue,      \* adifQ.adifs
    taken,      \* what handleTick has taken and not yet handled
    at,         \* "rest", "tick" (taken is being handled) or "down"
    file,       \* pending_adifs.jsonl
    logbook,    \* the number of rows with each key
    saved,      \* the program's last write of the file succeeded
    reported,   \* contacts WSJT-X has reported; of these, the full queue
    dropped,    \* dropped some, logQSOFromADIF skipped some as invalid, and a
    refused,    \* crash or a start caught some outside the file, or in a file
    exposed,    \* that cannot be read
    reports, crashes

fate == <<reported, dropped, refused, exposed>>
wsjtxQueueVars == <<queue, taken, at, file, logbook, saved, fate, reports, crashes>>

Elements(s) == {s[i] : i \in 1..Len(s)}

QueueTypeOK ==
    /\ queue \in Seq(Records) /\ taken \in Seq(Records) /\ file \in Seq(Records)
    /\ at \in {"rest", "tick", "down"} /\ (at # "tick" => taken = <<>>)
    /\ logbook \in [Records -> Nat] /\ saved \in BOOLEAN
    /\ reported \subseteq Records /\ dropped \cup refused \cup exposed \subseteq reported
    /\ reports \in 0..MaxReports /\ crashes \in 0..MaxCrashes

Last(s, n) == SubSeq(s, Len(s) - n + 1, Len(s))
Trimmed(s, n) == IF Len(s) > n THEN Last(s, n) ELSE s

\* savePendingADIFsLocked with the queue q: the file is removed or cannot be, or is
\* created and written line by line, as far as the disk has room; a line that is cut
\* short counts as lost.
Saves(q) ==
    \/ file' = q /\ saved' = TRUE
    \/ file' \in {file} \cup {SubSeq(q, 1, n) : n \in 0..(Len(q) - 1)} /\ saved' = FALSE

\* OnADIF on the listener's goroutine: enqueuePendingADIFLocked drops the oldest
\* records of a full queue, and the whole queue is written to the file.  WSJT-X
\* reports a contact once or twice (LoggedAdif and QsoLogged).
OnADIF(k) ==
    /\ at # "down" /\ reports < MaxReports
    /\ LET kept == Trimmed(queue, MaxPending - 1) IN
       /\ queue' = Append(kept, k) /\ Saves(queue')
       /\ dropped' = dropped \cup (Elements(queue) \ Elements(kept))
    /\ reported' = reported \cup {k} /\ reports' = reports + 1
    /\ UNCHANGED <<taken, at, logbook, refused, exposed, crashes>>

\* handleTick takes the queue under its lock, and handles the records outside it.
TakeAll ==
    /\ at = "rest" /\ at' = "tick"
    /\ taken' = queue /\ queue' = <<>>
    /\ UNCHANGED <<file, logbook, saved, fate, reports, crashes>>

\* logQSOFromADIF: a record whose key is there already is skipped for good.
InsertOnce(k) == IF logbook[k] > 0 THEN logbook ELSE [logbook EXCEPT ![k] = @ + 1]

\* A record without a call, or one that ValidateForSave finds invalid, is skipped
\* for good; the two reports of a contact need not agree in this.
HandleRecord ==
    /\ at = "tick" /\ taken # <<>> /\ taken' = Tail(taken)
    /\ \/ logbook' = InsertOnce(Head(taken)) /\ UNCHANGED refused
       \/ refused' = refused \cup {Head(taken)} /\ UNCHANGED logbook
    /\ UNCHANGED <<queue, at, file, saved, reported, dropped, exposed, reports, crashes>>

\* Mutant: a record the database refuses is dropped.
RefusedIsLost == queue

\* The insert fails: the record goes to the end of the queue, whatever its length.
Requeued == Append(queue, Head(taken))

RecordRefused ==
    /\ at = "tick" /\ taken # <<>> /\ logbook[Head(taken)] = 0
    /\ queue' = Requeued /\ taken' = Tail(taken)
    /\ UNCHANGED <<at, file, logbook, saved, fate, reports, crashes>>

\* Mutant: the file is left as the listener wrote it.
TickEndsUnsaved ==
    /\ at = "tick" /\ taken = <<>> /\ at' = "rest"
    /\ UNCHANGED <<queue, taken, file, logbook, saved, fate, reports, crashes>>

\* The end of the tick: what is left in the queue is written to the file, or
\* the file removed.
TickEnds ==
    /\ at = "tick" /\ taken = <<>> /\ at' = "rest" /\ Saves(queue)
    /\ UNCHANGED <<queue, taken, logbook, fate, reports, crashes>>

\* The records in memory are gone; the file may lack them while a tick handles them,
\* and after a write that failed.
Crash ==
    /\ at # "down" /\ crashes < MaxCrashes
    /\ at' = "down" /\ queue' = <<>> /\ taken' = <<>> /\ crashes' = crashes + 1
    /\ exposed' = IF at = "rest" /\ saved THEN exposed
                  ELSE exposed \cup Elements(queue) \cup Elements(taken)
    /\ UNCHANGED <<file, logbook, saved, reported, dropped, refused, reports>>

\* Init recovers the records of the file, which loadPendingADIFs removes, or cannot
\* remove; of a file that cannot be read it recovers none.
Restart ==
    /\ at = "down" /\ at' = "rest" /\ saved' = FALSE
    /\ \/ /\ queue' = Trimmed(file, MaxPending) /\ file' \in {<<>>, file}
          /\ dropped' = dropped \cup (Elements(file) \ Elements(queue')) /\ UNCHANGED exposed
       \/ /\ file # <<>> /\ exposed' = exposed \cup Elements(file)
          /\ UNCHANGED <<queue, file, dropped>>
    /\ UNCHANGED <<taken, logbook, reported, refused, reports, crashes>>

QueueInit ==
    /\ queue = <<>> /\ taken = <<>> /\ at = "rest" /\ file = <<>> /\ saved = TRUE
    /\ logbook = [k \in Records |-> 0]
    /\ reported = {} /\ dropped = {} /\ refused = {} /\ exposed = {}
    /\ reports = 0 /\ crashes = 0

QueueNext ==
    \/ \E k \in Records : OnADIF(k)
    \/ TakeAll \/ HandleRecord \/ RecordRefused \/ TickEnds \/ Crash \/ Restart

\* The ticks go on, and a database that is busy lets the insert through at last.
QueueFairness ==
    /\ WF_wsjtxQueueVars(TakeAll) /\ SF_wsjtxQueueVars(HandleRecord)
    /\ WF_wsjtxQueueVars(TickEnds) /\ WF_wsjtxQueueVars(Restart)
QueueSpec == QueueInit /\ [][QueueNext]_wsjtxQueueVars
QueueFairSpec == QueueSpec /\ QueueFairness

---------------------------------------------------------------------------
\* A contact that is reported twice, retried or recovered from the file is in
\* the logbook once.
LoggedOnce == \A k \in Records : logbook[k] <= 1

\* Between two ticks the file holds what the queue holds, unless its last write
\* failed or there has been none since the start.
RestIsOnDisk == at = "rest" /\ saved => file = queue

\* A reported contact is in the logbook or on its way there, in memory or, while the
\* program is down, in the file; or it was pushed out of a full queue, or skipped as
\* invalid, or a crash came while a tick had taken the queue or after a write of the
\* file had failed, or the file could not be read.  It is lost in no other way.
NothingVanishes ==
    \A k \in reported :
        \/ logbook[k] > 0
        \/ k \in Elements(queue) \cup Elements(taken)
        \/ at = "down" /\ k \in Elements(file)
        \/ k \in dropped \cup refused \cup exposed

\* While the program runs, a contact in the queue gets into the logbook, unless
\* newer ones push it out, it is skipped as invalid, or the program crashes.
QueuedIsLogged ==
    \A k \in Records :
        (k \in Elements(queue) /\ crashes = MaxCrashes) ~> (logbook[k] > 0 \/ k \in dropped \cup refused)

\* What comments of the code say and its behaviour does not bear out.

\* The comment on savePendingADIFsLocked's call: written at once, so that
\* contacts survive crashes.
SurvivesCrash ==
    \A k \in reported : logbook[k] > 0 \/ k \in Elements(file) \/ k \in dropped

\* The doc of enqueuePendingADIFLocked: past maxPendingADIFs the oldest record
\* is dropped instead of growing without limit.
QueueIsBounded == Len(queue) <= MaxPending
=============================================================================
