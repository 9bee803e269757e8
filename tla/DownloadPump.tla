---------------------------- MODULE DownloadPump ----------------------------
(***************************************************************************)
(* How a download, import or export reports to the editor: its worker's    *)
(* channel, the one read that may be outstanding, the owner loop that takes *)
(* the messages on any screen, the abort, and the result that is shown.     *)
(***************************************************************************)
EXTENDS Integers, Sequences, FiniteSets

CONSTANTS
    MaxOps,             \* operations of this editor
    Capacity,           \* of a channel
    MaxProgress         \* progress messages of an operation

Ops == 1..MaxOps

VARIABLES
    op, active,         \* LogbookEditor.dlOp (0: none), .dlActive
    mode,               \* "list", "running" or "result"
    captured, result,   \* wlDownloadErr (the operation it is of); what the result shows
    channel, closed,    \* each operation's channel
    worker, sent,       \* what its worker still has to do; its progress messages
    outcome,            \* how it ended
    pending, drained,   \* readPending, channelClosed
    arriving,           \* read, and on its way to the owner loop
    cancelled

pumpVars == <<op, active, mode, captured, result, channel, closed, worker, sent, outcome,
              pending, drained, arriving, cancelled>>

Progress == "progress"
Terminals == {"done", "aborted", "failed"}      \* dlDone
Error == "error"                                \* dlErr without dlDone: the channel is closed next
Close == "close"                                \* made by the reader of a closed channel

DownloadPumpTypeOK ==
    /\ op \in 0..MaxOps /\ active \in BOOLEAN /\ mode \in {"list", "running", "result"}
    /\ captured \in 0..MaxOps
    /\ result \in [of : 0..MaxOps, shows : Terminals \cup {"none", "unfinished"}]
    /\ channel \in [Ops -> Seq({Progress, Error} \cup Terminals)] /\ closed \subseteq Ops
    /\ worker \in [Ops -> {"idle", "works", "closes", "ended"}] /\ sent \in [Ops -> 0..MaxProgress]
    /\ outcome \in [Ops -> Terminals \cup {"none"}]
    /\ pending \subseteq Ops /\ drained \subseteq Ops /\ cancelled \subseteq Ops
    /\ \A m \in arriving : m.op \in Ops

Nothing == [of |-> 0, shows |-> "none"]

DownloadPumpInit ==
    /\ op = 0 /\ active = FALSE /\ mode = "list" /\ captured = 0 /\ result = Nothing
    /\ channel = [o \in Ops |-> <<>>] /\ closed = {} /\ worker = [o \in Ops |-> "idle"]
    /\ sent = [o \in Ops |-> 0] /\ outcome = [o \in Ops |-> "none"]
    /\ pending = {} /\ drained = {} /\ arriving = {} /\ cancelled = {}

\* readDownloadMsg: at most one read of an operation, none after its channel's end.
Read(o, p) == pending' = IF o = 0 \/ o \in drained THEN p ELSE p \cup {o}

workerVars == <<channel, closed, worker, sent, outcome>>

-----------------------------------------------------------------------------
(* The operator. *)

\* doWavelogDownload and its likes.
Start ==
    /\ mode = "list" /\ ~active /\ \E o \in Ops :
         /\ worker[o] = "idle" /\ \A n \in Ops : worker[n] = "idle" => o <= n
         /\ op' = o /\ worker' = [worker EXCEPT ![o] = "works"]
    /\ active' = TRUE /\ mode' = "running" /\ Read(op', pending)
    /\ UNCHANGED <<captured, result, channel, closed, sent, outcome, drained, arriving, cancelled>>

\* The Abort button, from the dialog only; every other key is held back.
Abort ==
    /\ active /\ mode = "running" /\ cancelled' = cancelled \cup {op} /\ Read(op, pending)
    /\ UNCHANGED <<op, active, mode, captured, result, workerVars, drained, arriving>>

\* The result is acknowledged.
Acknowledge ==
    /\ mode = "result" /\ mode' = "list" /\ result' = Nothing
    /\ UNCHANGED <<op, active, captured, workerVars, pending, drained, arriving, cancelled>>

\* Ticks and other messages that find the operation active keep the read alive; a
\* completion of something else is taken for progress.
OtherMessage ==
    /\ active /\ Read(op, pending) /\ mode' \in {mode, "running"}
    /\ UNCHANGED <<op, active, captured, result, workerVars, drained, arriving, cancelled>>

-----------------------------------------------------------------------------
(* The worker. *)

Room(o) == Len(channel[o]) < Capacity
Put(o, m) == channel' = [channel EXCEPT ![o] = Append(@, m)]

\* downloadOp.send: dropped once cancelled.
SendProgress(o) ==
    /\ worker[o] = "works" /\ sent[o] < MaxProgress /\ sent' = [sent EXCEPT ![o] = @ + 1]
    /\ \/ Room(o) /\ Put(o, Progress)
       \/ o \in cancelled /\ UNCHANGED channel
    /\ UNCHANGED <<op, active, mode, captured, result, closed, worker, outcome, pending, drained, arriving, cancelled>>

\* A terminal is sent whatever it takes; an abort is noticed between two records.
Finish(o) ==
    /\ worker[o] = "works" /\ Room(o) /\ worker' = [worker EXCEPT ![o] = "closes"]
    /\ \E end \in Terminals \cup {Error} :
         /\ end = "aborted" => o \in cancelled
         /\ Put(o, end) /\ outcome' = [outcome EXCEPT ![o] = IF end = Error THEN "failed" ELSE end]
    /\ UNCHANGED <<op, active, mode, captured, result, closed, sent, pending, drained, arriving, cancelled>>

CloseChannel(o) ==
    /\ worker[o] = "closes" /\ worker' = [worker EXCEPT ![o] = "ended"] /\ closed' = closed \cup {o}
    /\ UNCHANGED <<op, active, mode, captured, result, channel, sent, outcome, pending, drained, arriving, cancelled>>

\* The reader, outside the owner loop: it keeps readPending set.
Receive(o) ==
    /\ o \in pending /\ ~\E m \in arriving : m.op = o
    /\ \/ /\ channel[o] # <<>> /\ channel' = [channel EXCEPT ![o] = Tail(@)]
          /\ arriving' = arriving \cup {[op |-> o, msg |-> Head(channel[o])]} /\ UNCHANGED drained
       \/ /\ channel[o] = <<>> /\ o \in closed /\ UNCHANGED channel
          /\ arriving' = arriving \cup {[op |-> o, msg |-> Close]} /\ drained' = drained \cup {o}
    /\ UNCHANGED <<op, active, mode, captured, result, closed, worker, sent, outcome, pending, cancelled>>

-----------------------------------------------------------------------------
(* LogbookEditor.Update, on the editor's screen or off it. *)

Finalizes(shows) ==
    /\ active' = FALSE /\ op' = 0 /\ mode' = "result" /\ result' = [of |-> op, shows |-> shows]

Take(m) ==
    /\ m \in arriving /\ arriving' = arriving \ {m}
    /\ \/ /\ m.op # op /\ UNCHANGED <<op, active, mode, captured, result, pending>>
       \/ /\ m.op = op /\ m.msg = Progress /\ mode' = "running" /\ Read(op, pending \ {op})
          /\ UNCHANGED <<op, active, captured, result>>
       \/ /\ m.op = op /\ m.msg = Error /\ captured' = op /\ Read(op, pending \ {op})
          /\ UNCHANGED <<op, active, mode, result>>
       \/ /\ m.op = op /\ m.msg = Close /\ pending' = pending \ {op} /\ UNCHANGED captured
          /\ Finalizes(IF captured = 0 THEN "unfinished" ELSE "failed")
       \/ /\ m.op = op /\ m.msg \in Terminals /\ pending' = pending \ {op}
          /\ captured' = CASE m.msg = "aborted" -> 0 [] m.msg = "failed" -> op [] OTHER -> captured
          /\ Finalizes(IF m.msg = "done" /\ captured # 0 THEN "failed" ELSE m.msg)
    /\ UNCHANGED <<workerVars, drained, cancelled>>

DownloadPumpNext ==
    \/ Start \/ Abort \/ Acknowledge \/ OtherMessage
    \/ \E o \in Ops : SendProgress(o) \/ Finish(o) \/ CloseChannel(o) \/ Receive(o)
    \/ \E m \in arriving : Take(m)

DownloadPumpSpec == DownloadPumpInit /\ [][DownloadPumpNext]_pumpVars

-----------------------------------------------------------------------------
\* No second reader, and none that overtakes the terminal: an operation that is
\* active is read from, or its message is on the way, until its end is shown.
AlwaysBeingRead ==
    active => op # 0 /\ op \in pending /\ (op \in drained => \E m \in arriving : m.op = op)

\* A result is shown for an operation that has ended, and a success or an abort
\* only for one that ended so.
ResultIsHonest ==
    mode = "result" /\ result.of # 0 =>
        /\ outcome[result.of] # "none"
        /\ result.shows \in {"done", "aborted", "unfinished"} => outcome[result.of] = result.shows

\* Whatever is lost to a full channel or an abort, the end of the operation that is
\* active reaches the operator.
EndIsShown == active ~> ~active

\* The error shown is this operation's.
ErrorIsOwn == mode = "result" /\ result.shows = "failed" => outcome[result.of] = "failed"
==============================================================================
