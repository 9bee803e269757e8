------------------------------- MODULE RigLine -------------------------------
(***************************************************************************)
(* What is said to the rig: the commands that tune it, and the line        *)
(* protocol of the hamlib client below them.  They meet in a client object,*)
(* which each takes as opaque: what one does to the other is any answer at *)
(* any time.                                                               *)
(***************************************************************************)
EXTENDS Integers, Sequences

-----------------------------------------------------------------------------
(***************************************************************************)
(* Tuning.                                                                 *)
(*                                                                         *)
(* Tuning the rig from the DX cluster pane or the band plan.  Each key     *)
(* press makes a background command that sets the frequency, then the      *)
(* mode.  A pane keeps the cancel function of its command in one field:    *)
(* the command's goroutine sets it when it starts and clears it when it    *)
(* ends, the next key press in that pane calls it.                         *)
(***************************************************************************)

CONSTANTS
    Tunes,     \* tune commands
    NoTune

VARIABLES
    tune,      \* the commands
    cancel,    \* the panes' cancel fields
    dial       \* whose frequency and whose mode the rig is set to

tuneVars == <<tune, cancel, dial>>

Panes == {"dxc", "bpl"}
Idle == [st |-> "none", pane |-> "dxc", cancelled |-> FALSE]

TuneTypeOK ==
    /\ tune \in [Tunes -> [st : {"none", "issued", "started", "tuned", "done"},
                           pane : Panes, cancelled : BOOLEAN]]
    /\ cancel \in [Panes -> Tunes \cup {NoTune}]
    /\ dial \in [freq : Tunes \cup {NoTune}, mode : Tunes \cup {NoTune}]

TuneInit ==
    /\ tune = [t \in Tunes |-> Idle] /\ cancel = [p \in Panes |-> NoTune]
    /\ dial = [freq |-> NoTune, mode |-> NoTune]

\* The previous command of the pane is cancelled, if it is known.
Cancelled(t) == IF t = NoTune THEN tune ELSE [tune EXCEPT ![t].cancelled = TRUE]

\* dxcTuneCmd, bplTuneCmd on the owner loop.
Tune(t, p) ==
    /\ tune[t].st = "none"
    /\ tune' = [Cancelled(cancel[p]) EXCEPT ![t] = [Idle EXCEPT !.st = "issued", !.pane = p]]
    /\ cancel' = [cancel EXCEPT ![p] = NoTune]
    /\ UNCHANGED dial

\* The command's goroutine publishes its cancel function.
TuneStarts(t) ==
    /\ tune[t].st = "issued"
    /\ tune' = [tune EXCEPT ![t].st = "started"]
    /\ cancel' = [cancel EXCEPT ![tune[t].pane] = t]
    /\ UNCHANGED dial

TuneSetsFreq(t) ==
    /\ tune[t].st = "started" /\ ~tune[t].cancelled
    /\ tune' = [tune EXCEPT ![t].st = "tuned"] /\ dial' = [dial EXCEPT !.freq = t]
    /\ UNCHANGED cancel

\* The end, in any way: cancelled, refused by the rig, out of the rig's range,
\* without a mode the rig knows, or with the mode set.
TuneEnds(t) ==
    /\ tune[t].st \in {"started", "tuned"}
    /\ tune' = [tune EXCEPT ![t].st = "done"]
    /\ cancel' = [cancel EXCEPT ![tune[t].pane] = NoTune]
    /\ \/ UNCHANGED dial
       \/ /\ tune[t].st = "tuned" /\ ~tune[t].cancelled
          /\ dial' = [dial EXCEPT !.mode = t]

TuneNext ==
    \E t \in Tunes :
        \/ TuneStarts(t) \/ TuneSetsFreq(t) \/ TuneEnds(t)
        \/ \E p \in Panes : Tune(t, p)

TuneSpec == TuneInit /\ [][TuneNext]_tuneVars

-----------------------------------------------------------------------------
(* Properties.                                                             *)

InFlight(t) == tune[t].st \in {"issued", "started", "tuned"}

\* A command whose cancel function the next key press would call is running and
\* has not been cancelled: a cancel never goes to a command of the other pane,
\* or to one that has ended.
CancelIsLive ==
    \A p \in Panes : cancel[p] # NoTune =>
        InFlight(cancel[p]) /\ tune[cancel[p]].pane = p /\ ~tune[cancel[p]].cancelled

-----------------------------------------------------------------------------
(* What comments of the code say and its behaviour does not bear out.      *)

\* "Cancels any previous tune command still in flight" (dxcTuneCmd): of one
\* pane's commands, one at most goes on.
OneTune ==
    \A t, u \in {x \in Tunes : InFlight(x) /\ ~tune[x].cancelled} :
        tune[t].pane = tune[u].pane => t = u

-----------------------------------------------------------------------------
(***************************************************************************)
(* The rigctld connection.                                                 *)
(*                                                                         *)
(* The rigctld connection of the hamlib client: a stream of lines without  *)
(* any tag, on which a question that timed out may still be answered, and  *)
(* be read as the answer to a later question.                              *)
(*                                                                         *)
(* Each question takes one line and then drains what else has arrived.  A  *)
(* failed question is ignored, except for the frequency's: without one, or *)
(* with one that cannot be a frequency, the connection is given up.        *)
(***************************************************************************)

CONSTANT MaxLate    \* bound: answers that may still be on their way

VARIABLES
    asking,       \* the next question, or "idle" between two calls
    line,     \* answers on their way or unread, named for their question
    vfoOK,    \* vfoNameOK: the VFO name is still asked for
    got,      \* what this call has read: VFO name, frequency and mode, by question
    timely    \* the radio is on, and rigctld answers within the timeouts

wireVars == <<asking, line, vfoOK, got, timely>>

Questions == {"v", "s", "f", "m", "b", "l", "_"}
Kept == Questions \cup {"none", "rprt", "more"}
Nothing == [v |-> "none", f |-> "none", m |-> "none"]

WireTypeOK ==
    /\ asking \in {"idle", "v", "s", "f", "m", "b"}
    /\ line \in Seq(Questions \cup {"rprt", "more"}) /\ Len(line) <= MaxLate
    /\ vfoOK \in BOOLEAN /\ timely \in BOOLEAN
    /\ got \in [v : Kept, f : Kept, m : Kept]

WireInit ==
    /\ asking = "idle" /\ line = <<>> /\ vfoOK = TRUE /\ got = Nothing
    /\ timely \in BOOLEAN

\* What is left when n answers have arrived: read or drained.
AfterDrain(l, n) == SubSeq(l, n + 1, Len(l))

\* The results of the question k, and the answers left: a timeout, or the
\* first line that has arrived.  rigctld may reject a question, and its
\* character mode adds a line to every answer.
Cmd(k) ==
    UNION {LET l == line \o <<reply, "more">> IN
           {[ans |-> IF n = 0 THEN "none" ELSE Head(l), rest |-> AfterDrain(l, n)] :
               n \in {x \in 0..Len(l) : Len(l) - x <= MaxLate /\ (timely => x = Len(l))}}
           : reply \in {k} \cup IF k = "f" /\ timely THEN {} ELSE {"rprt"}}

\* VFO-aware rigctld answers to a name with a name; anything else is no VFO.
KnowsOther == got.v = "v"

Status ==
    /\ asking = "idle"
    /\ asking' = IF vfoOK THEN "v" ELSE "s"
    /\ got' = Nothing
    /\ UNCHANGED <<line, vfoOK, timely>>

AskVfo ==
    /\ asking = "v"
    /\ \E r \in Cmd("v") :
          /\ line' = r.rest
          /\ vfoOK' = (r.ans \notin {"none", "rprt"})
          /\ got' = [got EXCEPT !.v = r.ans]
    /\ asking' = "s"
    /\ UNCHANGED timely

AskSplit ==
    /\ asking = "s"
    /\ \E r \in Cmd("s") : line' = r.rest
    /\ asking' = "f"
    /\ UNCHANGED <<vfoOK, got, timely>>

\* Above 100 kHz: the answer to a question for a frequency.
Plausible(a) == a \in {"f", "b"}

\* dropConn: the next question dials again, and nothing old can arrive.
AskFrequency ==
    /\ asking = "f"
    /\ \E r \in Cmd("f") :
          IF Plausible(r.ans)
          THEN asking' = "m" /\ line' = r.rest /\ got' = [got EXCEPT !.f = r.ans]
          ELSE asking' = "idle" /\ line' = <<>> /\ got' = Nothing
    /\ UNCHANGED <<vfoOK, timely>>

AskMode ==
    /\ asking = "m"
    /\ \E r \in Cmd("m") : line' = r.rest /\ got' = [got EXCEPT !.m = r.ans]
    /\ \E split \in BOOLEAN : asking' = IF split /\ KnowsOther THEN "b" ELSE "idle"
    /\ UNCHANGED <<vfoOK, timely>>

AskOther ==
    /\ asking = "b"
    /\ \E r \in Cmd("b") : line' = r.rest
    /\ asking' = "idle"
    /\ UNCHANGED <<vfoOK, got, timely>>

\* Power never gives the connection up, GetName does.
Power ==
    /\ asking = "idle"
    /\ \E r \in Cmd("l") : line' = r.rest
    /\ UNCHANGED <<asking, vfoOK, got, timely>>

GetName ==
    /\ asking = "idle"
    /\ \E r \in Cmd("_") : line' = IF r.ans \in {"none", "rprt"} THEN <<>> ELSE r.rest
    /\ UNCHANGED <<asking, vfoOK, got, timely>>

Speed == timely' = ~timely /\ UNCHANGED <<asking, line, vfoOK, got>>

WireNext ==
    \/ Status \/ AskVfo \/ AskSplit \/ AskFrequency \/ AskMode \/ AskOther
    \/ Power \/ GetName \/ Speed

WireSpec == WireInit /\ [][WireNext]_wireVars

\* The owner loop polls; every question ends by its deadline.
WireFairness ==
    WF_wireVars(Status) /\ WF_wireVars(AskVfo \/ AskSplit \/ AskFrequency \/ AskMode \/ AskOther)

WireFairSpec == WireSpec /\ WireFairness

-----------------------------------------------------------------------------
(* Properties.                                                             *)

\* Once the radio is on and answers come in time again, the frequency is read,
\* and no answer is taken for another's for ever: neither an answer that was late
\* nor the lines of the character mode shift all the later ones.
Resynchronises ==
    <>[]timely => /\ <>[](got.v \in {"none", "rprt", "v"} /\ got.f \in {"none", "f"})
                  /\ []<>(got.f = "f")

-----------------------------------------------------------------------------
(* What comments of the code say and its behaviour does not bear out.      *)

\* "A valid ham-band frequency is never <= 100 kHz. Zero or tiny values mean
\* the response was stale data": the other VFO's late frequency is neither.
FrequencyIsMain == got.f \in {"none", "f"}
=============================================================================
