---------------------------- MODULE HybridListener ----------------------------
(***************************************************************************)
(* The listener that tells TLS from plain HTTP on the dashboard's port by a *)
(* connection's first byte: an accept loop, a bounded number of workers,    *)
(* each waiting for that byte, a channel of classified connections, and a   *)
(* Close that leaves none of them behind.                                   *)
(***************************************************************************)
EXTENDS Integers, Sequences, FiniteSets

CONSTANTS
    Conns,              \* connections clients make
    Slots               \* hybridClassifySlots, and the capacity of results

VARIABLES
    conn,               \* [Conns -> where it is]
    loop,               \* where the accept loop is
    results, slots,     \* the classified connections, the slots taken
    raw,                \* the raw listener is open
    closing             \* how far Close is

listenerVars == <<conn, loop, results, slots, raw, closing>>

Failed == "failed"      \* the accept loop's last result

HybridListenerTypeOK ==
    /\ conn \in [Conns -> {"away", "kernel", "worker", "peeked", "result", "served", "closed"}]
    /\ loop \in {"slot", "accept", "ended"} \cup Conns
    /\ results \in Seq(Conns \cup {Failed}) /\ Len(results) <= Slots /\ slots \in 0..Slots
    /\ raw \in BOOLEAN /\ closing \in {"no", "told", "joins", "drains", "done"}

HybridListenerInit ==
    /\ conn = [c \in Conns |-> "away"] /\ loop = "slot" /\ results = <<>> /\ slots = 0
    /\ raw = TRUE /\ closing = "no"

Moves(c, from, to) == conn[c] = from /\ conn' = [conn EXCEPT ![c] = to]

-----------------------------------------------------------------------------
\* A client; the kernel queues it, and resets it when the socket is closed.
Arrive(c) == raw /\ Moves(c, "away", "kernel") /\ UNCHANGED <<loop, results, slots, raw, closing>>

\* acceptLoop: a slot first, then the raw Accept.
TakeSlot ==
    /\ loop = "slot"
    /\ \/ slots < Slots /\ slots' = slots + 1 /\ loop' = "accept"
       \/ closing # "no" /\ loop' = "ended" /\ UNCHANGED slots
    /\ UNCHANGED <<conn, results, raw, closing>>

Accept(c) ==
    /\ loop = "accept" /\ raw /\ Moves(c, "kernel", "worker") /\ loop' = c
    /\ UNCHANGED <<results, slots, raw, closing>>

\* Any error ends the loop, and is delivered if there is room at once.
AcceptFails ==
    /\ loop = "accept" /\ loop' = "ended" /\ slots' = slots - 1
    /\ \/ Len(results) < Slots /\ results' = Append(results, Failed)
       \/ (closing # "no" \/ Len(results) = Slots) /\ UNCHANGED results
    /\ UNCHANGED <<conn, raw, closing>>

\* A connection accepted after Close began has no consumer.
HandOver(c) ==
    /\ loop = c
    /\ IF closing # "no" THEN Moves(c, "worker", "closed") /\ loop' = "ended" /\ slots' = slots - 1
       ELSE loop' = "slot" /\ UNCHANGED <<conn, slots>>
    /\ UNCHANGED <<results, raw, closing>>

\* The worker: closed at once when shutting down, else the first byte, an end of
\* file or the deadline, whichever is first; then delivery, which Close cancels.
Peek(c) ==
    /\ loop # c
    /\ \/ closing # "no" /\ Moves(c, "worker", "closed") /\ slots' = slots - 1
       \/ Moves(c, "worker", "peeked") /\ UNCHANGED slots
    /\ UNCHANGED <<loop, results, raw, closing>>

Deliver(c) ==
    /\ \/ Len(results) < Slots /\ Moves(c, "peeked", "result") /\ results' = Append(results, c)
       \/ closing # "no" /\ Moves(c, "peeked", "closed") /\ UNCHANGED results
    /\ slots' = slots - 1 /\ UNCHANGED <<loop, raw, closing>>

\* http.Server.Serve takes the next one.
Serve ==
    /\ results # <<>> /\ results' = Tail(results)
    /\ IF Head(results) = Failed THEN UNCHANGED conn ELSE Moves(Head(results), "result", "served")
    /\ UNCHANGED <<loop, slots, raw, closing>>

-----------------------------------------------------------------------------
(* Close. *)

CloseBegins == closing = "no" /\ closing' = "told" /\ UNCHANGED <<conn, loop, results, slots, raw>>

CloseRaw ==
    /\ closing = "told" /\ closing' = "joins" /\ raw' = FALSE
    /\ conn' = [c \in Conns |-> IF conn[c] = "kernel" THEN "closed" ELSE conn[c]]
    /\ UNCHANGED <<loop, results, slots>>

Join ==
    /\ closing = "joins" /\ loop = "ended" /\ \A c \in Conns : conn[c] \notin {"worker", "peeked"}
    /\ closing' = "drains" /\ UNCHANGED <<conn, loop, results, slots, raw>>

Drain ==
    /\ closing = "drains"
    /\ IF results = <<>> THEN closing' = "done" /\ UNCHANGED <<conn, results>>
       ELSE /\ results' = Tail(results) /\ UNCHANGED closing
            /\ IF Head(results) = Failed THEN UNCHANGED conn ELSE Moves(Head(results), "result", "closed")
    /\ UNCHANGED <<loop, slots, raw>>

HybridListenerNext ==
    \/ TakeSlot \/ AcceptFails \/ Serve \/ CloseBegins \/ CloseRaw \/ Join \/ Drain
    \/ \E c \in Conns : Arrive(c) \/ Accept(c) \/ HandOver(c) \/ Peek(c) \/ Deliver(c)

HybridListenerSpec ==
    /\ HybridListenerInit /\ [][HybridListenerNext]_listenerVars
    /\ WF_listenerVars(TakeSlot \/ (~raw /\ AcceptFails) \/ CloseRaw \/ Join \/ Drain)
    /\ \A c \in Conns : WF_listenerVars(HandOver(c) \/ Peek(c)) /\ WF_listenerVars(Deliver(c))

-----------------------------------------------------------------------------
\* Once Close is over every connection was handed to the server or closed; none
\* hangs in a worker or in the channel nobody reads any more.
NoneLeftBehind == closing = "done" => \A c \in Conns : conn[c] \in {"away", "served", "closed"}

\* A slot is held by the loop or by one connection being classified, and is
\* given back: an idle client delays no more than its own slot.
Classified == {c \in Conns : conn[c] \in {"worker", "peeked"}}
SlotsAreHeld == slots = Cardinality(Classified) + (IF loop = "accept" THEN 1 ELSE 0)

\* Close ends, whatever the workers were waiting for.
CloseReturns == closing = "told" ~> closing = "done"
==============================================================================
