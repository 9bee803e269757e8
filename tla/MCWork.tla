------------------------------- MODULE MCWork -------------------------------
(***************************************************************************)
(* Instances for the temporal properties of the components whose workers   *)
(* somebody waits for: the DX cluster, the database leases, the listener   *)
(* of the dashboard and the channel of a download.  As in MCLinks, a       *)
(* behaviour is one of a single component, with its own fairness.          *)
(***************************************************************************)
EXTENDS Integers, Sequences, FiniteSets, TLC

CONSTANTS Clients, NoClient, LastDelay, MaxSaves        \* DXCluster
CONSTANTS Books, Contacts, Handles, Jobs, MaxActs       \* DBLease
CONSTANTS Conns, Slots                                  \* HybridListener
CONSTANTS MaxOps, Capacity, MaxProgress                 \* DownloadPump

VARIABLES
    part,
    want, ui, cmd, conn, joining, saves,
    cur, book, used, table, job, chain, queued, acts,
    accepted, loop, results, slots, raw, closing,
    op, active, mode, captured, result, channel, closed, worker, sent, outcome,
    pending, drained, arriving, cancelled

Dxc == INSTANCE DXCluster
Lease == INSTANCE DBLease
Tls == INSTANCE HybridListener WITH conn <- accepted
Pump == INSTANCE DownloadPump

dxcVars == <<want, ui, cmd, conn, joining, saves>>
leaseVars == <<cur, book, used, table, job, chain, queued, acts>>
tlsVars == <<accepted, loop, results, slots, raw, closing>>
pumpVars == <<op, active, mode, captured, result, channel, closed, worker, sent, outcome,
              pending, drained, arriving, cancelled>>
allVars == <<part, dxcVars, leaseVars, tlsVars, pumpVars>>

\* Handles are alike, and so are the logbooks of a component that rests.
WorkInit ==
    /\ part \in {"dxc", "lease", "tls", "pump"}
    /\ Dxc!Init /\ Lease!Init /\ Tls!HybridListenerInit /\ Pump!DownloadPumpInit
    /\ cur = CHOOSE h \in Handles : TRUE
    /\ part # "lease" => book = [h \in Handles |-> CHOOSE b \in Books : TRUE]

DxcRuns == part = "dxc" /\ Dxc!Next /\ UNCHANGED <<part, leaseVars, tlsVars, pumpVars>>
LeaseRuns == part = "lease" /\ Lease!Next /\ UNCHANGED <<part, dxcVars, tlsVars, pumpVars>>
TlsRuns == part = "tls" /\ Tls!HybridListenerNext /\ UNCHANGED <<part, dxcVars, leaseVars, pumpVars>>
PumpRuns == part = "pump" /\ Pump!DownloadPumpNext /\ UNCHANGED <<part, dxcVars, leaseVars, tlsVars>>

WorkNext == DxcRuns \/ LeaseRuns \/ TlsRuns \/ PumpRuns

WorkFairness ==
    /\ WF_dxcVars(part = "dxc" /\ Dxc!Tick)
    /\ WF_dxcVars(part = "dxc" /\ Dxc!StopReturns)
    /\ WF_dxcVars(part = "dxc" /\ Dxc!DelayPasses)
    /\ \A c \in Clients :
          /\ WF_dxcVars(part = "dxc" /\ Dxc!Worker(c))
          /\ WF_dxcVars(part = "dxc" /\ Dxc!Deliver(c))
          /\ WF_dxcVars(part = "dxc" /\ Dxc!Recycle(c))
    /\ \A j \in Jobs : WF_leaseVars(part = "lease" /\ Lease!JobStep(j))
    /\ \A k \in Lease!Keys : WF_leaseVars(part = "lease" /\ (Lease!PatchEnds(k) \/ Lease!PatchResult(k)))
    /\ WF_tlsVars(part = "tls" /\ (Tls!TakeSlot \/ (~raw /\ Tls!AcceptFails) \/ Tls!CloseRaw \/ Tls!Join \/ Tls!Drain))
    /\ \A c \in Conns :
          /\ WF_tlsVars(part = "tls" /\ (Tls!HandOver(c) \/ Tls!Peek(c)))
          /\ WF_tlsVars(part = "tls" /\ Tls!Deliver(c))
    /\ \A o \in Pump!Ops :
          /\ WF_pumpVars(part = "pump" /\ (Pump!SendProgress(o) \/ Pump!Finish(o) \/ Pump!CloseChannel(o)))
          /\ WF_pumpVars(part = "pump" /\ Pump!Receive(o))
    /\ WF_pumpVars(part = "pump" /\ (\E m \in arriving : Pump!Take(m)))

WorkSpec == WorkInit /\ [][WorkNext]_allVars /\ WorkFairness

-----------------------------------------------------------------------------
\* The components' temporal properties, under their names.

\* DXCluster: the owner loop does not wait for ever in Stop, a connection attempt
\* ends, so that later ones are possible, and one that is refused is given up.
ClusterServed == Dxc!StopEnds /\ Dxc!AttemptEnds /\ Dxc!RefusedIsSilent

\* DBLease, HybridListener and DownloadPump: the database of a logbook that was left is
\* closed once the work on it ends, closing the dashboard's listener ends, whatever its
\* workers wait for, and a download is not active for ever.
WorkEnds == Lease!ReplacedIsClosed /\ Tls!CloseReturns /\ Pump!EndIsShown
==============================================================================
