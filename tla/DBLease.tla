------------------------------- MODULE DBLease -------------------------------
(***************************************************************************)
(* Who keeps a logbook database open.                                      *)
(*                                                                         *)
(* Switching the logbook replaces App.DB while background operations may   *)
(* still be using the old handle.  Each of them holds a LEASE              *)
(* (App.KeepDBAlive): the replaced handle is retired and closed by the     *)
(* last release.  A lease is handed from a worker to the message with its  *)
(* result, from there to the PATCH chains the result starts, and along the *)
(* follow-ups of a chain, so that no gap is left in which the handle could *)
(* be closed.                                                              *)
(*                                                                         *)
(* Every action is one critical section of dbMu together with what the     *)
(* owner loop does around it, or one step of a worker.  Handles are        *)
(* distinct *sql.DB values: opening a logbook again gives a new one.       *)
(***************************************************************************)
EXTENDS Integers, FiniteSets, TLC

CONSTANTS
    Books,      \* the configured logbooks
    Contacts,   \* local ids; a contact is a logbook and a local id
    Handles,    \* *sql.DB values the program may open
    Jobs,       \* background operations other than PATCH chains
    MaxActs     \* bound: operations and edits started by the operator

ASSUME LeaseAssumption ==
    /\ IsFiniteSet(Contacts) /\ IsFiniteSet(Jobs) /\ IsFiniteSet(Books)
    /\ MaxActs \in Nat
    /\ Books # {} /\ Handles # {}

Keys == Books \X Contacts      \* contactSyncKey, for one Wavelog endpoint

VARIABLES
    cur,       \* App.DB
    book,      \* the logbook a handle was opened for
    used,      \* handles opened so far
    table,     \* dbHolders, and which handles are open
    job,       \* downloads, imports, uploads, retry lists ...
    chain,     \* PATCH chains, one per contact: the coordinator's inFlight map
    queued,    \* contacts whose chain owes a follow-up
    acts       \* operations and edits started so far

vars == <<cur, book, used, table, job, chain, queued, acts>>

\* A download, import, export, delete or purge frees its lease itself; an
\* upload and a retry list hand it to the owner loop with their result.
Kinds == {"scan", "upload", "retry"}

NoJob(h)   == [st |-> "idle", kind |-> "scan", h |-> h, ids |-> {}, again |-> FALSE]
NoChain(h) == [st |-> "none", h |-> h, safe |-> TRUE]

Tables      == [refs : [Handles -> Nat], retired : SUBSET Handles, open : SUBSET Handles]
JobStates   == [st : {"idle", "run", "result"}, kind : Kinds, h : Handles,
                ids : SUBSET Contacts, again : BOOLEAN]
ChainStates == [st : {"none", "run", "result"}, h : Handles, safe : BOOLEAN]

TypeOK ==
    /\ cur \in Handles
    /\ book \in [Handles -> Books]
    /\ used \subseteq Handles
    /\ table \in Tables
    /\ job \in [Jobs -> JobStates]
    /\ chain \in [Keys -> ChainStates]
    /\ queued \subseteq Keys
    /\ acts \in 0..MaxActs

-----------------------------------------------------------------------------
(* dbHolders: what one critical section does to the table.                 *)

\* Mutant: the count goes down instead of up.
AcquireDown(t, h, n) == [t EXCEPT !.refs[h] = @ - n]

\* KeepDBAlive, n times.
Acquire(t, h, n) == [t EXCEPT !.refs[h] = @ + n]

\* Mutant: the last release forgets that the handle was retired.
ReleaseForgets(t, h) ==
    IF t.refs[h] > 1
    THEN [t EXCEPT !.refs[h] = @ - 1]
    ELSE [t EXCEPT !.refs[h] = 0, !.retired = @ \ {h}]

\* The release function: the last one removes the holder and closes a retired
\* handle.
Release(t, h) ==
    IF t.refs[h] > 1
    THEN [t EXCEPT !.refs[h] = @ - 1]
    ELSE [t EXCEPT !.refs[h] = 0, !.retired = @ \ {h}, !.open = @ \ (t.retired \cap {h})]

\* Mutant: a held handle is replaced without being retired.
RetireForgets(t, h) == IF t.refs[h] > 0 THEN t ELSE [t EXCEPT !.open = @ \ {h}]

\* Mutant: the replaced handle is closed under its users.
RetireAtOnce(t, h) ==
    IF t.refs[h] > 0 THEN [t EXCEPT !.retired = @ \cup {h}, !.open = @ \ {h}]
                     ELSE [t EXCEPT !.open = @ \ {h}]

\* retireDB: a handle nobody holds is closed at once.
Retire(t, h) ==
    IF t.refs[h] > 0 THEN [t EXCEPT !.retired = @ \cup {h}]
                     ELSE [t EXCEPT !.open = @ \ {h}]

-----------------------------------------------------------------------------
Init ==
    /\ cur \in Handles
    /\ book \in [Handles -> Books]
    /\ used = {cur}
    /\ table = [refs |-> [h \in Handles |-> 0], retired |-> {}, open |-> {cur}]
    /\ job = [j \in Jobs |-> NoJob(cur)]
    /\ chain = [k \in Keys |-> NoChain(cur)]
    /\ queued = {}
    /\ acts = 0

\* SwitchLogbook: the replacement is opened first, and only then is the old
\* handle retired.
SwitchLogbook ==
    /\ \E h \in Handles \ used :
          /\ used' = used \cup {h}
          /\ cur' = h
          /\ table' = Retire([table EXCEPT !.open = @ \cup {h}], cur)
    /\ UNCHANGED <<book, job, chain, queued, acts>>

\* An operation starts on the owner loop, against the current logbook.
StartJob(j, kind) ==
    /\ acts < MaxActs /\ acts' = acts + 1
    /\ job[j].st = "idle"
    /\ job' = [job EXCEPT ![j] = [NoJob(cur) EXCEPT !.st = "run", !.kind = kind]]
    /\ table' = Acquire(table, cur, 1)
    /\ UNCHANGED <<cur, book, used, chain, queued>>

\* A worker that returns no follow-up releases by itself.
ScanEnds(j) ==
    /\ job[j].st = "run" /\ job[j].kind = "scan"
    /\ job' = [job EXCEPT ![j] = NoJob(job[j].h)]
    /\ table' = Release(table, job[j].h)
    /\ UNCHANGED <<cur, book, used, chain, queued, acts>>

\* An upload ends with the contacts edited meanwhile, a retry with the pending
\* ones; the lease travels with the result.
WorkerEnds(j) ==
    /\ job[j].st = "run" /\ job[j].kind # "scan"
    /\ \E ids \in SUBSET Contacts :
          job' = [job EXCEPT ![j].st = "result", ![j].ids = ids]
    /\ UNCHANGED <<cur, book, used, table, chain, queued, acts>>

Key(h, c)  == <<book[h], c>>
NewChains(h, ids) == {c \in ids : chain[Key(h, c)].st = "none"}

Started(h, new, safe) ==
    [k \in Keys |-> IF \E c \in new : k = Key(h, c)
                    THEN [st |-> "run", h |-> h, safe |-> safe]
                    ELSE chain[k]]

\* No follow-up: the result's lease is released.  A failed id attach keeps it
\* for the one retry (retryIDAttachCmd).
NothingToDo(j) ==
    /\ job[j].st = "result" /\ job[j].ids = {}
    /\ \/ /\ job' = [job EXCEPT ![j] = NoJob(job[j].h)]
          /\ table' = Release(table, job[j].h)
       \/ /\ job[j].kind = "upload"
          /\ ~job[j].again
          /\ job' = [job EXCEPT ![j].st = "run", ![j].again = TRUE]
          /\ UNCHANGED table
    /\ UNCHANGED <<cur, book, used, chain, queued, acts>>

\* handleEditorUploadCompletion: the first contact of the list is handed the
\* lease, the others acquire their own.  A contact whose chain is running
\* already has a follow-up queued and gives the lease back at once.
UploadResult(j, first) ==
    /\ job[j].st = "result" /\ job[j].kind = "upload" /\ first \in job[j].ids
    /\ LET h   == job[j].h
           new == NewChains(h, job[j].ids)
           t   == IF first \in new THEN table ELSE Release(table, h) IN
       /\ chain' = Started(h, new, h \in t.open)
       /\ table' = Acquire(t, h, Cardinality(new \ {first}))
       /\ queued' = queued \cup {Key(h, c) : c \in job[j].ids \ new}
       /\ job' = [job EXCEPT ![j] = NoJob(h)]
    /\ UNCHANGED <<cur, book, used, acts>>

\* queuePendingSyncPatches: contacts with a running chain are skipped; the
\* lease goes to the first contact of the list, or is released at the end.
RetryResult(j, first) ==
    /\ job[j].st = "result" /\ job[j].kind = "retry" /\ first \in job[j].ids
    /\ LET h   == job[j].h
           new == NewChains(h, job[j].ids)
           t   == Acquire(table, h, Cardinality(new \ {first})) IN
       /\ chain' = Started(h, new, h \in table.open)
       /\ table' = IF first \in new THEN t ELSE Release(t, h)
       /\ job' = [job EXCEPT ![j] = NoJob(h)]
    /\ UNCHANGED <<cur, book, used, queued, acts>>

\* doSave of a linked contact: start a chain with its own lease, or queue.
Save(c) ==
    /\ acts < MaxActs /\ acts' = acts + 1
    /\ LET k == Key(cur, c) IN
       \/ /\ chain[k].st = "none"
          /\ chain' = [chain EXCEPT ![k] = [st |-> "run", h |-> cur, safe |-> TRUE]]
          /\ table' = Acquire(table, cur, 1)
          /\ UNCHANGED queued
       \/ /\ chain[k].st # "none"
          /\ queued' = queued \cup {k}
          /\ UNCHANGED <<chain, table>>
    /\ UNCHANGED <<cur, book, used, job>>

PatchEnds(k) ==
    /\ chain[k].st = "run"
    /\ chain' = [chain EXCEPT ![k].st = "result"]
    /\ UNCHANGED <<cur, book, used, table, job, queued, acts>>

\* Mutant: the follow-up acquires a lease beside the one it inherits.
FollowUpLeasesTwice(k) ==
    /\ chain[k].st = "result"
    /\ \/ /\ k \in queued
          /\ queued' = queued \ {k}
          /\ chain' = [chain EXCEPT ![k].st = "run"]
          /\ table' = Acquire(table, chain[k].h, 1)
       \/ /\ k \notin queued
          /\ chain' = [chain EXCEPT ![k] = NoChain(chain[k].h)]
          /\ table' = Release(table, chain[k].h)
          /\ UNCHANGED queued
    /\ UNCHANGED <<cur, book, used, job, acts>>

\* handleQSOSyncCompletion: the follow-up inherits the lease; a drained chain
\* releases it.
PatchResult(k) ==
    /\ chain[k].st = "result"
    /\ \/ /\ k \in queued
          /\ queued' = queued \ {k}
          /\ chain' = [chain EXCEPT ![k].st = "run"]
          /\ UNCHANGED table
       \/ /\ k \notin queued
          /\ chain' = [chain EXCEPT ![k] = NoChain(chain[k].h)]
          /\ table' = Release(table, chain[k].h)
          /\ UNCHANGED queued
    /\ UNCHANGED <<cur, book, used, job, acts>>

JobStep(j) ==
    \/ ScanEnds(j) \/ WorkerEnds(j) \/ NothingToDo(j)
    \/ \E c \in Contacts : UploadResult(j, c) \/ RetryResult(j, c)

Next ==
    \/ SwitchLogbook
    \/ \E j \in Jobs : JobStep(j) \/ (\E kind \in Kinds : StartJob(j, kind))
    \/ \E c \in Contacts : Save(c)
    \/ \E k \in Keys : PatchEnds(k) \/ PatchResult(k)

Spec == Init /\ [][Next]_vars

\* Workers end (every request has a timeout) and the runtime delivers every
\* result to the owner loop.  The operator owes nothing.
Fairness ==
    /\ \A j \in Jobs : WF_vars(JobStep(j))
    /\ \A k \in Keys : WF_vars(PatchEnds(k) \/ PatchResult(k))

FairSpec == Spec /\ Fairness

-----------------------------------------------------------------------------
JobsOn(h)   == {j \in Jobs : job[j].st # "idle" /\ job[j].h = h}
ChainsOn(h) == {k \in Keys : chain[k].st # "none" /\ chain[k].h = h}

\* The count of a handle is the number of its users: however a lease is handed
\* from an upload to a chain and along its follow-ups, it is released exactly
\* once, by the last of them.
RefsAreLeases ==
    \A h \in Handles : table.refs[h] = Cardinality(JobsOn(h)) + Cardinality(ChainsOn(h))

\* No handle leaks: one that was replaced and is still open is retired and held,
\* so that the last release will close it; the current one is never closed.
OpenIsHeld ==
    /\ table.open = {cur} \cup table.retired
    /\ cur \notin table.retired
    /\ \A h \in table.retired : table.refs[h] > 0

\* A worker never uses a closed database.  The exception is a chain that got a
\* lease on a handle already closed (see LaterLeasesAreOpen).
UsersHaveOpenDB ==
    /\ \A j \in Jobs : job[j].st # "idle" => job[j].h \in table.open
    /\ \A k \in Keys : chain[k].st # "none" /\ chain[k].safe => chain[k].h \in table.open

\* A replaced database is closed once the operator lets the work on it end.
ReplacedIsClosed ==
    \A h \in Handles : h \in used /\ h # cur ~> h \notin table.open

\* "later ones acquire their own now that the database is guaranteed open"
\* (handleEditorUploadCompletion, tui/logbook_editor_sync.go).
LaterLeasesAreOpen == \A k \in Keys : chain[k].st # "none" => chain[k].h \in table.open

-----------------------------------------------------------------------------
\* For TLC: nothing distinguishes two handles, contacts, logbooks or jobs.
Symmetry == Permutations(Handles) \cup Permutations(Contacts)
                \cup Permutations(Books) \cup Permutations(Jobs)
=============================================================================
