------------------------------ MODULE Download ------------------------------
(***************************************************************************)
(* How a Wavelog download and an ADIF import bring contacts into the local *)
(* logbook, and what the cursor and the sync marker promise afterwards.    *)
(*                                                                         *)
(* A download fetches the export page by page from a cursor, then the      *)
(* complete list of remote ids, and then walks the records in ascending    *)
(* order.  Writes are batched in transactions; a failed statement or       *)
(* commit loses the chunk.  The worker keeps a checkpoint, the id up to    *)
(* which every record is durably handled, and hands it to the owner loop,  *)
(* which stores it in the configuration as the next cursor.  A clean pass  *)
(* also sets the marker by which the worked panel trusts a miss as NEW.    *)
(* An import walks a local file through the same chunks, with no cursor.   *)
(*                                                                         *)
(* A record of the server is its id; its key is the identity (call, band,  *)
(* mode, date, time) that links it to a local row.  A row is the remote id *)
(* it carries.                                                             *)
(***************************************************************************)
EXTENDS Integers, FiniteSets

CONSTANTS
    Keys,           \* identities of contacts
    InvalidKeys,    \* ValidateImportRecord refuses the record
    UnmatchedKeys,  \* the ADIF record and the list spell the identity differently
    LocalKeys,      \* contacts the operator logs here as well
    ChunkSize,      \* bulkImportChunkSize
    Features,       \* what happens besides downloads, a subset of AllFeatures
    Faults,         \* what may go wrong, a subset of AllFaults
    MaxId,          \* bound: records the server ever holds
    MaxDeleted,     \* bound: of them deleted on the server
    MaxFile,        \* bound: records of an imported file
    MaxOps,         \* bound: downloads and imports
    MaxPurges       \* bound: purges

AllFeatures == {"import", "purge", "duplicates"}

AllFaults == {"fetch", "list", "begin", "commit", "row", "scan", "mark", "abort", "crash"}

ASSUME DownloadAssumption ==
    /\ InvalidKeys \subseteq Keys /\ UnmatchedKeys \subseteq Keys
    /\ LocalKeys \subseteq Keys /\ Keys # {}
    /\ IsFiniteSet(Keys)
    /\ Features \subseteq AllFeatures /\ Faults \subseteq AllFaults
    /\ ChunkSize \in Nat \ {0} /\ MaxId \in Nat /\ MaxDeleted \in Nat /\ MaxFile \in 0..MaxId /\ MaxOps \in Nat /\ MaxPurges \in Nat

Ids   == 1..MaxId
NoRow == -1                \* no local row with this key
None  == -1                \* checkpointOK = FALSE
Rows  == {NoRow} \cup (0..MaxId)

VARIABLES
    key,      \* the identity of each record the server has handed out
    next,     \* the last id it has handed out
    live,     \* the records it holds now
    local,    \* the committed rows: no row, unlinked (0), or the remote id
    cursor,   \* Wavelog.LastFetchedID of the logbook's configuration
    known,    \* the editor's copy of it, the start of the next download
    marker,   \* last_remote_sync is set
    op,       \* the running download or import
    tx,       \* what its open transaction has written
    purge,    \* the running purge, and whether its editor is still shown
    ops,      \* downloads and imports started
    \* History, used by the properties only:
    handled,  \* records committed and linked since the last purge
    batch,    \* records the open transaction handles
    stored,   \* rows this operation has added and committed
    markedTo, \* how far the pass that set the marker went
    cleared,  \* the log was purged since the marker was set
    overlap   \* a purge met a download, a new editor or a crash

serverVars == <<key, next, live>>
fileVars   == <<local, handled, stored>>
histVars   == <<markedTo, cleared, overlap>>
vars == <<key, next, live, local, cursor, known, marker, op, tx, purge, ops,
          handled, batch, stored, markedTo, cleared, overlap>>

May(x)  == x \in Faults
Uses(x) == x \in Features

NoWrites == [k \in Keys |-> NoRow]
AnyKey   == CHOOSE k \in Keys : TRUE
Idle == [kind |-> "none", st |-> "idle", from |-> 0, last |-> 0, todo |-> {},
         file |-> [r \in Ids |-> AnyKey], ids |-> [k \in Keys |-> 0],
         open |-> FALSE, writes |-> 0, ckpt |-> None, safe |-> None,
         frozen |-> FALSE, gap |-> FALSE, cut |-> FALSE, down |-> FALSE, stop |-> FALSE,
         ins |-> 0, cins |-> 0, dup |-> 0, bad |-> 0, size |-> 0, res |-> "none"]

States == {"idle", "pages", "list", "scan", "final", "mark", "sent"}
Ops == [kind : {"none", "download", "import"}, st : States,
        from : 0..MaxId, last : 0..MaxId, todo : SUBSET Ids,
        file : [Ids -> Keys], ids : [Keys -> 0..MaxId],
        open : BOOLEAN, writes : 0..ChunkSize,
        ckpt : {None} \cup Ids, safe : {None} \cup Ids,
        frozen : BOOLEAN, gap : BOOLEAN, cut : BOOLEAN, down : BOOLEAN, stop : BOOLEAN,
        ins : Int, cins : Nat, dup : Nat, bad : Nat, size : Nat,
        res : {"none", "done", "aborted", "error"}]

TypeOK ==
    /\ key \in [Ids -> Keys] /\ next \in 0..MaxId /\ live \subseteq 1..next
    /\ local \in [Keys -> Rows] /\ tx \in [Keys -> Rows]
    /\ cursor \in 0..MaxId /\ known \in 0..MaxId /\ marker \in BOOLEAN
    /\ op \in Ops
    /\ purge \in [st : {"idle", "running", "done"}, own : BOOLEAN, n : 0..MaxPurges]
    /\ ops \in 0..MaxOps
    /\ handled \subseteq Ids /\ batch \subseteq Ids /\ stored \in Nat
    /\ markedTo \in 0..MaxId /\ cleared \in BOOLEAN /\ overlap \in BOOLEAN

Init ==
    /\ key = [r \in Ids |-> AnyKey] /\ next = 0 /\ live = {}
    /\ local = NoWrites /\ tx = NoWrites
    /\ cursor = 0 /\ known = 0 /\ marker = FALSE
    /\ op = Idle /\ ops = 0
    /\ purge = [st |-> "idle", own |-> TRUE, n |-> 0]
    /\ handled = {} /\ batch = {} /\ stored = 0
    /\ markedTo = 0 /\ cleared = FALSE /\ overlap = FALSE

-----------------------------------------------------------------------------
(* The server and the operator.                                            *)

\* Another station logs a contact on the server.
RemoteLog(k) ==
    /\ next < MaxId
    /\ Uses("duplicates") \/ \A r \in 1..next : key[r] # k
    /\ next' = next + 1
    /\ key' = [key EXCEPT ![next + 1] = k]
    /\ live' = live \cup {next + 1}
    /\ UNCHANGED <<fileVars, cursor, known, marker, op, tx, purge, ops, batch, histVars>>

RemoteDelete(r) ==
    /\ r \in live /\ next - Cardinality(live) < MaxDeleted
    /\ live' = live \ {r}
    /\ UNCHANGED <<key, next, fileVars, cursor, known, marker, op, tx, purge, ops, batch, histVars>>

\* The operator logs the same contact here.  A transaction that has written
\* holds the database lock.
LocalLog(k) ==
    /\ k \in LocalKeys /\ local[k] = NoRow /\ tx = NoWrites
    /\ local' = [local EXCEPT ![k] = 0]
    /\ UNCHANGED <<serverVars, cursor, known, marker, op, tx, purge, ops,
                   handled, batch, stored, histVars>>

\* F8 builds a new editor, which reads the cursor of the configuration; the
\* key is blocked while an operation runs.
OpenEditor ==
    /\ op.st = "idle"
    /\ known' = cursor
    /\ purge' = [purge EXCEPT !.own = @ /\ purge.st = "idle"]
    /\ overlap' = (overlap \/ purge.st # "idle")
    /\ UNCHANGED <<serverVars, fileVars, cursor, marker, op, tx, ops, batch, markedTo, cleared>>

\* Escape or Enter in the progress dialog.
Abort ==
    /\ May("abort") /\ op.st \in {"pages", "list", "scan"} /\ ~op.stop
    /\ op' = [op EXCEPT !.stop = TRUE]
    /\ UNCHANGED <<serverVars, fileVars, cursor, known, marker, tx, purge, ops, batch, histVars>>

-----------------------------------------------------------------------------
(* Purge: the cursor is reset when the result reaches the owner loop.      *)

ConfirmPurge ==
    /\ Uses("purge") /\ purge.st = "idle" /\ op.st = "idle" /\ purge.n < MaxPurges
    /\ purge' = [st |-> "running", own |-> TRUE, n |-> purge.n + 1]
    /\ known' = 0
    /\ UNCHANGED <<serverVars, fileVars, cursor, marker, op, tx, ops, batch, histVars>>

\* PurgeQSOs: one transaction, which may fail.
RunPurge ==
    /\ purge.st = "running" /\ tx = NoWrites
    /\ purge' = [purge EXCEPT !.st = "done"]
    /\ \/ /\ local' = NoWrites
          /\ handled' = {}
          /\ cleared' = TRUE
       \/ May("commit") /\ UNCHANGED <<local, handled, cleared>>
    /\ UNCHANGED <<serverVars, cursor, known, marker, op, tx, ops, batch, stored,
                   markedTo, overlap>>

PurgeDone ==
    /\ purge.st = "done"
    /\ cursor' = 0
    /\ known' = IF purge.own THEN 0 ELSE known
    /\ purge' = [purge EXCEPT !.st = "idle", !.own = TRUE]
    /\ UNCHANGED <<serverVars, fileVars, marker, op, tx, ops, batch, histVars>>

-----------------------------------------------------------------------------
(* Fetching (FetchContactsProgressCtx).                                    *)

\* How an operation ends: its one terminal message waits for the owner loop.
Sent(o, res, last) ==
    [Idle EXCEPT !.kind = o.kind, !.st = "sent", !.res = res, !.last = last,
                 !.ins = o.ins, !.dup = o.dup, !.bad = o.bad, !.size = o.size]

OnlyOp == UNCHANGED <<serverVars, cursor, known, marker, purge, ops, histVars>>

StartDownload ==
    /\ op.st = "idle" /\ ops < MaxOps
    /\ ops' = ops + 1
    /\ op' = [Idle EXCEPT !.kind = "download", !.st = "pages", !.from = known, !.last = known]
    /\ stored' = 0
    /\ overlap' = (overlap \/ purge.st = "running")
    /\ UNCHANGED <<serverVars, local, cursor, known, marker, tx, purge,
                   handled, batch, markedTo, cleared>>

\* A page is the next records in ascending order; its size is the server's.
FetchPage ==
    /\ op.st = "pages" /\ ~op.stop
    /\ LET new == {r \in live : r > op.last} IN
       \/ /\ new = {} /\ op.todo = {}
          /\ op' = Sent(op, "done", op.last)
       \/ /\ new = {} /\ op.todo # {}
          /\ op' = [op EXCEPT !.st = "list"]
       \/ \E last \in new :
             op' = [op EXCEPT !.todo = @ \cup {r \in new : r <= last}, !.last = last,
                              !.st = IF \A r \in new : r <= last THEN "list" ELSE "pages"]
    /\ OnlyOp /\ UNCHANGED <<fileVars, tx, batch>>

FetchFails ==
    /\ op.st = "pages" /\ (op.stop \/ May("fetch"))
    /\ op' = Sent(op, IF op.stop THEN "aborted" ELSE "error", op.last)
    /\ OnlyOp /\ UNCHANGED <<fileVars, tx, batch>>

\* The id of an identity in the complete list, the newest if there are several.
IdOf(k) ==
    LET newest == {r \in live : key[r] = k /\ \A s \in live : key[s] = k => s <= r} IN
    IF k \in UnmatchedKeys \/ newest = {} THEN 0 ELSE CHOOSE r \in newest : TRUE

\* fetchAllQSOIDsCtx; without the list no record learns its id.
FetchIds ==
    /\ op.st = "list"
    /\ \/ ~op.stop /\ op' = [op EXCEPT !.st = "scan", !.ids = [k \in Keys |-> IdOf(k)]]
       \/ (op.stop \/ May("list")) /\ op' = [op EXCEPT !.st = "scan"]
    /\ OnlyOp /\ UNCHANGED <<fileVars, tx, batch>>

\* runImport: any file of records; the positions in it take the place of ids.
StartImport ==
    /\ Uses("import") /\ op.st = "idle" /\ ops < MaxOps
    /\ ops' = ops + 1
    /\ \E n \in 1..MaxFile, file \in [1..MaxFile -> Keys] :
          op' = [Idle EXCEPT !.kind = "import", !.st = "scan", !.todo = 1..n,
                             !.size = n,
                             !.file = [r \in Ids |-> IF r <= n THEN file[r] ELSE AnyKey]]
    /\ stored' = 0
    /\ overlap' = (overlap \/ purge.st = "running")
    /\ UNCHANGED <<serverVars, local, cursor, known, marker, tx, purge,
                   handled, batch, markedTo, cleared>>

-----------------------------------------------------------------------------
(* Chunks.                                                                 *)

\* What a statement of the open transaction sees: its own writes first.
Row(k) == IF tx[k] # NoRow THEN tx[k] ELSE local[k]

\* Mutant: the checkpoint of a lost chunk is kept.
DiscardedKeepsCheckpoint(o) ==
    [o EXCEPT !.open = FALSE, !.ins = o.ins - o.cins, !.cins = 0, !.writes = 0]

\* Mutant: the rows of a lost chunk stay counted.
DiscardedKeepsCount(o) ==
    [o EXCEPT !.open = FALSE, !.ckpt = o.safe, !.cins = 0, !.writes = 0]

\* discardChunk, and commitChunk when the commit fails: the checkpoint and the
\* count go back to the last commit.
Discarded(o) ==
    [o EXCEPT !.open = FALSE, !.ckpt = o.safe, !.ins = o.ins - o.cins, !.cins = 0, !.writes = 0]

\* commitChunk: what the chunk reached is safe.
Committed(o) ==
    [o EXCEPT !.open = FALSE, !.safe = IF o.ckpt # None THEN o.ckpt ELSE @,
              !.cins = 0, !.writes = 0]

CommitTx ==
    /\ local' = [k \in Keys |-> Row(k)]
    /\ handled' = handled \cup batch
    /\ stored' = stored + Cardinality({k \in Keys : tx[k] # NoRow /\ local[k] = NoRow})
    /\ tx' = NoWrites /\ batch' = {}

RollbackTx ==
    /\ tx' = NoWrites /\ batch' = {}
    /\ UNCHANGED fileVars

Full == op.writes >= ChunkSize

\* A full chunk is committed before the next record.  When that fails the
\* download freezes its checkpoint; the import goes on.
CommitFull ==
    /\ op.st = "scan" /\ ~op.stop /\ op.todo # {} /\ Full
    /\ \/ op' = Committed(op) /\ CommitTx
       \/ /\ May("commit")
          /\ op' = [Discarded(op) EXCEPT !.frozen = TRUE]
          /\ RollbackTx
    /\ OnlyOp

\* The transaction cannot be opened: the scan ends.
BeginFails ==
    /\ May("begin")
    /\ op.st = "scan" /\ ~op.stop /\ op.todo # {} /\ ~op.open
    /\ op' = [op EXCEPT !.st = "final", !.frozen = TRUE, !.down = TRUE,
                        !.bad = IF op.kind = "import" THEN @ + 1 ELSE @]
    /\ OnlyOp /\ UNCHANGED <<fileVars, tx, batch>>

-----------------------------------------------------------------------------
(* Records (the loops of runDownload and runImport).                       *)

KeyOf(r)    == IF op.kind = "import" THEN op.file[r] ELSE key[r]
Pulling     == op.kind = "download"
Taken(o, r) == [o EXCEPT !.todo = @ \ {r}, !.open = TRUE]

\* The next record; the transaction is open.
Record(r) ==
    /\ op.st = "scan" /\ ~op.stop /\ ~Full
    /\ r \in op.todo /\ \A s \in op.todo : r <= s

\* Mutant: a record without a remote id moves the checkpoint too.
PassedUnknown(o, id) ==
    [o EXCEPT !.ckpt = IF ~o.frozen /\ ~o.gap THEN id ELSE @]

\* The checkpoint passes a handled record while nothing before it failed.
Passed(o, id) ==
    [o EXCEPT !.ckpt = IF id > 0 /\ ~o.frozen /\ ~o.gap THEN id ELSE @]

SkipInvalid(r) ==
    /\ Record(r) /\ KeyOf(r) \in InvalidKeys
    /\ op' = [Passed(Taken(op, r), op.ids[KeyOf(r)]) EXCEPT !.bad = @ + 1]
    /\ OnlyOp /\ UNCHANGED <<fileVars, tx, batch>>

\* A download learns the remote id of a row it has, if it knows one.
LinkRow(r) ==
    /\ Record(r) /\ Pulling
    /\ LET k == KeyOf(r)
           id == op.ids[KeyOf(r)] IN
       /\ k \notin InvalidKeys /\ Row(k) # NoRow
       /\ \/ /\ id > 0
             /\ op' = Passed([Taken(op, r) EXCEPT !.writes = @ + 1], id)
             /\ tx' = [tx EXCEPT ![k] = id]
             /\ batch' = batch \cup {r}
             /\ UNCHANGED fileVars
          \/ /\ id > 0 /\ May("row")
             /\ op' = [Discarded(Taken(op, r)) EXCEPT !.gap = TRUE]
             /\ RollbackTx
          \/ /\ id = 0
             /\ op' = [Taken(op, r) EXCEPT !.gap = TRUE]
             /\ UNCHANGED <<fileVars, tx, batch>>
    /\ OnlyOp

SkipDuplicate(r) ==
    /\ Record(r) /\ ~Pulling
    /\ KeyOf(r) \notin InvalidKeys /\ Row(KeyOf(r)) # NoRow
    /\ op' = [Taken(op, r) EXCEPT !.dup = @ + 1]
    /\ OnlyOp /\ UNCHANGED <<fileVars, tx, batch>>

InsertRow(r) ==
    /\ Record(r)
    /\ LET k == KeyOf(r)
           id == IF Pulling THEN op.ids[KeyOf(r)] ELSE 0
           o == [Taken(op, r) EXCEPT !.writes = @ + 1, !.ins = @ + 1, !.cins = @ + 1] IN
       /\ k \notin InvalidKeys /\ Row(k) = NoRow
       /\ op' = [Passed(o, id) EXCEPT !.gap = @ \/ (Pulling /\ id = 0)]
       /\ tx' = [tx EXCEPT ![k] = id]
       /\ batch' = IF id > 0 THEN batch \cup {r} ELSE batch
    /\ OnlyOp /\ UNCHANGED fileVars

InsertFails(r) ==
    /\ May("row") /\ Record(r)
    /\ KeyOf(r) \notin InvalidKeys /\ Row(KeyOf(r)) = NoRow
    /\ op' = [Discarded(Taken(op, r)) EXCEPT !.frozen = TRUE, !.bad = @ + 1]
    /\ RollbackTx
    /\ OnlyOp

\* The abort is seen between two records: the open chunk is still committed.
StopScan ==
    /\ op.st = "scan" /\ op.stop /\ op.todo # {}
    /\ \/ op' = Sent(Committed(op), "aborted", op.last) /\ CommitTx
       \/ /\ May("commit") /\ op.open
          /\ op' = Sent(Discarded(op), "aborted", op.last)
          /\ RollbackTx
    /\ OnlyOp

\* The file ends, or cannot be read further.
EndScan ==
    /\ op.st = "scan"
    /\ \/ op.todo = {} /\ op' = [op EXCEPT !.st = "final"]
       \/ /\ May("scan") /\ op.todo # {}
          /\ op' = [op EXCEPT !.st = "final", !.cut = TRUE]
    /\ OnlyOp /\ UNCHANGED <<fileVars, tx, batch>>

Clean(o) == ~o.cut /\ ~o.frozen /\ ~o.gap

\* Mutant: with no checkpoint an unclean pass starts over.
LastIDRestarts(o) == IF o.ckpt # None THEN o.ckpt ELSE IF Clean(o) THEN o.last ELSE 0

\* The next cursor: the checkpoint, or without one the end of a clean export
\* and the start of any other.
LastID(o) == IF o.ckpt # None THEN o.ckpt ELSE IF Clean(o) THEN o.last ELSE o.from

\* How the worker ends once its last chunk is settled.
Result(o) ==
    IF o.kind = "download" /\ Clean(o)
    THEN [o EXCEPT !.st = "mark", !.last = LastID(o)]
    ELSE Sent(o, IF o.down \/ (o.kind = "import" /\ o.cut) THEN "error" ELSE "done", LastID(o))

\* Mutant: a pass with an unresolved record counts as clean.
FinishGapIsClean ==
    /\ op.st = "final"
    /\ \/ op' = Result([Committed(op) EXCEPT !.gap = FALSE]) /\ CommitTx
       \/ /\ May("commit") /\ op.open
          /\ op' = Result([Discarded(op) EXCEPT !.frozen = TRUE])
          /\ RollbackTx
    /\ OnlyOp

Finish ==
    /\ op.st = "final"
    /\ \/ op' = Result(Committed(op)) /\ CommitTx
       \/ /\ May("commit") /\ op.open
          /\ op' = Result([Discarded(op) EXCEPT !.frozen = TRUE])
          /\ RollbackTx
    /\ OnlyOp

\* MarkRemoteSync; a failure is only logged.
Mark ==
    /\ op.st = "mark"
    /\ op' = Sent(op, "done", op.last)
    /\ \/ marker' = TRUE /\ markedTo' = op.last /\ cleared' = FALSE
       \/ May("mark") /\ UNCHANGED <<marker, markedTo, cleared>>
    /\ UNCHANGED <<serverVars, fileVars, cursor, known, tx, purge, ops, batch, overlap>>

\* The terminal message on the owner loop: persistEditorLogbookCursor and
\* handleEditorSideEffects.
Deliver ==
    /\ op.st = "sent"
    /\ IF Pulling /\ op.res = "done"
       THEN cursor' = op.last /\ known' = op.last
       ELSE UNCHANGED <<cursor, known>>
    /\ op' = Idle
    /\ UNCHANGED <<serverVars, fileVars, marker, tx, purge, ops, batch, histVars>>

\* The program dies: the database, the marker and the configuration remain.
Crash ==
    /\ May("crash")
    /\ op' = Idle /\ tx' = NoWrites /\ batch' = {}
    /\ purge' = [purge EXCEPT !.st = "idle", !.own = TRUE]
    /\ known' = cursor
    /\ overlap' = (overlap \/ purge.st = "done")
    /\ UNCHANGED <<serverVars, fileVars, cursor, marker, ops, markedTo, cleared>>

-----------------------------------------------------------------------------
Step(r) ==
    \/ SkipInvalid(r) \/ LinkRow(r) \/ SkipDuplicate(r) \/ InsertRow(r) \/ InsertFails(r)
    \/ RemoteDelete(r)

Worker ==
    \/ FetchPage \/ FetchFails \/ FetchIds \/ CommitFull \/ BeginFails
    \/ StopScan \/ EndScan \/ Finish \/ Mark

Next ==
    \/ \E k \in Keys : RemoteLog(k) \/ LocalLog(k)
    \/ \E r \in Ids : Step(r)
    \/ Worker \/ Deliver
    \/ StartDownload \/ StartImport \/ Abort \/ OpenEditor
    \/ ConfirmPurge \/ RunPurge \/ PurgeDone \/ Crash

Spec == Init /\ [][Next]_vars

-----------------------------------------------------------------------------
(* Properties.                                                             *)

\* Every contact the server holds up to this id is here and linked, or will
\* never be accepted.
Handled(upTo) ==
    \A r \in live : r <= upTo =>
        \/ key[r] \in InvalidKeys
        \/ \E s \in handled : key[s] = key[r]

\* The cursor never passes a record that was not durably handled, whatever
\* fails in the middle of a chunk: the next incremental download would never
\* fetch it again.  A purge that meets a download, a new editor or a crash is
\* excluded (see the README), and the moment between a purge and its message.
NothingSkipped == ~overlap /\ purge.st # "done" => Handled(cursor)

\* A clean pass leaves the marker only over records that are here: "every
\* record up to lastID is now local" (runDownload), until the log is purged.
MarkerTruthful == marker /\ ~cleared /\ ~overlap => Handled(markedTo)

\* The number shown to the operator is the number of rows that were added and
\* committed, although chunks are lost and the abort commits a partial one.
HonestCount == op.st = "sent" => op.ins = stored

\* Only a purge takes the cursor back: a failed pass costs a repetition of
\* itself, never of the whole log.
CursorNeverBack ==
    [][cursor' >= cursor \/ purge.st # "idle" \/ overlap]_vars

-----------------------------------------------------------------------------
(* The inductive invariant behind them.                                    *)

\* As Handled, counting what the open transaction will handle if it commits.
HandledWith(upTo, written) ==
    \A r \in live : r <= upTo =>
        \/ key[r] \in InvalidKeys
        \/ \E s \in handled \cup written : key[s] = key[r]

Fetching == op.kind = "download" /\ op.st \in {"pages", "list", "scan", "final"}

Bounded ==
    /\ handled \subseteq 1..next /\ batch \subseteq 1..next
    /\ cursor <= next /\ known <= next /\ markedTo <= next
    /\ op.kind = "download" => op.last <= next /\ op.from <= next /\ op.ckpt <= next /\ op.safe <= next
    /\ Fetching => op.todo \subseteq 1..op.last

\* One id per identity, and the list of ids says so.
Unique ==
    /\ \A r, s \in 1..next : key[r] = key[s] => r = s
    /\ \A k \in Keys : op.ids[k] # 0 => op.ids[k] <= next /\ key[op.ids[k]] = k

\* Nothing is open when nothing runs, and a purge runs alone.
Quiet ==
    /\ op.st = "idle" => op.kind = "none"
    /\ op.st \in {"idle", "pages", "list", "mark", "sent"} \/ op.kind # "download" => batch = {}
    /\ op.st \in {"pages", "list"} => op.ckpt = None /\ op.safe = None /\ ~op.frozen /\ ~op.gap
    /\ op.st = "mark" => op.kind = "download"
    /\ purge.st = "running" /\ ~overlap => known = 0 /\ op.st = "idle"

\* What each part of a download has reached.
Progress ==
    Fetching =>
        /\ Handled(op.from)
        /\ op.safe # None => Handled(op.safe)
        /\ op.ckpt # None => HandledWith(op.ckpt, batch)
        /\ ~op.frozen /\ ~op.gap => \A r \in live : r <= op.last =>
              \/ r \in op.todo \/ key[r] \in InvalidKeys
              \/ \E s \in handled \cup batch : key[s] = key[r]
        /\ op.st = "final" /\ Clean(op) => op.todo = {}

Reached ==
    /\ Handled(known)
    /\ purge.st # "done" => Handled(cursor)
    /\ marker /\ ~cleared => Handled(markedTo)
    /\ Progress
    /\ op.kind = "download" /\ (op.st = "mark" \/ (op.st = "sent" /\ op.res = "done")) => Handled(op.last)

IInv == Bounded /\ Unique /\ Quiet /\ (~overlap => Reached)

-----------------------------------------------------------------------------
(* What comments of the code say and its behaviour does not bear out.      *)

\* "A missing aggregate only proves "new" when the local data covers everything
\* that could contain a contact; otherwise the honest answer is UNKNOWN"
\* (LogCoverage): while the marker is set, what it was set over is here.
MissesAreTrusted == marker /\ purge.st = "idle" /\ ~overlap => Handled(markedTo)

\* "the cursor may only advance through records that were durably handled ...
\* failed contacts are never skipped past" (runDownload).
NeverSkippedPast == Handled(cursor)

\* "the import must never end on a success-looking result screen" (runImport):
\* without an error every record of the file is counted.
ImportAccounts ==
    op.st = "sent" /\ op.kind = "import" /\ op.res = "done"
        => op.ins + op.dup + op.bad = op.size
=============================================================================
