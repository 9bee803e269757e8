---------------------------- MODULE WavelogSync ----------------------------
(***************************************************************************)
(* How one local contact and its copy in Wavelog are kept in step.         *)
(*                                                                         *)
(* CQOps logs offline first: the SQLite row is the operator's data, and    *)
(* three kinds of goroutine push it to the server behind the user          *)
(* interface.  An UPLOAD worker creates the remote copy and attaches its   *)
(* id; a PATCH worker pushes an edit of an already linked row; the         *)
(* DOWNLOAD worker learns ids.  The Bubble Tea owner loop starts them and  *)
(* consumes their results one message at a time; it is the only one that   *)
(* touches the per-contact coordinator (inFlight, queued).                 *)
(*                                                                         *)
(* Every action is one database statement or transaction, one exchange     *)
(* with the server, or one message handled by the owner loop.  The data of *)
(* a contact is two fields: the text the operator types, a fresh number    *)
(* per edit, and whether the blanks a callbook can fill are filled.  Edits *)
(* do not touch the fields Wavelog matches duplicates by (call, band,      *)
(* mode, date, time), so a server copy is found by its contact.            *)
(***************************************************************************)
EXTENDS Integers, FiniteSets, TLC

CONSTANTS
    Contacts,       \* rows of one logbook, bound to one Wavelog endpoint
    PatchWorkers,   \* goroutines that can run a PATCH
    UploadWorkers,  \* goroutines that can run an upload
    Features,       \* what the operator uses, a subset of AllFeatures
    Faults,         \* what may go wrong, a subset of AllFaults
    MaxText,        \* bound: distinct texts written by anyone
    MaxIds,         \* bound: remote ids the server hands out per contact
    MaxRev          \* bound: revision up to which a remote refresh may write

AllFeatures == {"auto", "wsjtx", "batch", "match", "download", "enrich", "refresh", "retry"}

AllFaults ==
    { "offline",   \* the operator works offline or without credentials
      "refused",   \* a request fails and the server did not apply it
      "lost",      \* the server applied it and the answer never arrived
      "late",      \* the client gave up and the server applies it afterwards
      "disk",      \* a statement on the local database fails
      "crash",     \* the program dies and is started again
      "remote" }   \* another operator works on the same Wavelog logbook

ASSUME SyncAssumption ==
    /\ Features \subseteq AllFeatures
    /\ Faults \subseteq AllFaults
    /\ MaxText \in Nat /\ MaxIds \in Nat /\ MaxRev \in Nat
    /\ Contacts # {}

Texts == 0..MaxText
Body  == [txt : Texts, enr : BOOLEAN]     \* what buildUpdateInput sends
Blank == [txt |-> 0, enr |-> FALSE]
NoRev == -1        \* "take the revision the row carries when it is read"

VARIABLES
    db,        \* the qsos table: wavelog_id (0 = none), dirty flag, revision, data
    logged,    \* contacts that have a row
    srv,       \* the live remote copy: its id (0 = none), data, pushed revision
    made,      \* ids the server has handed out for a contact
    inFlight,  \* coordinator: contacts with a PATCH chain
    queued,    \* coordinator: contacts whose chain owes a follow-up
    patch,     \* the PATCH workers
    up,        \* the upload workers
    merging,   \* the row a remote refresh has read and not yet written
    listed,    \* ids a pending-sync retry has read, on their way to the loop
    unlinked,  \* contacts whose form still holds the link a PATCH worker took off the row
    page,      \* what a running download has read of each contact
    late,      \* requests the client gave up on, still on their way
    fresh,     \* texts used so far
    \* History, used by the properties and never by a guard of the code:
    seen,      \* texts the server has held, and whether it held filled blanks
    blind,     \* linked without knowing that the server took this revision
    owed       \* why a pending row has nobody pushing it

dbVars    == <<db, logged>>
srvVars   == <<srv, made, seen>>
coordVars == <<inFlight, queued, patch>>
vars == <<db, logged, srv, made, inFlight, queued, patch, up, merging, listed, unlinked,
          page, late, fresh, seen, blind, owed>>

Linked(c) == db[c].wid # 0
Pending   == {c \in Contacts : Linked(c) /\ db[c].dirty}
LoopFree  == merging = {}          \* the owner loop is not inside a handler
May(x)    == x \in Faults
Uses(x)   == x \in Features

IdlePatch == [st |-> "idle", c |-> CHOOSE c \in Contacts : TRUE, wid |-> 0,
              body |-> Blank, rev |-> 0, ack |-> NoRev, res |-> "none"]
IdleUp    == [st |-> "idle", c |-> CHOOSE c \in Contacts : TRUE, kind |-> "auto",
              retried |-> FALSE, body |-> Blank, rev |-> 0, rid |-> 0,
              took |-> FALSE, chg |-> FALSE, res |-> "none"]

PatchStates == {"idle", "read", "wire", "ack", "gone", "clear", "done"}
UpStates    == {"idle", "enrich", "load", "match", "bulk", "post", "import",
                "blind", "lookup", "attach", "check", "done"}
Owed        == {"no", "told", "worker", "skipped", "left"}

Ids     == 0..MaxIds
Rows    == [wid : Ids, dirty : BOOLEAN, rev : Nat, body : Body]
Copies  == [id : Ids, body : Body, rev : Nat]
Patches == [st : PatchStates, c : Contacts, wid : Ids, body : Body, rev : Nat,
            ack : Nat \cup {NoRev}, res : {"none", "ok", "gone", "err", "incomplete"}]
Uploads == [st : UpStates, c : Contacts, kind : {"auto", "wsjtx", "batch"},
            retried : BOOLEAN, body : Body, rev : Nat, rid : Ids,
            took : BOOLEAN, chg : BOOLEAN, res : {"none", "ok", "unresolved", "fail"}]
Merges  == [c : Contacts, body : Body, known : BOOLEAN]
Pages   == [id : Ids, body : Body]
Lates   == [c : Contacts, wid : Ids, body : Body, rev : Nat]
Pasts   == [txt : SUBSET Texts, enr : BOOLEAN]

TypeOK ==
    /\ db \in [Contacts -> Rows] /\ logged \subseteq Contacts
    /\ srv \in [Contacts -> Copies] /\ made \in [Contacts -> Ids]
    /\ inFlight \subseteq Contacts /\ queued \subseteq Contacts
    /\ patch \in [PatchWorkers -> Patches]
    /\ up \in [UploadWorkers -> Uploads]
    /\ merging \subseteq Merges
    /\ listed \subseteq Contacts /\ unlinked \subseteq Contacts
    /\ page \in [Contacts -> Pages]
    /\ late \subseteq Lates
    /\ fresh \in Texts
    /\ seen \in [Contacts -> Pasts]
    /\ blind \in [Contacts -> BOOLEAN]
    /\ owed \in [Contacts -> Owed]

Init ==
    /\ db = [c \in Contacts |-> [wid |-> 0, dirty |-> FALSE, rev |-> 0, body |-> Blank]]
    /\ logged = {}
    /\ srv = [c \in Contacts |-> [id |-> 0, body |-> Blank, rev |-> 0]]
    /\ made = [c \in Contacts |-> 0]
    /\ inFlight = {} /\ queued = {}
    /\ patch = [w \in PatchWorkers |-> IdlePatch]
    /\ up = [u \in UploadWorkers |-> IdleUp]
    /\ merging = {} /\ listed = {} /\ unlinked = {} /\ late = {}
    /\ page = [c \in Contacts |-> [id |-> 0, body |-> Blank]]
    /\ fresh = 0
    /\ seen = [c \in Contacts |-> [txt |-> {}, enr |-> FALSE]]
    /\ blind = [c \in Contacts |-> FALSE]
    /\ owed = [c \in Contacts |-> "no"]

-----------------------------------------------------------------------------
(* The server, and what it has ever held.                                  *)

ServerHolds(c, id, body, rev) ==
    /\ srv' = [srv EXCEPT ![c] = [id |-> id, body |-> body, rev |-> rev]]
    /\ seen' = [seen EXCEPT ![c] = [txt |-> @.txt \cup {body.txt}, enr |-> @.enr \/ body.enr]]

CreateCopy(c, body, rev) ==
    /\ srv[c].id = 0 /\ made[c] < MaxIds
    /\ made' = [made EXCEPT ![c] = @ + 1]
    /\ ServerHolds(c, made[c] + 1, body, rev)

-----------------------------------------------------------------------------
(* The per-contact coordinator.                                            *)

Chain(c, ack) == [IdlePatch EXCEPT !.st = "read", !.c = c, !.ack = ack]

\* Mutant: a save starts its PATCH although one of the contact is running.
PushUnserialized(c, ack) ==
    /\ inFlight' = inFlight \cup {c}
    /\ \E w \in PatchWorkers :
          /\ patch[w].st = "idle"
          /\ patch' = [patch EXCEPT ![w] = Chain(c, ack)]
    /\ UNCHANGED queued

\* One PATCH per contact: a second request is queued behind the running chain.
PushOrQueue(c, ack) ==
    \/ /\ c \in inFlight
       /\ queued' = queued \cup {c}
       /\ UNCHANGED <<inFlight, patch>>
    \/ /\ c \notin inFlight
       /\ inFlight' = inFlight \cup {c}
       /\ \E w \in PatchWorkers :
             /\ patch[w].st = "idle"
             /\ patch' = [patch EXCEPT ![w] = Chain(c, ack)]
       /\ UNCHANGED queued

\* What an edit of a linked row does next: push it now, or leave it pending
\* for the operator's retry.
PushEdit(c, ack, pushed) ==
    IF pushed
    THEN PushOrQueue(c, ack) /\ owed' = [owed EXCEPT ![c] = "no"]
    ELSE UNCHANGED coordVars /\ owed' = [owed EXCEPT ![c] = "told"]

\* Credentials configured and online, or not.
Connection == {TRUE} \cup (IF May("offline") THEN {FALSE} ELSE {})

-----------------------------------------------------------------------------
(* The operator: logging, editing, enriching.                              *)

\* Mutant: the snapshot's revision is counted from one.
NewUploadOffByOne(c, kind, st) ==
    [IdleUp EXCEPT !.st = st, !.c = c, !.kind = kind, !.body = db[c].body,
                   !.rev = db[c].rev - 1]

NewUpload(c, kind, st) ==
    [IdleUp EXCEPT !.st = st, !.c = c, !.kind = kind, !.body = db[c].body,
                   !.rev = db[c].rev]

\* SaveQSO and EnrichQSO: the revision goes up with the data, and a linked row
\* is marked pending in the same transaction.
Edited(row, body) ==
    [row EXCEPT !.body = body, !.rev = @ + 1, !.dirty = @ \/ row.wid # 0]

\* saveQSO and the WSJT-X auto-log: insert the row and start its upload in the
\* same handler, unless offline.
LogQSO(c) ==
    /\ LoopFree /\ c \notin logged
    /\ logged' = logged \cup {c}
    /\ \/ UNCHANGED up
       \/ \E u \in UploadWorkers, kind \in {"auto", "wsjtx"} \cap Features :
             /\ up[u].st = "idle"
             /\ up' = [up EXCEPT ![u] =
                         NewUpload(c, kind, IF kind = "auto" THEN "post" ELSE "enrich")]
    /\ UNCHANGED <<db, srvVars, coordVars, merging, listed, unlinked, page, late, fresh, blind, owed>>

\* doSave: the row is written first, then the edit is pushed or queued.  The
\* form may have been filled before a callbook answer reached the row.
Save(c) ==
    /\ LoopFree /\ c \in logged /\ fresh < MaxText
    /\ fresh' = fresh + 1
    /\ \E enr \in {db[c].body.enr, FALSE}, pushed \in Connection :
          /\ db' = [db EXCEPT ![c] = Edited(@, [txt |-> fresh + 1, enr |-> enr])]
          /\ IF Linked(c) THEN PushEdit(c, db[c].rev + 1, pushed)
                          ELSE UNCHANGED <<coordVars, owed>>
    /\ UNCHANGED <<logged, srvVars, up, merging, listed, unlinked, page, late, blind>>

\* enrichSavedQSO: a callbook answer fills the blanks of a saved contact.
Enrich(c) ==
    /\ Uses("enrich") /\ LoopFree /\ c \in logged /\ ~db[c].body.enr
    /\ db' = [db EXCEPT ![c] = Edited(@, [@.body EXCEPT !.enr = TRUE])]
    /\ \E pushed \in Connection :
          IF Linked(c) THEN PushEdit(c, NoRev, pushed)
                       ELSE UNCHANGED <<coordVars, owed>>
    /\ UNCHANGED <<logged, srvVars, up, merging, listed, unlinked, page, late, fresh, blind>>

\* Mutant: the refresh does not look at the pending flag.
RefreshUnchecked(c) ==
    /\ Uses("refresh") /\ LoopFree /\ c \in logged
    /\ Linked(c) \/ c \in unlinked
    /\ db[c].rev < MaxRev
    /\ \E t \in seen[c].txt, e \in {FALSE, seen[c].enr} :
          merging' = {[c |-> c, body |-> [txt |-> t, enr |-> e \/ db[c].body.enr],
                       known |-> Linked(c) /\ ~blind[c]]}
    /\ UNCHANGED <<dbVars, srvVars, coordVars, up, listed, unlinked, page, late, fresh, blind, owed>>

\* ApplyRemoteRefresh, first half: a copy fetched at some earlier moment, so
\* any text the server has held, is merged into the row the loop reads now.
\* A blank of the remote copy never erases a local value.  The link it looks at is
\* the form's: it outlives the row's, when a PATCH has found the copy gone meanwhile.
ReadForRefresh(c) ==
    /\ Uses("refresh") /\ LoopFree /\ c \in logged
    /\ Linked(c) \/ c \in unlinked
    /\ ~db[c].dirty /\ db[c].rev < MaxRev
    /\ \E t \in seen[c].txt, e \in {FALSE, seen[c].enr} :
          merging' = {[c |-> c, body |-> [txt |-> t, enr |-> e \/ db[c].body.enr],
                       known |-> Linked(c) /\ ~blind[c]]}
    /\ UNCHANGED <<dbVars, srvVars, coordVars, up, listed, unlinked, page, late, fresh, blind, owed>>

\* ApplyRemoteRefresh, second half: UpdateQSO writes the merged row.
WriteRefresh ==
    /\ \E m \in merging :
          /\ db' = [db EXCEPT ![m.c] = [@ EXCEPT !.body = m.body, !.rev = db[m.c].rev + 1]]
          /\ unlinked' = unlinked \ {m.c}
    /\ merging' = {}
    /\ UNCHANGED <<logged, srvVars, coordVars, up, listed, page, late, fresh, blind, owed>>

-----------------------------------------------------------------------------
(* The PATCH worker (doSave's command, syncDirtyRow).                      *)

PatchStep(w, from) == patch[w].st = from
PatchGoes(w, st)       == patch' = [patch EXCEPT ![w].st = st]
PatchEnds(w, res)      == patch' = [patch EXCEPT ![w] = [@ EXCEPT !.st = "done", !.res = res]]
OnlyPatch == UNCHANGED <<logged, inFlight, queued, up, merging, listed, unlinked, page, fresh>>

\* The row is read when the worker runs: a save chain acknowledges the
\* revision it saved, a follow-up the revision it read.  A row without a copy is
\* taken to be honest, and its flag left as it is.
PatchRead(w) ==
    /\ PatchStep(w, "read")
    /\ LET c == patch[w].c IN
       \/ /\ Linked(c)
          /\ patch' = [patch EXCEPT ![w] =
                 [@ EXCEPT !.st = "wire", !.wid = db[c].wid, !.body = db[c].body,
                           !.rev = db[c].rev,
                           !.ack = IF patch[w].ack = NoRev
                                   THEN db[c].rev ELSE patch[w].ack]]
          /\ UNCHANGED owed
       \/ /\ ~Linked(c)
          /\ PatchEnds(w, "gone")
          /\ owed' = IF db[c].dirty THEN [owed EXCEPT ![c] = "left"] ELSE owed
       \/ /\ May("disk")
          /\ PatchEnds(w, "err")
          /\ UNCHANGED owed
    /\ OnlyPatch /\ UNCHANGED <<db, srvVars, late, blind>>

\* The server has a copy with this id, takes the PATCH, and answers or not.
PatchApplied(w) ==
    /\ PatchStep(w, "wire")
    /\ LET p == patch[w] IN
       /\ srv[p.c].id = p.wid
       /\ ServerHolds(p.c, p.wid, p.body, p.rev)
    /\ PatchGoes(w, "ack") \/ (May("lost") /\ PatchEnds(w, "err"))
    /\ OnlyPatch /\ UNCHANGED <<db, made, late, blind, owed>>

PatchNotFound(w) ==
    /\ PatchStep(w, "wire") /\ srv[patch[w].c].id # patch[w].wid
    /\ PatchGoes(w, "gone")
    /\ OnlyPatch /\ UNCHANGED <<db, srvVars, late, blind, owed>>

\* No answer within the client's timeout: the request failed, or it is still
\* on its way and the server will execute it later.
PatchFails(w) ==
    /\ PatchStep(w, "wire")
    /\ PatchEnds(w, "err")
    /\ \/ May("refused") /\ UNCHANGED late
       \/ /\ May("late")
          /\ late' = late \cup {[c |-> patch[w].c, wid |-> patch[w].wid,
                                 body |-> patch[w].body, rev |-> patch[w].rev]}
    /\ OnlyPatch /\ UNCHANGED <<db, srvVars, blind, owed>>

LateLands ==
    /\ \E m \in late :
          /\ late' = late \ {m}
          /\ IF srv[m.c].id = m.wid THEN ServerHolds(m.c, m.wid, m.body, m.rev)
                                    ELSE UNCHANGED <<srv, seen>>
    /\ UNCHANGED <<dbVars, made, coordVars, up, merging, listed, unlinked, page, fresh, blind, owed>>

\* Mutant: the acknowledgement does not compare revisions.
AckAnyRevision(w) ==
    /\ PatchStep(w, "ack")
    /\ db' = [db EXCEPT ![patch[w].c].dirty = FALSE]
    /\ blind' = [blind EXCEPT ![patch[w].c] = FALSE]
    /\ PatchEnds(w, "ok")
    /\ OnlyPatch /\ UNCHANGED <<srvVars, late, owed>>

\* ClearWavelogDirtyIfRevision.
PatchAck(w) ==
    /\ PatchStep(w, "ack")
    /\ LET c == patch[w].c IN
       \/ /\ IF db[c].rev = patch[w].ack
             THEN /\ db' = [db EXCEPT ![c].dirty = FALSE]
                  /\ blind' = [blind EXCEPT ![c] = FALSE]
             ELSE UNCHANGED <<db, blind>>
          /\ PatchEnds(w, "ok")
       \/ /\ May("disk")
          /\ PatchEnds(w, "incomplete")
          /\ UNCHANGED <<db, blind>>
    /\ OnlyPatch /\ UNCHANGED <<srvVars, late, owed>>

\* The remote copy is gone: SetWavelogID(0) ...
PatchUnlink(w) ==
    /\ PatchStep(w, "gone")
    /\ \/ /\ db' = [db EXCEPT ![patch[w].c].wid = 0]
          /\ unlinked' = IF Uses("refresh") THEN unlinked \cup {patch[w].c} ELSE unlinked
          /\ PatchGoes(w, "clear")
       \/ /\ May("disk")
          /\ PatchEnds(w, "err")
          /\ UNCHANGED <<db, unlinked>>
    /\ UNCHANGED <<logged, inFlight, queued, up, merging, listed, page, fresh>>
    /\ UNCHANGED <<srvVars, late, blind, owed>>

\* ... and then, in a statement of its own, SetWavelogDirty(false).
PatchClear(w) ==
    /\ PatchStep(w, "clear")
    /\ LET c == patch[w].c IN
       \/ /\ db' = [db EXCEPT ![c].dirty = FALSE]
          /\ blind' = [blind EXCEPT ![c] = @ \/ Linked(c)]
          /\ UNCHANGED owed
       \/ /\ May("disk")
          /\ owed' = [owed EXCEPT ![c] = "left"]
          /\ UNCHANGED <<db, blind>>
    /\ PatchEnds(w, "gone")
    /\ OnlyPatch /\ UNCHANGED <<srvVars, late>>

\* Mutant: the queued follow-up is dropped with the slot.
DoneDropsQueue(w) ==
    /\ LoopFree /\ PatchStep(w, "done")
    /\ inFlight' = inFlight \ {patch[w].c}
    /\ queued' = queued \ {patch[w].c}
    /\ patch' = [patch EXCEPT ![w] = IdlePatch]
    /\ owed' = IF patch[w].res \in {"err", "incomplete"}
               THEN [owed EXCEPT ![patch[w].c] = "told"] ELSE owed
    /\ UNCHANGED <<dbVars, srvVars, up, merging, listed, unlinked, page, late, fresh, blind>>

\* Mutant: the slot is not given back.
DoneKeepsSlot(w) ==
    /\ LoopFree /\ PatchStep(w, "done")
    /\ patch' = [patch EXCEPT ![w] = IdlePatch]
    /\ owed' = IF patch[w].res \in {"err", "incomplete"}
               THEN [owed EXCEPT ![patch[w].c] = "told"] ELSE owed
    /\ UNCHANGED <<inFlight, queued>>
    /\ UNCHANGED <<dbVars, srvVars, up, merging, listed, unlinked, page, late, fresh, blind>>

\* handleQSOSyncCompletion, on the owner loop: release the contact, or start
\* the follow-up that reads the newest revision.
PatchDone(w) ==
    /\ LoopFree /\ PatchStep(w, "done")
    /\ LET c == patch[w].c IN
       \/ /\ c \in queued
          /\ queued' = queued \ {c}
          /\ patch' = [patch EXCEPT ![w] = Chain(c, NoRev)]
          /\ UNCHANGED <<inFlight, owed>>
       \/ /\ c \notin queued
          /\ inFlight' = inFlight \ {c}
          /\ patch' = [patch EXCEPT ![w] = IdlePatch]
          /\ owed' = IF patch[w].res \in {"err", "incomplete"}
                     THEN [owed EXCEPT ![c] = "told"] ELSE owed
          /\ UNCHANGED queued
    /\ UNCHANGED <<dbVars, srvVars, up, merging, listed, unlinked, page, late, fresh, blind>>

-----------------------------------------------------------------------------
(* The upload worker: postQSOSingle, the batch upload, the WSJT-X worker.  *)

UpStep(u, from)  == up[u].st = from
UpGoes(u, st)    == up' = [up EXCEPT ![u].st = st]
UpEnds(u, res)   == up' = [up EXCEPT ![u] = [@ EXCEPT !.st = "done", !.res = res]]
UpFinds(u, id)   == up' = [up EXCEPT ![u] = [@ EXCEPT !.st = "attach", !.rid = id]]
UpTaken(u, st)   == up' = [up EXCEPT ![u] = [@ EXCEPT !.st = st, !.took = TRUE]]
OnlyUp == UNCHANGED <<logged, coordVars, merging, listed, unlinked, page, late, fresh>>

\* doBatchUpload: the unsent rows are read with their revisions.  A backlog
\* of more than 25 rows is first matched against the server's list.
StartBatch(u, c) ==
    /\ Uses("batch") /\ LoopFree /\ c \in logged
    /\ UpStep(u, "idle") /\ ~Linked(c)
    /\ \E st \in {"bulk"} \cup (IF Uses("match") THEN {"match"} ELSE {}) :
          up' = [up EXCEPT ![u] = NewUpload(c, "batch", st)]
    /\ OnlyUp /\ UNCHANGED <<db, srvVars, blind, owed>>

\* wsjtxEnrichAndUploadCmd: the worker fills the blanks itself, discards
\* whether the row is owed a PATCH, and loads the row it will upload.
WorkerEnrich(u) ==
    /\ UpStep(u, "enrich")
    /\ LET c == up[u].c IN
       \/ /\ ~db[c].body.enr
          /\ db' = [db EXCEPT ![c] = Edited(@, [@.body EXCEPT !.enr = TRUE])]
          /\ owed' = IF Linked(c) THEN [owed EXCEPT ![c] = "worker"] ELSE owed
       \/ UNCHANGED <<db, owed>>
    /\ UpGoes(u, "load")
    /\ OnlyUp /\ UNCHANGED <<srvVars, blind>>

WorkerLoad(u) ==
    /\ UpStep(u, "load")
    /\ up' = [up EXCEPT ![u] = [@ EXCEPT !.st = "post", !.body = db[up[u].c].body,
                                        !.rev = db[up[u].c].rev]]
    /\ OnlyUp /\ UNCHANGED <<db, srvVars, blind, owed>>

\* FetchAllQSOIDs found the contact in the server's list, or did not.
Match(u) ==
    /\ UpStep(u, "match")
    /\ \/ /\ srv[up[u].c].id # 0
          /\ UpFinds(u, srv[up[u].c].id)
       \/ (srv[up[u].c].id = 0 \/ May("refused")) /\ UpGoes(u, "bulk")
    /\ OnlyUp /\ UNCHANGED <<db, srvVars, blind, owed>>

\* The server creates the copy: the JSON create answers with its id or
\* without one, an ADIF import never does; or the answer is lost.
Created(u) ==
    /\ up[u].st \in {"bulk", "post", "import"}
    /\ CreateCopy(up[u].c, up[u].body, up[u].rev)
    /\ \/ /\ UpStep(u, "post")
          /\ up' = [up EXCEPT ![u] = [@ EXCEPT !.st = "attach", !.took = TRUE,
                                              !.rid = made[up[u].c] + 1]]
       \/ UpStep(u, "post")   /\ UpTaken(u, "lookup")
       \/ UpStep(u, "bulk")   /\ UpTaken(u, "lookup")
       \/ UpStep(u, "import") /\ UpTaken(u, "blind")
       \/ May("lost") /\ UpStep(u, "post") /\ UpTaken(u, "import")
       \/ /\ May("lost") /\ up[u].st \in {"bulk", "import"}
          /\ up' = [up EXCEPT ![u] = [@ EXCEPT !.st = "done", !.res = "fail", !.took = TRUE]]
    /\ OnlyUp /\ UNCHANGED <<db, blind, owed>>

\* The server already has the contact.  The JSON create learns its id; the
\* import stores the id without a check first; a chunk of ADIF answers with
\* an error and falls back to single uploads, or with a summary.
Duplicate(u) ==
    /\ srv[up[u].c].id # 0
    /\ \/ UpStep(u, "post") /\ UpGoes(u, "lookup")
       \/ UpStep(u, "import") /\ UpGoes(u, "blind")
       \/ UpStep(u, "bulk") /\ UpGoes(u, "post")
       \/ UpStep(u, "bulk") /\ UpGoes(u, "lookup")
    /\ OnlyUp /\ UNCHANGED <<db, srvVars, blind, owed>>

\* The request fails: the JSON create falls back to the import path.
PostFails(u) ==
    /\ May("refused")
    /\ \/ UpStep(u, "post") /\ UpGoes(u, "import")
       \/ up[u].st \in {"post", "bulk", "import"} /\ UpEnds(u, "fail")
    /\ OnlyUp /\ UNCHANGED <<db, srvVars, blind, owed>>

\* backfillQSOID: the import path stores the id it finds, with no regard to
\* the revision that was uploaded.
BlindAttach(u) ==
    /\ UpStep(u, "blind")
    /\ LET c == up[u].c IN
       \/ /\ srv[c].id # 0
          /\ db' = [db EXCEPT ![c].wid = srv[c].id]
          /\ blind' = [blind EXCEPT ![c] =
                IF Linked(c) THEN @ ELSE ~(up[u].took /\ up[u].rev = db[c].rev)]
       \/ /\ srv[c].id = 0 \/ May("refused") \/ May("disk")
          /\ UNCHANGED <<db, blind>>
    /\ UpGoes(u, "lookup")
    /\ OnlyUp /\ UNCHANGED <<srvVars, owed>>

\* backfillRemoteID / FindQSOIDs: the id by the identity of the snapshot.
Lookup(u) ==
    /\ UpStep(u, "lookup")
    /\ LET c == up[u].c IN
       \/ /\ srv[c].id # 0
          /\ UpFinds(u, srv[c].id)
       \/ (srv[c].id = 0 \/ May("refused")) /\ UpEnds(u, "unresolved")
    /\ OnlyUp /\ UNCHANGED <<db, srvVars, blind, owed>>

\* Mutant: the id is stored and a newer revision is not marked pending.
AttachUnmarked(u) ==
    /\ UpStep(u, "attach")
    /\ LET c == up[u].c
           newer == db[c].rev > up[u].rev IN
       /\ db' = [db EXCEPT ![c].wid = up[u].rid]
       /\ blind' = [blind EXCEPT ![c] = IF Linked(c) THEN @ /\ (newer \/ ~up[u].took)
                                                     ELSE ~newer /\ ~up[u].took]
       /\ owed' = IF newer THEN [owed EXCEPT ![c] = "no"] ELSE owed
    /\ UpGoes(u, "check")
    /\ OnlyUp /\ UNCHANGED srvVars

\* SetWavelogIDChecked, the UPDATE: the id is stored, and a row edited since
\* the snapshot is marked pending in the same statement.
Attach(u) ==
    /\ UpStep(u, "attach")
    /\ LET c == up[u].c
           newer == db[c].rev > up[u].rev IN
       \/ /\ db' = [db EXCEPT ![c] = [@ EXCEPT !.wid = up[u].rid, !.dirty = db[c].dirty \/ newer]]
          /\ blind' = [blind EXCEPT ![c] = IF Linked(c) THEN @ /\ (newer \/ ~up[u].took)
                                                      ELSE ~newer /\ ~up[u].took]
          /\ owed' = IF newer THEN [owed EXCEPT ![c] = "no"] ELSE owed
          /\ UpGoes(u, "check")
       \/ /\ May("disk")
          /\ UpEnds(u, "unresolved")
          /\ UNCHANGED <<db, blind, owed>>
    /\ OnlyUp /\ UNCHANGED srvVars

\* SetWavelogIDChecked, the SELECT: is the revision newer than the snapshot's?
Check(u) ==
    /\ UpStep(u, "check")
    /\ LET c == up[u].c IN
       \/ /\ up' = [up EXCEPT ![u] = [@ EXCEPT !.st = "done", !.res = "ok",
                                              !.chg = db[c].rev > up[u].rev]]
          /\ UNCHANGED owed
       \/ /\ May("disk")
          /\ UpEnds(u, "unresolved")
          /\ owed' = [owed EXCEPT ![c] = "told"]
    /\ OnlyUp /\ UNCHANGED <<db, srvVars, blind>>

\* Mutant: an edit made during the upload is not pushed afterwards.
UploadDoneForgets(u) ==
    /\ LoopFree /\ UpStep(u, "done")
    /\ up' = [up EXCEPT ![u] = IdleUp]
    /\ UNCHANGED coordVars
    /\ UNCHANGED <<dbVars, srvVars, merging, listed, unlinked, page, late, fresh, blind, owed>>

\* The result on the owner loop (wlUploadResultMsg, handleEditorUploadCompletion):
\* push the newer revision, or retry the id attach once, with the snapshot that
\* was accepted.  A batch never retries.
UploadDone(u) ==
    /\ LoopFree /\ UpStep(u, "done")
    /\ LET c == up[u].c IN
       \/ /\ up[u].res = "unresolved" /\ up[u].kind # "batch" /\ ~up[u].retried
          /\ up' = [up EXCEPT ![u] = [@ EXCEPT !.st = "lookup", !.retried = TRUE, !.res = "none"]]
          /\ UNCHANGED coordVars
       \/ /\ up[u].res = "ok" /\ up[u].chg
          /\ up' = [up EXCEPT ![u] = IdleUp]
          /\ PushOrQueue(c, NoRev)
       \/ /\ up[u].res = "fail" \/ (up[u].res = "ok" /\ ~up[u].chg)
             \/ (up[u].res = "unresolved" /\ (up[u].kind = "batch" \/ up[u].retried))
          /\ up' = [up EXCEPT ![u] = IdleUp]
          /\ UNCHANGED coordVars
    /\ UNCHANGED <<dbVars, srvVars, merging, listed, unlinked, page, late, fresh, blind, owed>>

-----------------------------------------------------------------------------
(* The pending-sync retry, the download, the rest of the world.            *)

\* retryPendingSync: a worker lists the pending rows ...
RetryList ==
    /\ Uses("retry") /\ listed = {} /\ Pending # {}
    /\ listed' = Pending
    /\ UNCHANGED <<dbVars, srvVars, coordVars, up, merging, unlinked, page, late, fresh, blind, owed>>

\* ... and the owner loop starts a chain for each of them that has none.
RetryQueue ==
    /\ LoopFree /\ listed # {}
    /\ LET idle == {w \in PatchWorkers : patch[w].st = "idle"}
           new  == listed \ inFlight IN
       /\ inFlight' = inFlight \cup new
       /\ \E run \in [new -> idle] :
             /\ \A c, d \in new : run[c] = run[d] => c = d
             /\ patch' = [w \in PatchWorkers |->
                            IF \E c \in new : run[c] = w
                            THEN Chain(CHOOSE c \in new : run[c] = w, NoRev)
                            ELSE patch[w]]
       /\ owed' = [c \in Contacts |->
                     IF c \in new THEN "no"
                     ELSE IF c \in listed /\ owed[c] # "no" THEN "skipped" ELSE owed[c]]
    /\ listed' = {}
    /\ UNCHANGED <<dbVars, srvVars, queued, up, merging, unlinked, page, late, fresh, blind>>

\* runDownload reads the export ...
DownloadRead(c) ==
    /\ Uses("download") /\ page[c].id = 0 /\ srv[c].id # 0
    /\ page' = [page EXCEPT ![c] = [id |-> srv[c].id, body |-> srv[c].body]]
    /\ UNCHANGED <<dbVars, srvVars, coordVars, up, merging, listed, unlinked, late, fresh, blind, owed>>

\* ... and inserts the contacts it does not have; of the others it stores the
\* remote id.
DownloadWrite(c) ==
    /\ page[c].id # 0
    /\ page' = [page EXCEPT ![c] = [id |-> 0, body |-> Blank]]
    /\ logged' = logged \cup {c}
    /\ IF c \in logged
       THEN /\ db' = [db EXCEPT ![c].wid = page[c].id]
            /\ blind' = [blind EXCEPT ![c] = Linked(c) => @]
       ELSE /\ db' = [db EXCEPT ![c] = [wid |-> page[c].id, dirty |-> FALSE, rev |-> 0,
                                        body |-> page[c].body]]
            /\ UNCHANGED blind
    /\ UNCHANGED <<srvVars, coordVars, up, merging, listed, unlinked, late, fresh, owed>>

\* Another operator logs, edits or deletes the contact on the server.
RemoteWork(c) ==
    /\ May("remote")
    /\ \/ /\ fresh < MaxText
          /\ fresh' = fresh + 1
          /\ \/ CreateCopy(c, [txt |-> fresh + 1, enr |-> FALSE], 0)
             \/ /\ srv[c].id # 0
                /\ ServerHolds(c, srv[c].id, [srv[c].body EXCEPT !.txt = fresh + 1], srv[c].rev)
                /\ UNCHANGED made
       \/ /\ srv[c].id # 0
          /\ srv' = [srv EXCEPT ![c] = [id |-> 0, body |-> Blank, rev |-> 0]]
          /\ UNCHANGED <<made, seen, fresh>>
    /\ UNCHANGED <<dbVars, coordVars, up, merging, listed, unlinked, page, late, blind, owed>>

\* The program dies and starts again: the database and the server remain, and
\* so does what is still on its way to the server.
Crash ==
    /\ May("crash")
    /\ inFlight' = {} /\ queued' = {} /\ merging' = {} /\ listed' = {} /\ unlinked' = {}
    /\ patch' = [w \in PatchWorkers |-> IdlePatch]
    /\ up' = [u \in UploadWorkers |-> IdleUp]
    /\ page' = [c \in Contacts |-> [id |-> 0, body |-> Blank]]
    /\ owed' = [c \in Contacts |-> IF db[c].dirty THEN "told" ELSE "no"]
    /\ UNCHANGED <<dbVars, srvVars, late, fresh, blind>>

-----------------------------------------------------------------------------
PatchWork(w) ==
    \/ PatchRead(w) \/ PatchApplied(w) \/ PatchNotFound(w) \/ PatchFails(w)
    \/ PatchAck(w) \/ PatchUnlink(w) \/ PatchClear(w)

UploadWork(u) ==
    \/ WorkerEnrich(u) \/ WorkerLoad(u) \/ Match(u) \/ Created(u) \/ Duplicate(u)
    \/ PostFails(u) \/ BlindAttach(u) \/ Lookup(u) \/ Attach(u) \/ Check(u)

Operator(c) == LogQSO(c) \/ Save(c) \/ Enrich(c) \/ ReadForRefresh(c)

Next ==
    \/ \E c \in Contacts : Operator(c) \/ DownloadRead(c) \/ DownloadWrite(c) \/ RemoteWork(c)
    \/ \E u \in UploadWorkers, c \in Contacts : StartBatch(u, c)
    \/ \E w \in PatchWorkers : PatchWork(w) \/ PatchDone(w)
    \/ \E u \in UploadWorkers : UploadWork(u) \/ UploadDone(u)
    \/ WriteRefresh \/ RetryList \/ RetryQueue \/ LateLands \/ Crash

Spec == Init /\ [][Next]_vars

\* Every worker's request ends within the HTTP client's timeout and every
\* statement on the database returns; the runtime delivers every result to the
\* owner loop.  The operator and the other operators owe nothing.
Fairness ==
    /\ \A w \in PatchWorkers : WF_vars(PatchWork(w)) /\ WF_vars(PatchDone(w))
    /\ \A u \in UploadWorkers : WF_vars(UploadWork(u)) /\ WF_vars(UploadDone(u))
    /\ WF_vars(WriteRefresh) /\ WF_vars(RetryQueue)

FairSpec == Spec /\ Fairness

-----------------------------------------------------------------------------
(* Safety.                                                                 *)

\* At most one PATCH of a contact is on its way, the coordinator's slot is
\* taken exactly while it is, and only a running chain owes a follow-up: a
\* leaked slot would queue every later save behind a worker that never ends.
OneChainPerContact ==
    /\ \A w \in PatchWorkers : patch[w].st # "idle" => patch[w].c \in inFlight
    /\ \A c \in inFlight : \E w \in PatchWorkers : patch[w].st # "idle" /\ patch[w].c = c
    /\ \A v, w \in PatchWorkers :
          patch[v].st # "idle" /\ patch[w].st # "idle" /\ patch[v].c = patch[w].c => v = w
    /\ queued \subseteq inFlight

Uploading(c) == \E u \in UploadWorkers : up[u].st # "idle" /\ up[u].c = c

Pushed(c) == /\ db[c].body.txt \in seen[c].txt
             /\ db[c].body.enr => seen[c].enr

\* A linked row that shows no pending change holds nothing the server never
\* received, however uploads, acknowledgements, edits and refreshes interleave.
\* The exceptions are the paths that attach an id without knowing what the
\* server holds (see NeverFalselyClean).
CleanMeansPushed ==
    \A c \in Contacts : Linked(c) /\ ~db[c].dirty /\ ~blind[c] => Pushed(c)

\* A pending edit always has somebody to push it: a chain on its way, or an
\* upload whose completion will start one.  Otherwise the operator was told
\* and owes the retry, or one of three gaps has swallowed it: the WSJT-X worker's
\* enrichment of a row that was linked meanwhile, a bulk retry that skips a
\* contact whose chain then ends without a follow-up, and the flag left on a row
\* without a copy when the statement that clears it fails, which whatever links
\* the row afterwards finds there.
PendingIsCovered ==
    \A c \in Pending : owed[c] = "no" =>
        \/ c \in inFlight
        \/ \E u \in UploadWorkers :
              /\ up[u].c = c
              /\ \/ up[u].st = "check" /\ db[c].rev > up[u].rev
                 \/ up[u].st = "done" /\ up[u].res = "ok" /\ up[u].chg

\* The server never goes back to an older revision of a contact: what it takes
\* from this program it takes in the order of the edits.
PushesInOrder ==
    [][\A c \in Contacts :
         srv'[c].id = srv[c].id /\ srv[c].id # 0 => srv'[c].rev >= srv[c].rev]_vars

\* A remote refresh replaces the operator's text only after the server has held
\* it: merging an older copy into a linked row that was known to be pushed loses
\* no edit, although the row is checked, merged and written in separate steps.  A
\* row that has lost its link is set apart: its edit reached nobody.
RefreshLosesNothing ==
    [][\A m \in merging :
         /\ m.known
         /\ merging' = {}
         /\ db'[m.c].body.txt # db[m.c].body.txt
         => db[m.c].body.txt \in seen[m.c].txt]_vars

-----------------------------------------------------------------------------
(* Liveness, under FairSpec.                                               *)

\* The serialization slot of a contact is always given back.
SlotReleased == \A c \in Contacts : c \in inFlight ~> c \notin inFlight

\* A pending edit that is somebody's job is pushed, or unlinked because the
\* remote copy is gone, or handed back to the operator: it is never forgotten.
PendingSettles ==
    \A c \in Contacts :
        (c \in Pending /\ owed[c] = "no") ~> (c \notin Pending \/ owed[c] # "no")

-----------------------------------------------------------------------------
(* What comments of the code say and its behaviour does not bear out.      *)

\* "marks (or clears) the durable pending-sync flag ... set when the local row
\* diverges from the Wavelog copy" (store/queries_wavelog.go): a linked row
\* without the flag, once its uploads have ended, holds nothing the server
\* never received.
NeverFalselyClean ==
    \A c \in Contacts : Linked(c) /\ ~db[c].dirty /\ ~Uploading(c) => Pushed(c)

-----------------------------------------------------------------------------
\* Workers of a kind are interchangeable: what TLC reduces the runs by.
Workers == Permutations(PatchWorkers) \cup Permutations(UploadWorkers)
=============================================================================
