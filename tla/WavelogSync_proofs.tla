------------------------- MODULE WavelogSync_proofs -------------------------
(***************************************************************************)
(* What TLAPS proves of WavelogSync, for any contacts and workers, every   *)
(* choice of features and faults and every bound.                          *)
(***************************************************************************)
EXTENDS WavelogSync, TLAPS

-----------------------------------------------------------------------------
(* The types of what the actions are built from.                           *)

\* The idle workers and a new chain are well-formed.
LEMMA InitialValues ==
    /\ 0 \in Ids /\ 0 \in Texts
    /\ Blank \in Body
    /\ IdlePatch \in Patches
    /\ IdleUp \in Uploads
    /\ \A c \in Contacts, ack \in Nat \cup {NoRev} : Chain(c, ack) \in Patches
<1>1. 0 \in Ids /\ 0 \in Texts
  BY SyncAssumption DEF SyncAssumption, Ids, Texts
<1>2. Blank \in Body
  BY <1>1 DEF Blank, Body
<1>3. (CHOOSE c \in Contacts : TRUE) \in Contacts
  BY SyncAssumption DEF SyncAssumption
<1>4. IdlePatch \in Patches /\ IdleUp \in Uploads
  BY <1>1, <1>2, <1>3 DEF IdlePatch, IdleUp, Patches, Uploads, PatchStates, UpStates
<1>5. ASSUME NEW c \in Contacts, NEW ack \in Nat \cup {NoRev} PROVE Chain(c, ack) \in Patches
  BY <1>4 DEF Chain, Patches, PatchStates
<1>6. QED BY <1>1, <1>2, <1>4, <1>5

\* The fields of rows, copies and workers.
LEMMA Fields ==
    ASSUME TypeOK
    PROVE  /\ \A c \in Contacts :
                 /\ db[c].wid \in Ids /\ db[c].dirty \in BOOLEAN /\ db[c].rev \in Nat
                 /\ db[c].body \in Body
                 /\ srv[c].id \in Ids /\ srv[c].body \in Body /\ srv[c].rev \in Nat
                 /\ page[c].id \in Ids /\ page[c].body \in Body
           /\ \A w \in PatchWorkers :
                 /\ patch[w].c \in Contacts /\ patch[w].wid \in Ids
                 /\ patch[w].body \in Body /\ patch[w].rev \in Nat
                 /\ patch[w].ack \in Nat \cup {NoRev}
           /\ \A u \in UploadWorkers :
                 /\ up[u].c \in Contacts /\ up[u].rid \in Ids
                 /\ up[u].body \in Body /\ up[u].rev \in Nat
BY DEF TypeOK, Rows, Copies, Pages, Patches, Uploads

\* What a PATCH worker's step does to it.
LEMMA PatchStepType ==
    ASSUME TypeOK, NEW w \in PatchWorkers,
           \/ \E st \in PatchStates : PatchGoes(w, st)
           \/ \E res \in {"none", "ok", "gone", "err", "incomplete"} : PatchEnds(w, res)
           \/ \E p \in Patches : patch' = [patch EXCEPT ![w] = p]
    PROVE  patch' \in [PatchWorkers -> Patches]
<1>1. ASSUME NEW st \in PatchStates, PatchGoes(w, st) PROVE patch' \in [PatchWorkers -> Patches]
  <2>1. [patch[w] EXCEPT !.st = st] \in Patches
    BY DEF TypeOK, Patches
  <2>2. patch' = [patch EXCEPT ![w] = [patch[w] EXCEPT !.st = st]]
    BY <1>1 DEF PatchGoes
  <2>3. QED BY <2>1, <2>2 DEF TypeOK
<1>2. ASSUME NEW res \in {"none", "ok", "gone", "err", "incomplete"}, PatchEnds(w, res)
      PROVE  patch' \in [PatchWorkers -> Patches]
  <2>1. [patch[w] EXCEPT !.st = "done", !.res = res] \in Patches
    BY DEF TypeOK, Patches, PatchStates
  <2>2. patch' = [patch EXCEPT ![w] = [patch[w] EXCEPT !.st = "done", !.res = res]]
    BY <1>2 DEF PatchEnds, TypeOK
  <2>3. QED BY <2>1, <2>2 DEF TypeOK
<1>3. ASSUME NEW p \in Patches, patch' = [patch EXCEPT ![w] = p]
      PROVE  patch' \in [PatchWorkers -> Patches]
  BY <1>3 DEF TypeOK
<1>4. QED BY <1>1, <1>2, <1>3

\* What an upload worker's step does to it.
LEMMA UpStepType ==
    ASSUME TypeOK, NEW u \in UploadWorkers,
           \/ \E st \in UpStates : UpGoes(u, st) \/ UpTaken(u, st)
           \/ \E res \in {"none", "ok", "unresolved", "fail"} : UpEnds(u, res)
           \/ \E id \in Ids : UpFinds(u, id)
           \/ \E x \in Uploads : up' = [up EXCEPT ![u] = x]
    PROVE  up' \in [UploadWorkers -> Uploads]
<1>1. ASSUME NEW st \in UpStates, UpGoes(u, st) PROVE up' \in [UploadWorkers -> Uploads]
  <2>1. [up[u] EXCEPT !.st = st] \in Uploads
    BY DEF TypeOK, Uploads
  <2>2. up' = [up EXCEPT ![u] = [up[u] EXCEPT !.st = st]]
    BY <1>1 DEF UpGoes
  <2>3. QED BY <2>1, <2>2 DEF TypeOK
<1>2. ASSUME NEW st \in UpStates, UpTaken(u, st) PROVE up' \in [UploadWorkers -> Uploads]
  <2>1. [up[u] EXCEPT !.st = st, !.took = TRUE] \in Uploads
    BY DEF TypeOK, Uploads
  <2>2. up' = [up EXCEPT ![u] = [up[u] EXCEPT !.st = st, !.took = TRUE]]
    BY <1>2 DEF UpTaken, TypeOK
  <2>3. QED BY <2>1, <2>2 DEF TypeOK
<1>3. ASSUME NEW res \in {"none", "ok", "unresolved", "fail"}, UpEnds(u, res)
      PROVE  up' \in [UploadWorkers -> Uploads]
  <2>1. [up[u] EXCEPT !.st = "done", !.res = res] \in Uploads
    <3>1. "done" \in UpStates
      BY DEF UpStates
    <3>2. up[u] \in Uploads
      BY DEF TypeOK
    <3>3. QED BY <3>1, <3>2 DEF Uploads
  <2>2. up' = [up EXCEPT ![u] = [up[u] EXCEPT !.st = "done", !.res = res]]
    BY <1>3 DEF UpEnds, TypeOK
  <2>3. QED BY <2>1, <2>2 DEF TypeOK
<1>4. ASSUME NEW x \in Uploads, up' = [up EXCEPT ![u] = x]
      PROVE  up' \in [UploadWorkers -> Uploads]
  BY <1>4 DEF TypeOK
<1>5. ASSUME NEW id \in Ids, UpFinds(u, id) PROVE up' \in [UploadWorkers -> Uploads]
  <2>1. [up[u] EXCEPT !.st = "attach", !.rid = id] \in Uploads
    <3>1. "attach" \in UpStates
      BY DEF UpStates
    <3>2. up[u] \in Uploads
      BY DEF TypeOK
    <3>3. QED BY <3>1, <3>2 DEF Uploads
  <2>2. up' = [up EXCEPT ![u] = [up[u] EXCEPT !.st = "attach", !.rid = id]]
    BY <1>5 DEF UpFinds, TypeOK
  <2>3. QED BY <2>1, <2>2 DEF TypeOK
<1>6. QED BY <1>1, <1>2, <1>3, <1>4, <1>5

\* What the server takes.
LEMMA ServerHoldsType ==
    ASSUME TypeOK, NEW c \in Contacts, NEW id \in Ids, NEW body \in Body, NEW rev \in Nat,
           ServerHolds(c, id, body, rev)
    PROVE  srv' \in [Contacts -> Copies] /\ seen' \in [Contacts -> Pasts]
<1>1. srv' \in [Contacts -> Copies]
  BY DEF TypeOK, ServerHolds, Copies
<1>2. seen' \in [Contacts -> Pasts]
  <2>1. body.txt \in Texts /\ body.enr \in BOOLEAN
    BY DEF Body
  <2>2. [txt |-> seen[c].txt \cup {body.txt}, enr |-> seen[c].enr \/ body.enr] \in Pasts
    BY <2>1 DEF TypeOK, Pasts
  <2>3. seen' = [seen EXCEPT ![c] = [txt |-> seen[c].txt \cup {body.txt},
                                     enr |-> seen[c].enr \/ body.enr]]
    BY DEF ServerHolds, TypeOK, Pasts
  <2>4. QED BY <2>2, <2>3 DEF TypeOK
<1>3. QED BY <1>1, <1>2

\* The ids it hands out stay within the bound.
LEMMA CreateCopyType ==
    ASSUME TypeOK, NEW c \in Contacts, NEW body \in Body, NEW rev \in Nat,
           CreateCopy(c, body, rev)
    PROVE  /\ srv' \in [Contacts -> Copies] /\ seen' \in [Contacts -> Pasts]
           /\ made' \in [Contacts -> Ids]
<1>1. made[c] + 1 \in Ids
  BY SyncAssumption DEF CreateCopy, TypeOK, Ids, SyncAssumption
<1>2. QED BY <1>1, ServerHoldsType DEF CreateCopy, TypeOK

\* The coordinator.
LEMMA PushOrQueueType ==
    ASSUME TypeOK, NEW c \in Contacts, NEW ack \in Nat \cup {NoRev}, PushOrQueue(c, ack)
    PROVE  /\ inFlight' \subseteq Contacts /\ queued' \subseteq Contacts
           /\ patch' \in [PatchWorkers -> Patches]
BY InitialValues DEF PushOrQueue, TypeOK

LEMMA PushEditType ==
    ASSUME TypeOK, NEW c \in Contacts, NEW ack \in Nat \cup {NoRev}, NEW pushed,
           PushEdit(c, ack, pushed)
    PROVE  /\ inFlight' \subseteq Contacts /\ queued' \subseteq Contacts
           /\ patch' \in [PatchWorkers -> Patches]
           /\ owed' \in [Contacts -> Owed]
BY PushOrQueueType DEF PushEdit, TypeOK, coordVars, Owed

\* Rows.
LEMMA RowType ==
    ASSUME TypeOK, NEW c \in Contacts, NEW row \in Rows, db' = [db EXCEPT ![c] = row]
    PROVE  db' \in [Contacts -> Rows]
BY DEF TypeOK

LEMMA RowFieldType ==
    ASSUME TypeOK, NEW c \in Contacts
    PROVE  /\ [db EXCEPT ![c].dirty = FALSE] \in [Contacts -> Rows]
           /\ \A wid \in Ids : [db EXCEPT ![c].wid = wid] \in [Contacts -> Rows]
<1>1. db[c] \in Rows
  BY DEF TypeOK
<1>2. [db[c] EXCEPT !.dirty = FALSE] \in Rows
  BY <1>1 DEF Rows
<1>3. ASSUME NEW wid \in Ids PROVE [db[c] EXCEPT !.wid = wid] \in Rows
  BY <1>1 DEF Rows
<1>4. [db EXCEPT ![c].dirty = FALSE] = [db EXCEPT ![c] = [db[c] EXCEPT !.dirty = FALSE]]
  OBVIOUS
<1>5. ASSUME NEW wid \in Ids
      PROVE  [db EXCEPT ![c].wid = wid] = [db EXCEPT ![c] = [db[c] EXCEPT !.wid = wid]]
  OBVIOUS
<1>6. QED BY <1>2, <1>3, <1>4, <1>5 DEF TypeOK

LEMMA EditedType ==
    ASSUME NEW row \in Rows, NEW body \in Body
    PROVE  Edited(row, body) \in Rows
<1>1. row.rev + 1 \in Nat /\ (row.dirty \/ row.wid # 0) \in BOOLEAN
  BY DEF Rows
<1>2. QED BY <1>1 DEF Edited, Rows

\* A step that touches the operator's side of a contact.
LEMMA OperatorType ==
    ASSUME TypeOK, NEW c \in Contacts, Operator(c)
    PROVE  TypeOK'
<1>1. CASE LogQSO(c)
  <2>1. logged' \subseteq Contacts
    BY <1>1 DEF LogQSO, TypeOK
  <2>2. up' \in [UploadWorkers -> Uploads]
    <3>1. ASSUME NEW u \in UploadWorkers, NEW kind \in {"auto", "wsjtx"},
                 up' = [up EXCEPT ![u] =
                          NewUpload(c, kind, IF kind = "auto" THEN "post" ELSE "enrich")]
          PROVE  up' \in [UploadWorkers -> Uploads]
      <4>1. NewUpload(c, kind, IF kind = "auto" THEN "post" ELSE "enrich") \in Uploads
        BY Fields, InitialValues DEF NewUpload, Uploads, UpStates
      <4>2. QED BY <3>1, <4>1 DEF TypeOK
    <3>2. QED BY <1>1, <3>1 DEF LogQSO, TypeOK
  <2>3. QED BY <1>1, <2>1, <2>2 DEF LogQSO, TypeOK, srvVars, coordVars
<1>2. CASE Save(c)
  <2>1. fresh' \in Texts /\ fresh + 1 \in Texts
    BY <1>2, SyncAssumption DEF Save, TypeOK, Texts, SyncAssumption
  <2>2. PICK enr \in {db[c].body.enr, FALSE}, pushed \in Connection :
          /\ db' = [db EXCEPT ![c] = Edited(@, [txt |-> fresh + 1, enr |-> enr])]
          /\ IF Linked(c) THEN PushEdit(c, db[c].rev + 1, pushed)
                          ELSE UNCHANGED <<coordVars, owed>>
    BY <1>2 DEF Save
  <2>3. [txt |-> fresh + 1, enr |-> enr] \in Body
    BY <2>1, Fields DEF Body
  <2>4. db' \in [Contacts -> Rows]
    BY <2>2, <2>3, EditedType, RowType DEF TypeOK
  <2>5. db[c].rev + 1 \in Nat
    BY Fields
  <2>6. /\ inFlight' \subseteq Contacts /\ queued' \subseteq Contacts
        /\ patch' \in [PatchWorkers -> Patches] /\ owed' \in [Contacts -> Owed]
    BY <2>2, <2>5, PushEditType DEF coordVars, TypeOK
  <2>7. QED BY <1>2, <2>1, <2>4, <2>6 DEF Save, TypeOK, srvVars
<1>3. CASE Enrich(c)
  <2>1. PICK pushed \in Connection :
          IF Linked(c) THEN PushEdit(c, NoRev, pushed) ELSE UNCHANGED <<coordVars, owed>>
    BY <1>3 DEF Enrich
  <2>2. [db[c].body EXCEPT !.enr = TRUE] \in Body
    BY Fields DEF Body
  <2>3. db' \in [Contacts -> Rows]
    BY <1>3, <2>2, EditedType, RowType DEF Enrich, TypeOK
  <2>4. /\ inFlight' \subseteq Contacts /\ queued' \subseteq Contacts
        /\ patch' \in [PatchWorkers -> Patches] /\ owed' \in [Contacts -> Owed]
    BY <2>1, PushEditType DEF coordVars, TypeOK
  <2>5. QED BY <1>3, <2>3, <2>4 DEF Enrich, TypeOK, srvVars
<1>4. CASE ReadForRefresh(c)
  <2>1. merging' \subseteq Merges
    <3>1. PICK t \in seen[c].txt, e \in {FALSE, seen[c].enr} :
            merging' = {[c |-> c, body |-> [txt |-> t, enr |-> e \/ db[c].body.enr],
                         known |-> Linked(c) /\ ~blind[c]]}
      BY <1>4 DEF ReadForRefresh
    <3>2. t \in Texts /\ (e \/ db[c].body.enr) \in BOOLEAN /\ (~blind[c]) \in BOOLEAN
      BY DEF TypeOK, Pasts
    <3>3. [txt |-> t, enr |-> e \/ db[c].body.enr] \in Body
      BY <3>2 DEF Body
    <3>4. QED BY <3>1, <3>2, <3>3 DEF Merges
  <2>2. QED BY <1>4, <2>1 DEF ReadForRefresh, TypeOK, dbVars, srvVars, coordVars
<1>5. QED BY <1>1, <1>2, <1>3, <1>4 DEF Operator

\* A step of a PATCH worker.
LEMMA PatchWorkType ==
    ASSUME TypeOK, NEW w \in PatchWorkers, PatchWork(w)
    PROVE  TypeOK'
<1> DEFINE c == patch[w].c
<1>0. /\ c \in Contacts
      /\ {"wire", "ack", "gone", "clear"} \subseteq PatchStates
  BY Fields DEF PatchStates
<1>1. CASE PatchRead(w)
  <2>1. [patch[w] EXCEPT !.st = "wire", !.wid = db[c].wid, !.body = db[c].body,
                         !.rev = db[c].rev,
                         !.ack = IF patch[w].ack = NoRev
                                 THEN db[c].rev ELSE patch[w].ack] \in Patches
    <3>1. patch[w] \in Patches
      BY DEF TypeOK
    <3>2. /\ db[c].wid \in Ids /\ db[c].body \in Body /\ db[c].rev \in Nat
          /\ (IF patch[w].ack = NoRev THEN db[c].rev ELSE patch[w].ack) \in Nat \cup {NoRev}
      BY <1>0, Fields
    <3>3. QED BY <1>0, <3>1, <3>2 DEF Patches
  <2>2. patch' \in [PatchWorkers -> Patches]
    <3>1. CASE PatchEnds(w, "gone") \/ PatchEnds(w, "err")
      BY <3>1, PatchStepType
    <3>2. CASE ~(PatchEnds(w, "gone") \/ PatchEnds(w, "err"))
      <4>1. patch' = [patch EXCEPT ![w] =
                        [patch[w] EXCEPT !.st = "wire", !.wid = db[c].wid, !.body = db[c].body,
                                         !.rev = db[c].rev,
                                         !.ack = IF patch[w].ack = NoRev
                                 THEN db[c].rev ELSE patch[w].ack]]
        BY <1>1, <3>2 DEF PatchRead
      <4>2. QED BY ONLY <2>1, <4>1, TypeOK DEF TypeOK
    <3>3. QED BY <3>1, <3>2
  <2>3. owed' \in [Contacts -> Owed]
    BY <1>0, <1>1 DEF PatchRead, TypeOK, Owed
  <2>4. QED BY <1>1, <2>2, <2>3 DEF PatchRead, OnlyPatch, srvVars, TypeOK
<1>2. CASE PatchApplied(w)
  <2>1. patch' \in [PatchWorkers -> Patches]
    BY <1>0, <1>2, PatchStepType DEF PatchApplied
  <2>2. srv' \in [Contacts -> Copies] /\ seen' \in [Contacts -> Pasts]
    BY <1>0, <1>2, Fields, ServerHoldsType DEF PatchApplied
  <2>3. QED BY <1>2, <2>1, <2>2 DEF PatchApplied, OnlyPatch, TypeOK
<1>3. CASE PatchNotFound(w)
  <2>1. patch' \in [PatchWorkers -> Patches]
    BY <1>0, <1>3, PatchStepType DEF PatchNotFound
  <2>2. QED BY <1>3, <2>1 DEF PatchNotFound, OnlyPatch, srvVars, TypeOK
<1>4. CASE PatchFails(w)
  <2>1. patch' \in [PatchWorkers -> Patches]
    BY <1>0, <1>4, PatchStepType DEF PatchFails
  <2>2. [c |-> patch[w].c, wid |-> patch[w].wid, body |-> patch[w].body,
         rev |-> patch[w].rev] \in Lates
    BY Fields DEF Lates
  <2>3. late' \subseteq Lates
    BY <1>4, <2>2 DEF PatchFails, TypeOK
  <2>4. QED BY <1>4, <2>1, <2>3 DEF PatchFails, OnlyPatch, srvVars, TypeOK
<1>5. CASE PatchAck(w)
  <2>1. patch' \in [PatchWorkers -> Patches]
    BY <1>5, PatchStepType DEF PatchAck
  <2>2. db' \in [Contacts -> Rows] /\ blind' \in [Contacts -> BOOLEAN]
    <3>1. [blind EXCEPT ![c] = FALSE] \in [Contacts -> BOOLEAN]
      BY DEF TypeOK
    <3>2. [db EXCEPT ![c].dirty = FALSE] \in [Contacts -> Rows]
      BY <1>0, RowFieldType
    <3>3. \/ UNCHANGED <<db, blind>>
          \/ db' = [db EXCEPT ![c].dirty = FALSE] /\ blind' = [blind EXCEPT ![c] = FALSE]
      BY <1>5 DEF PatchAck
    <3>4. QED BY <3>1, <3>2, <3>3 DEF TypeOK
  <2>3. QED BY <1>5, <2>1, <2>2 DEF PatchAck, OnlyPatch, srvVars, TypeOK
<1>6. CASE PatchUnlink(w)
  <2>1. patch' \in [PatchWorkers -> Patches]
    BY <1>0, <1>6, PatchStepType DEF PatchUnlink
  <2>2. db' \in [Contacts -> Rows]
    <3>1. [db EXCEPT ![c].wid = 0] \in [Contacts -> Rows]
      BY <1>0, InitialValues, RowFieldType
    <3>2. CASE UNCHANGED db
      BY <3>2 DEF TypeOK
    <3>3. CASE db' = [db EXCEPT ![c].wid = 0]
      BY <3>1, <3>3
    <3>4. QED BY <1>6, <3>2, <3>3, Zenon DEF PatchUnlink
  <2>3. /\ unlinked' \in {unlinked, unlinked \cup {c}}
        /\ UNCHANGED <<logged, srv, made, seen, inFlight, queued, up, merging, listed, page>>
        /\ UNCHANGED <<late, fresh, blind, owed>>
    BY <1>6, Zenon DEF PatchUnlink, srvVars
  <2>4. unlinked' \subseteq Contacts
    BY <1>0, <2>3 DEF TypeOK
  <2>5. QED BY <2>1, <2>2, <2>3, <2>4 DEF TypeOK
<1>7. CASE PatchClear(w)
  <2>1. patch' \in [PatchWorkers -> Patches]
    BY <1>7, PatchStepType DEF PatchClear
  <2>2. db' \in [Contacts -> Rows]
    BY <1>0, <1>7, RowFieldType DEF PatchClear, TypeOK
  <2>3. blind' \in [Contacts -> BOOLEAN]
    BY <1>0, <1>7 DEF PatchClear, TypeOK
  <2>4. owed' \in [Contacts -> Owed]
    BY <1>0, <1>7 DEF PatchClear, TypeOK, Owed
  <2>5. QED BY <1>7, <2>1, <2>2, <2>3, <2>4 DEF PatchClear, OnlyPatch, srvVars, TypeOK
<1>8. QED BY <1>1, <1>2, <1>3, <1>4, <1>5, <1>6, <1>7 DEF PatchWork

\* A step of an upload worker.
LEMMA UploadWorkType ==
    ASSUME TypeOK, NEW u \in UploadWorkers, UploadWork(u)
    PROVE  TypeOK'
<1> DEFINE c == up[u].c
<1>0. /\ c \in Contacts /\ up[u] \in Uploads
      /\ {"load", "bulk", "post", "import", "blind", "lookup", "attach", "check", "done"}
           \subseteq UpStates
  BY Fields DEF TypeOK, UpStates
<1>1. CASE WorkerEnrich(u)
  <2>1. up' \in [UploadWorkers -> Uploads]
    BY <1>0, <1>1, UpStepType DEF WorkerEnrich
  <2>2. [db[c].body EXCEPT !.enr = TRUE] \in Body
    BY <1>0, Fields DEF Body
  <2>3. [db EXCEPT ![c] = Edited(@, [@.body EXCEPT !.enr = TRUE])] \in [Contacts -> Rows]
    BY <1>0, <2>2, EditedType DEF TypeOK
  <2>4. db' \in [Contacts -> Rows]
    BY <1>1, <2>3 DEF WorkerEnrich, TypeOK
  <2>5. owed' \in [Contacts -> Owed]
    BY <1>0, <1>1 DEF WorkerEnrich, TypeOK, Owed
  <2>6. QED BY <1>1, <2>1, <2>4, <2>5 DEF WorkerEnrich, OnlyUp, srvVars, coordVars, TypeOK
<1>2. CASE WorkerLoad(u)
  <2>1. [up[u] EXCEPT !.st = "post", !.body = db[up[u].c].body, !.rev = db[up[u].c].rev]
          \in Uploads
    <3>1. db[up[u].c].body \in Body /\ db[up[u].c].rev \in Nat
      BY <1>0, Fields
    <3>2. QED BY <1>0, <3>1 DEF Uploads
  <2>2. up' \in [UploadWorkers -> Uploads]
    BY <1>2, <2>1, UpStepType DEF WorkerLoad
  <2>3. QED BY <1>2, <2>2 DEF WorkerLoad, OnlyUp, srvVars, coordVars, TypeOK
<1>3. CASE Match(u)
  <2>1. srv[up[u].c].id \in Ids
    BY <1>0, Fields
  <2>2. up' \in [UploadWorkers -> Uploads]
    BY <1>0, <1>3, <2>1, UpStepType DEF Match
  <2>3. QED BY <1>3, <2>2 DEF Match, OnlyUp, srvVars, coordVars, TypeOK
<1>4. CASE Created(u)
  <2>1. /\ srv' \in [Contacts -> Copies] /\ seen' \in [Contacts -> Pasts]
        /\ made' \in [Contacts -> Ids]
    BY <1>0, <1>4, Fields, CreateCopyType DEF Created
  <2>2. made[c] + 1 \in Ids
    BY <1>0, <1>4, SyncAssumption DEF Created, CreateCopy, TypeOK, Ids, SyncAssumption
  <2>3. [up[u] EXCEPT !.st = "attach", !.took = TRUE, !.rid = made[up[u].c] + 1] \in Uploads
    BY <1>0, <2>2 DEF Uploads
  <2>4. [up[u] EXCEPT !.st = "done", !.res = "fail", !.took = TRUE] \in Uploads
    BY <1>0 DEF Uploads
  <2>5. up' \in [UploadWorkers -> Uploads]
    BY <1>0, <1>4, <2>3, <2>4, UpStepType DEF Created
  <2>6. QED BY <1>4, <2>1, <2>5 DEF Created, OnlyUp, coordVars, TypeOK
<1>5. CASE Duplicate(u)
  <2>1. up' \in [UploadWorkers -> Uploads]
    BY <1>0, <1>5, UpStepType DEF Duplicate
  <2>2. QED BY <1>5, <2>1 DEF Duplicate, OnlyUp, srvVars, coordVars, TypeOK
<1>6. CASE PostFails(u)
  <2>1. up' \in [UploadWorkers -> Uploads]
    BY <1>0, <1>6, UpStepType DEF PostFails
  <2>2. QED BY <1>6, <2>1 DEF PostFails, OnlyUp, srvVars, coordVars, TypeOK
<1>7. CASE BlindAttach(u)
  <2>1. up' \in [UploadWorkers -> Uploads]
    BY <1>0, <1>7, UpStepType DEF BlindAttach
  <2>2. [db EXCEPT ![c].wid = srv[c].id] \in [Contacts -> Rows]
    BY <1>0, Fields, RowFieldType
  <2>3. db' \in [Contacts -> Rows]
    BY <1>7, <2>2 DEF BlindAttach, TypeOK
  <2>4. blind' \in [Contacts -> BOOLEAN]
    <3>1. (~(up[u].took /\ up[u].rev = db[c].rev)) \in BOOLEAN
      OBVIOUS
    <3>2. QED BY <1>0, <1>7, <3>1 DEF BlindAttach, TypeOK
  <2>5. QED BY <1>7, <2>1, <2>3, <2>4 DEF BlindAttach, OnlyUp, srvVars, coordVars, TypeOK
<1>8. CASE Lookup(u)
  <2>1. srv[c].id \in Ids
    BY <1>0, Fields
  <2>2. up' \in [UploadWorkers -> Uploads]
    BY <1>0, <1>8, <2>1, UpStepType DEF Lookup
  <2>3. QED BY <1>8, <2>2 DEF Lookup, OnlyUp, srvVars, coordVars, TypeOK
<1>9. CASE Attach(u)
  <2> DEFINE newer == db[c].rev > up[u].rev
  <2>1. up' \in [UploadWorkers -> Uploads]
    BY <1>0, <1>9, UpStepType DEF Attach
  <2>2. [db[c] EXCEPT !.wid = up[u].rid, !.dirty = db[c].dirty \/ newer] \in Rows
    <3>1. db[c] \in Rows /\ up[u].rid \in Ids /\ (db[c].dirty \/ newer) \in BOOLEAN
      BY <1>0, Fields DEF TypeOK
    <3>2. QED BY <3>1 DEF Rows
  <2>3. db' \in [Contacts -> Rows]
    <3>1. UNCHANGED db \/ db' = [db EXCEPT ![c] = [db[c] EXCEPT !.wid = up[u].rid,
                                                               !.dirty = db[c].dirty \/ newer]]
      BY <1>9 DEF Attach
    <3> HIDE DEF newer
    <3>2. QED BY <1>0, <2>2, <3>1 DEF TypeOK
  <2>4. blind' \in [Contacts -> BOOLEAN]
    BY <1>0, <1>9 DEF Attach, TypeOK
  <2>5. owed' \in [Contacts -> Owed]
    BY <1>0, <1>9 DEF Attach, TypeOK, Owed
  <2>6. QED BY <1>9, <2>1, <2>3, <2>4, <2>5 DEF Attach, OnlyUp, srvVars, coordVars, TypeOK
<1>10. CASE Check(u)
  <2> DEFINE newer == db[c].rev > up[u].rev
  <2>1. [up[u] EXCEPT !.st = "done", !.res = "ok", !.chg = newer] \in Uploads
    <3>1. newer \in BOOLEAN
      OBVIOUS
    <3> HIDE DEF newer
    <3>2. QED BY <1>0, <3>1 DEF Uploads
  <2>2. up' \in [UploadWorkers -> Uploads]
    BY <1>10, <2>1, UpStepType DEF Check
  <2>3. owed' \in [Contacts -> Owed]
    BY <1>0, <1>10 DEF Check, TypeOK, Owed
  <2>4. QED BY <1>10, <2>2, <2>3 DEF Check, OnlyUp, srvVars, coordVars, TypeOK
<1>11. QED
  BY <1>1, <1>2, <1>3, <1>4, <1>5, <1>6, <1>7, <1>8, <1>9, <1>10 DEF UploadWork

\* A result handled by the owner loop.
LEMMA ResultType ==
    ASSUME TypeOK,
           \/ \E w \in PatchWorkers : PatchDone(w)
           \/ \E u \in UploadWorkers : UploadDone(u)
           \/ RetryQueue
    PROVE  TypeOK'
<1>1. ASSUME NEW w \in PatchWorkers, PatchDone(w) PROVE TypeOK'
  <2> DEFINE c == patch[w].c
  <2>1. c \in Contacts /\ Chain(c, NoRev) \in Patches /\ IdlePatch \in Patches
    BY Fields, InitialValues
  <2>2. patch' \in [PatchWorkers -> Patches]
    BY <1>1, <2>1, PatchStepType DEF PatchDone
  <2>3. inFlight' \subseteq Contacts /\ queued' \subseteq Contacts
    BY <1>1 DEF PatchDone, TypeOK
  <2>4. owed' \in [Contacts -> Owed]
    BY <1>1, <2>1 DEF PatchDone, TypeOK, Owed
  <2>5. QED BY <1>1, <2>2, <2>3, <2>4 DEF PatchDone, TypeOK, dbVars, srvVars
<1>2. ASSUME NEW u \in UploadWorkers, UploadDone(u) PROVE TypeOK'
  <2> DEFINE c == up[u].c
  <2>1. c \in Contacts /\ IdleUp \in Uploads
    BY Fields, InitialValues
  <2>2. [up[u] EXCEPT !.st = "lookup", !.retried = TRUE, !.res = "none"] \in Uploads
    <3>1. up[u] \in Uploads /\ "lookup" \in UpStates
      BY DEF TypeOK, UpStates
    <3>2. QED BY <3>1 DEF Uploads
  <2>3. up' \in [UploadWorkers -> Uploads]
    BY <1>2, <2>1, <2>2, UpStepType DEF UploadDone
  <2>4. /\ inFlight' \subseteq Contacts /\ queued' \subseteq Contacts
        /\ patch' \in [PatchWorkers -> Patches]
    BY <1>2, <2>1, PushOrQueueType DEF UploadDone, TypeOK, coordVars
  <2>5. QED BY <1>2, <2>3, <2>4 DEF UploadDone, TypeOK, dbVars, srvVars
<1>3. CASE RetryQueue
  <2> DEFINE new == listed \ inFlight
  <2>1. PICK run \in [new -> {w \in PatchWorkers : patch[w].st = "idle"}] :
          patch' = [w \in PatchWorkers |->
                      IF \E c \in new : run[c] = w
                      THEN Chain(CHOOSE c \in new : run[c] = w, NoRev)
                      ELSE patch[w]]
    BY <1>3 DEF RetryQueue
  <2>2. patch' \in [PatchWorkers -> Patches]
    <3>1. ASSUME NEW w \in PatchWorkers PROVE patch'[w] \in Patches
      <4>1. CASE \E c \in new : run[c] = w
        <5>1. (CHOOSE c \in new : run[c] = w) \in Contacts
          BY <4>1 DEF TypeOK
        <5>2. QED BY <2>1, <4>1, <5>1, InitialValues
      <4>2. CASE ~ \E c \in new : run[c] = w
        BY <2>1, <4>2 DEF TypeOK
      <4>3. QED BY <4>1, <4>2
    <3>2. QED BY <2>1, <3>1
  <2>3. owed' \in [Contacts -> Owed]
    BY <1>3 DEF RetryQueue, TypeOK, Owed
  <2>4. inFlight' \subseteq Contacts /\ listed' \subseteq Contacts
    BY <1>3 DEF RetryQueue, TypeOK
  <2>5. QED BY <1>3, <2>2, <2>3, <2>4 DEF RetryQueue, TypeOK, dbVars, srvVars
<1>4. QED BY <1>1, <1>2, <1>3

\* The remaining steps.
LEMMA OtherType ==
    ASSUME TypeOK,
           \/ \E c \in Contacts : DownloadRead(c) \/ DownloadWrite(c) \/ RemoteWork(c)
           \/ \E u \in UploadWorkers, c \in Contacts : StartBatch(u, c)
           \/ WriteRefresh \/ RetryList \/ LateLands \/ Crash
    PROVE  TypeOK'
<1>1. ASSUME NEW c \in Contacts, DownloadRead(c) PROVE TypeOK'
  <2>1. [id |-> srv[c].id, body |-> srv[c].body] \in Pages
    BY Fields DEF Pages
  <2>2. QED BY <1>1, <2>1 DEF DownloadRead, TypeOK, dbVars, srvVars, coordVars
<1>2. ASSUME NEW c \in Contacts, DownloadWrite(c) PROVE TypeOK'
  <2>1. [id |-> 0, body |-> Blank] \in Pages
    BY InitialValues DEF Pages
  <2>2. [db EXCEPT ![c].wid = page[c].id] \in [Contacts -> Rows]
    BY Fields, RowFieldType
  <2>3. [wid |-> page[c].id, dirty |-> FALSE, rev |-> 0, body |-> page[c].body] \in Rows
    BY Fields DEF Rows
  <2>4. db' \in [Contacts -> Rows]
    BY <1>2, <2>2, <2>3 DEF DownloadWrite, TypeOK
  <2>5. blind' \in [Contacts -> BOOLEAN]
    BY <1>2 DEF DownloadWrite, TypeOK
  <2>6. QED BY <1>2, <2>1, <2>4, <2>5 DEF DownloadWrite, TypeOK, srvVars, coordVars
<1>3. ASSUME NEW c \in Contacts, RemoteWork(c) PROVE TypeOK'
  <2>1. [id |-> 0, body |-> Blank, rev |-> 0] \in Copies
    BY InitialValues DEF Copies
  <2>2. fresh < MaxText => fresh + 1 \in Texts
    BY SyncAssumption DEF TypeOK, Texts, SyncAssumption
  <2>3. ASSUME fresh + 1 \in Texts
        PROVE  /\ [txt |-> fresh + 1, enr |-> FALSE] \in Body
               /\ [srv[c].body EXCEPT !.txt = fresh + 1] \in Body
    BY <2>3, Fields DEF Body
  <2>4. /\ srv' \in [Contacts -> Copies] /\ seen' \in [Contacts -> Pasts]
        /\ made' \in [Contacts -> Ids] /\ fresh' \in Texts
    <3>1. CASE fresh < MaxText /\ fresh' = fresh + 1
               /\ CreateCopy(c, [txt |-> fresh + 1, enr |-> FALSE], 0)
      BY <2>2, <2>3, <3>1, CreateCopyType
    <3>2. CASE /\ fresh < MaxText /\ fresh' = fresh + 1 /\ UNCHANGED made
               /\ ServerHolds(c, srv[c].id, [srv[c].body EXCEPT !.txt = fresh + 1], srv[c].rev)
      BY <2>2, <2>3, <3>2, Fields, ServerHoldsType DEF TypeOK
    <3>3. CASE /\ srv' = [srv EXCEPT ![c] = [id |-> 0, body |-> Blank, rev |-> 0]]
               /\ UNCHANGED <<made, seen, fresh>>
      BY <2>1, <3>3 DEF TypeOK
    <3>4. QED BY <1>3, <3>1, <3>2, <3>3 DEF RemoteWork
  <2>5. QED BY <1>3, <2>4 DEF RemoteWork, TypeOK, dbVars, coordVars
<1>4. ASSUME NEW u \in UploadWorkers, NEW c \in Contacts, StartBatch(u, c) PROVE TypeOK'
  <2>1. ASSUME NEW st \in {"bulk", "match"} PROVE NewUpload(c, "batch", st) \in Uploads
    BY Fields, InitialValues DEF NewUpload, Uploads, UpStates
  <2>2. up' \in [UploadWorkers -> Uploads]
    BY <1>4, <2>1 DEF StartBatch, TypeOK
  <2>3. QED BY <1>4, <2>2 DEF StartBatch, OnlyUp, TypeOK, srvVars, coordVars
<1>5. CASE WriteRefresh
  <2>1. PICK m \in merging :
          db' = [db EXCEPT ![m.c] = [@ EXCEPT !.body = m.body, !.rev = db[m.c].rev + 1]]
    BY <1>5 DEF WriteRefresh
  <2>2. m.c \in Contacts /\ m.body \in Body
    BY DEF TypeOK, Merges
  <2>3. db[m.c].rev + 1 \in Nat /\ db[m.c] \in Rows
    BY <2>2, Fields DEF TypeOK
  <2>4. [db[m.c] EXCEPT !.body = m.body, !.rev = db[m.c].rev + 1] \in Rows
    BY <2>2, <2>3 DEF Rows
  <2>5. db' \in [Contacts -> Rows]
    BY <2>1, <2>2, <2>4 DEF TypeOK
  <2>6. QED BY <1>5, <2>5 DEF WriteRefresh, TypeOK, srvVars, coordVars
<1>6. CASE RetryList
  BY <1>6 DEF RetryList, Pending, TypeOK, dbVars, srvVars, coordVars
<1>7. CASE LateLands
  <2>1. PICK m \in late :
          /\ late' = late \ {m}
          /\ IF srv[m.c].id = m.wid THEN ServerHolds(m.c, m.wid, m.body, m.rev)
                                    ELSE UNCHANGED <<srv, seen>>
    BY <1>7 DEF LateLands
  <2>2. m.c \in Contacts /\ m.wid \in Ids /\ m.body \in Body /\ m.rev \in Nat
    BY DEF TypeOK, Lates
  <2>3. srv' \in [Contacts -> Copies] /\ seen' \in [Contacts -> Pasts]
    BY <2>1, <2>2, ServerHoldsType DEF TypeOK
  <2>4. late' \subseteq Lates
    BY <2>1 DEF TypeOK
  <2>5. QED BY <1>7, <2>3, <2>4 DEF LateLands, TypeOK, dbVars, coordVars
<1>8. CASE Crash
  <2>1. [id |-> 0, body |-> Blank] \in Pages
    BY InitialValues DEF Pages
  <2>2. owed' \in [Contacts -> Owed]
    BY <1>8 DEF Crash, Owed
  <2>3. QED BY <1>8, <2>1, <2>2, InitialValues DEF Crash, TypeOK, dbVars, srvVars
<1>9. QED BY <1>1, <1>2, <1>3, <1>4, <1>5, <1>6, <1>7, <1>8

-----------------------------------------------------------------------------
\* Every state has the types of TypeOK: the data of a row is never anything the
\* operator, a callbook or the server did not write, and ids stay within bounds.
THEOREM TypeCorrect == Spec => []TypeOK
<1>1. Init => TypeOK
  BY InitialValues DEF Init, TypeOK, Rows, Copies, Pages, Pasts, Owed
<1>2. TypeOK /\ [Next]_vars => TypeOK'
  <2> SUFFICES ASSUME TypeOK, [Next]_vars PROVE TypeOK'
    OBVIOUS
  <2>1. CASE UNCHANGED vars
    BY <2>1 DEF vars, TypeOK
  <2>2. CASE Next
    BY <2>2, OperatorType, PatchWorkType, UploadWorkType, ResultType, OtherType DEF Next
  <2>3. QED BY <2>1, <2>2
<1>3. QED BY <1>1, <1>2, PTL DEF Spec

-----------------------------------------------------------------------------
(* The coordinator serializes the pushes of a contact.                     *)

Busy(w) == patch[w].st # "idle"

\* A step that starts and ends no chain.
LEMMA ChainsKeep ==
    ASSUME OneChainPerContact, UNCHANGED inFlight, queued' \subseteq inFlight,
           \A w \in PatchWorkers : /\ Busy(w)' <=> Busy(w)
                                   /\ Busy(w) => patch'[w].c = patch[w].c
    PROVE  OneChainPerContact'
BY DEF OneChainPerContact, Busy

\* A request to push a contact starts a chain only where there is none.
LEMMA PushKeepsOne ==
    ASSUME TypeOK, OneChainPerContact, NEW c \in Contacts, NEW ack, PushOrQueue(c, ack)
    PROVE  OneChainPerContact'
<1>1. CASE c \in inFlight
  <2>1. UNCHANGED <<inFlight, patch>> /\ queued' \subseteq inFlight
    BY <1>1 DEF PushOrQueue, OneChainPerContact
  <2>2. QED BY <2>1, ChainsKeep DEF Busy
<1>2. CASE c \notin inFlight
  <2>1. PICK w \in PatchWorkers : /\ patch[w].st = "idle"
                                  /\ patch' = [patch EXCEPT ![w] = Chain(c, ack)]
    BY <1>2 DEF PushOrQueue
  <2>2. inFlight' = inFlight \cup {c} /\ UNCHANGED queued
    BY <1>2 DEF PushOrQueue
  <2>3. patch'[w].st = "read" /\ patch'[w].c = c
    BY <2>1 DEF TypeOK, Chain, IdlePatch
  <2>4. \A v \in PatchWorkers \ {w} : patch'[v] = patch[v]
    BY <2>1 DEF TypeOK
  <2>5. QED BY <1>2, <2>1, <2>2, <2>3, <2>4 DEF OneChainPerContact
<1>3. QED BY <1>1, <1>2

\* At most one PATCH of a contact is on its way; its slot is taken exactly while
\* it is.
THEOREM OneChain == Spec => []OneChainPerContact
<1>1. Init => OneChainPerContact
  BY DEF Init, OneChainPerContact, IdlePatch
<1>2. TypeOK /\ OneChainPerContact /\ [Next]_vars => OneChainPerContact'
  <2> SUFFICES ASSUME TypeOK, OneChainPerContact, [Next]_vars PROVE OneChainPerContact'
    OBVIOUS
  <2>0. ASSUME UNCHANGED <<inFlight, queued, patch>> PROVE OneChainPerContact'
    BY <2>0 DEF OneChainPerContact
  <2>1. ASSUME NEW c \in Contacts, Operator(c) PROVE OneChainPerContact'
    <3>1. CASE LogQSO(c)
      BY <2>0, <3>1 DEF LogQSO, coordVars
    <3>2. CASE Save(c)
      <4>1. PICK pushed \in Connection :
              IF Linked(c) THEN PushEdit(c, db[c].rev + 1, pushed)
                           ELSE UNCHANGED <<coordVars, owed>>
        BY <3>2 DEF Save
      <4>2. QED BY <2>0, <4>1, PushKeepsOne DEF PushEdit, coordVars
    <3>3. CASE Enrich(c)
      <4>1. PICK pushed \in Connection :
              IF Linked(c) THEN PushEdit(c, NoRev, pushed) ELSE UNCHANGED <<coordVars, owed>>
        BY <3>3 DEF Enrich
      <4>2. QED BY <2>0, <4>1, PushKeepsOne DEF PushEdit, coordVars
    <3>4. CASE ReadForRefresh(c)
      BY <2>0, <3>4 DEF ReadForRefresh, coordVars
    <3>5. QED BY <2>1, <3>1, <3>2, <3>3, <3>4 DEF Operator
  <2>2. ASSUME NEW w \in PatchWorkers, PatchWork(w) PROVE OneChainPerContact'
    <3> DEFINE Steps(p) == /\ patch' = [patch EXCEPT ![w] = p]
                           /\ p.st # "idle" /\ p.c = patch[w].c
    <3>1. UNCHANGED <<inFlight, queued>> /\ patch[w].st # "idle"
      BY <2>2 DEF PatchWork, PatchStep, OnlyPatch, PatchRead, PatchApplied, PatchNotFound,
                  PatchFails, PatchAck, PatchUnlink, PatchClear
    <3>2. \E p : Steps(p)
      <4>1. patch[w] \in Patches
        BY DEF TypeOK
      <4>2. ASSUME NEW st \in {"wire", "ack", "gone", "clear"}, PatchGoes(w, st)
            PROVE  Steps([patch[w] EXCEPT !.st = st])
        BY <4>1, <4>2 DEF PatchGoes, Patches
      <4>3. ASSUME NEW res, PatchEnds(w, res)
            PROVE  Steps([patch[w] EXCEPT !.st = "done", !.res = res])
        BY <4>1, <4>3 DEF PatchEnds, Patches
      <4>4. CASE PatchRead(w)
        <5> DEFINE c == patch[w].c
                   p == [patch[w] EXCEPT !.st = "wire", !.wid = db[c].wid, !.body = db[c].body,
                                         !.rev = db[c].rev,
                                         !.ack = IF patch[w].ack = NoRev
                                                 THEN db[c].rev ELSE patch[w].ack]
        <5>1. p.st = "wire" /\ p.c = patch[w].c
          BY <4>1 DEF Patches
        <5>2. patch' = [patch EXCEPT ![w] = p] \/ PatchEnds(w, "gone") \/ PatchEnds(w, "err")
          BY <4>4 DEF PatchRead
        <5>3. CASE patch' = [patch EXCEPT ![w] = p]
          <6> HIDE DEF p
          <6>1. QED BY <5>1, <5>3
        <5>4. CASE PatchEnds(w, "gone") \/ PatchEnds(w, "err")
          BY <4>3, <5>4
        <5>5. QED BY <5>2, <5>3, <5>4
      <4>5. CASE ~PatchRead(w)
        <5>1. \/ PatchGoes(w, "ack") \/ PatchGoes(w, "gone") \/ PatchGoes(w, "clear")
              \/ PatchEnds(w, "err") \/ PatchEnds(w, "ok") \/ PatchEnds(w, "incomplete")
              \/ PatchEnds(w, "gone")
          BY <2>2, <4>5 DEF PatchWork, PatchApplied, PatchNotFound, PatchFails, PatchAck,
                            PatchUnlink, PatchClear
        <5>2. QED BY <4>2, <4>3, <5>1
      <4>6. QED BY <4>4, <4>5
    <3>3. PICK p : Steps(p)
      BY <3>2
    <3>4. \A v \in PatchWorkers : /\ Busy(v)' <=> Busy(v)
                                  /\ Busy(v) => patch'[v].c = patch[v].c
      BY <3>1, <3>3 DEF Busy, TypeOK
    <3>5. QED BY <3>1, <3>4, ChainsKeep DEF OneChainPerContact
  <2>3. ASSUME NEW w \in PatchWorkers, PatchDone(w) PROVE OneChainPerContact'
    <3> DEFINE c == patch[w].c
    <3>1. c \in Contacts /\ patch[w].st # "idle"
      BY <2>3, Fields DEF PatchDone, PatchStep
    <3>2. CASE c \in queued
      <4>1. patch' = [patch EXCEPT ![w] = Chain(c, NoRev)] /\ UNCHANGED inFlight
            /\ queued' \subseteq queued
        BY <2>3, <3>2 DEF PatchDone
      <4>2. Chain(c, NoRev).st # "idle" /\ Chain(c, NoRev).c = c
        BY DEF Chain, IdlePatch
      <4>3. \A v \in PatchWorkers : /\ Busy(v)' <=> Busy(v)
                                    /\ Busy(v) => patch'[v].c = patch[v].c
        BY <3>1, <4>1, <4>2 DEF Busy, TypeOK
      <4>4. QED BY <4>1, <4>3, ChainsKeep DEF OneChainPerContact
    <3>3. CASE c \notin queued
      <4>1. patch' = [patch EXCEPT ![w] = IdlePatch] /\ inFlight' = inFlight \ {c}
            /\ UNCHANGED queued
        BY <2>3, <3>3 DEF PatchDone
      <4>2. patch'[w].st = "idle" /\ \A v \in PatchWorkers \ {w} : patch'[v] = patch[v]
        BY <4>1 DEF TypeOK, IdlePatch
      <4>3. QED BY <3>1, <3>3, <4>1, <4>2 DEF OneChainPerContact
    <3>4. QED BY <3>2, <3>3
  <2>4. ASSUME NEW u \in UploadWorkers, UploadDone(u) PROVE OneChainPerContact'
    <3>1. up[u].c \in Contacts
      BY Fields
    <3>2. PushOrQueue(up[u].c, NoRev) \/ UNCHANGED coordVars
      BY <2>4 DEF UploadDone
    <3>3. QED BY <2>0, <3>1, <3>2, PushKeepsOne DEF coordVars
  <2>5. CASE RetryQueue
    <3> DEFINE new == listed \ inFlight
    <3>1. PICK run \in [new -> {w \in PatchWorkers : patch[w].st = "idle"}] :
            /\ \A c, d \in new : run[c] = run[d] => c = d
            /\ patch' = [w \in PatchWorkers |->
                           IF \E c \in new : run[c] = w
                           THEN Chain(CHOOSE c \in new : run[c] = w, NoRev)
                           ELSE patch[w]]
      BY <2>5 DEF RetryQueue
    <3>2. inFlight' = inFlight \cup new /\ UNCHANGED queued
      BY <2>5 DEF RetryQueue
    <3>3. ASSUME NEW c \in new
          PROVE  /\ run[c] \in PatchWorkers /\ patch[run[c]].st = "idle"
                 /\ patch'[run[c]].st = "read" /\ patch'[run[c]].c = c
      <4>1. run[c] \in PatchWorkers /\ patch[run[c]].st = "idle"
        BY <3>1
      <4>2. (CHOOSE d \in new : run[d] = run[c]) = c
        BY <3>1
      <4>3. patch'[run[c]] = Chain(c, NoRev)
        BY <3>1, <4>1, <4>2
      <4>4. QED BY <4>1, <4>3 DEF Chain, IdlePatch
    <3>4. ASSUME NEW w \in PatchWorkers, ~ \E c \in new : run[c] = w
          PROVE  patch'[w] = patch[w]
      BY <3>1, <3>4
    <3> HIDE DEF new
    <3>5. \A w \in PatchWorkers : \/ patch'[w] = patch[w]
                                  \/ \E c \in new : w = run[c]
      BY <3>4
    <3>6. \A c \in new : c \notin inFlight
      BY DEF new
    <3>7. \A w \in PatchWorkers : patch'[w].st # "idle" => patch'[w].c \in inFlight'
      BY <3>2, <3>3, <3>5 DEF OneChainPerContact
    <3>8. \A c \in inFlight' : \E w \in PatchWorkers : patch'[w].st # "idle" /\ patch'[w].c = c
      <4>1. ASSUME NEW c \in inFlight
            PROVE  \E w \in PatchWorkers : patch'[w].st # "idle" /\ patch'[w].c = c
        <5>1. PICK w \in PatchWorkers : patch[w].st # "idle" /\ patch[w].c = c
          BY DEF OneChainPerContact
        <5>2. patch'[w] = patch[w]
          BY <3>3, <3>5, <5>1
        <5>3. QED BY <5>1, <5>2
      <4>2. QED BY <3>2, <3>3, <4>1
    <3>9. \A v, w \in PatchWorkers :
            patch'[v].st # "idle" /\ patch'[w].st # "idle" /\ patch'[v].c = patch'[w].c => v = w
      BY <3>3, <3>5, <3>6 DEF OneChainPerContact
    <3>10. QED BY <3>2, <3>7, <3>8, <3>9 DEF OneChainPerContact
  <2>6. CASE Crash
    BY <2>6 DEF Crash, OneChainPerContact, IdlePatch
  <2>7. ASSUME NEW u \in UploadWorkers, UploadWork(u) PROVE OneChainPerContact'
    BY <2>0, <2>7 DEF UploadWork, OnlyUp, coordVars, WorkerEnrich, WorkerLoad, Match, Created,
                      Duplicate, PostFails, BlindAttach, Lookup, Attach, Check
  <2>8. ASSUME NEW c \in Contacts,
               \/ DownloadRead(c) \/ DownloadWrite(c) \/ RemoteWork(c)
               \/ \E u \in UploadWorkers : StartBatch(u, c)
        PROVE  OneChainPerContact'
    BY <2>0, <2>8 DEF DownloadRead, DownloadWrite, RemoteWork, StartBatch, OnlyUp, coordVars
  <2>9. CASE WriteRefresh \/ RetryList \/ LateLands \/ UNCHANGED vars
    BY <2>0, <2>9 DEF WriteRefresh, RetryList, LateLands, vars, coordVars
  <2>10. QED
    BY <2>1, <2>2, <2>3, <2>4, <2>5, <2>6, <2>7, <2>8, <2>9 DEF Next
<1>3. QED BY <1>1, <1>2, TypeCorrect, PTL DEF Spec

-----------------------------------------------------------------------------
(* What a worker knows of a row, and what the server has held.             *)

Held(c, b) == b.txt \in seen[c].txt /\ (b.enr => seen[c].enr)

\* A snapshot of the contact's row: taken at its revision or an earlier one.
Snapshot(c, rev, body) ==
    /\ c \in logged /\ rev <= db[c].rev
    /\ rev = db[c].rev => body = db[c].body

\* A contact without a row has nothing to push.
NoRowYet == \A c \in Contacts \ logged : ~Linked(c) /\ ~db[c].dirty /\ db[c].rev = 0

UploadsKnow ==
    \A u \in UploadWorkers : up[u].st # "idle" =>
        /\ Snapshot(up[u].c, up[u].rev, up[u].body)
        /\ up[u].st \in {"enrich", "load"} => ~up[u].took
        /\ up[u].took => Held(up[u].c, up[u].body)

PatchKnows(w) ==
    LET p == patch[w] IN
    /\ p.c \in logged
    /\ p.st = "read" => p.ack <= db[p.c].rev
    /\ p.st \in {"wire", "ack"} => Snapshot(p.c, p.rev, p.body) /\ p.ack <= p.rev
    /\ p.st = "ack" => Held(p.c, p.body)
PatchesKnow == \A w \in PatchWorkers : patch[w].st # "idle" => PatchKnows(w)

\* The server's copy, and what a download has read of it.
CopiesHeld ==
    \A c \in Contacts : /\ srv[c].id # 0 => Held(c, srv[c].body)
                        /\ page[c].id # 0 => Held(c, page[c].body)

MergesKnow ==
    \A m \in merging :
        /\ m.c \in logged
        /\ m.body.txt \in seen[m.c].txt
        /\ m.body.enr => seen[m.c].enr \/ db[m.c].body.enr
        /\ m.known => db[m.c].body.txt \in seen[m.c].txt

IInv == /\ NoRowYet /\ UploadsKnow /\ PatchesKnow /\ CopiesHeld /\ MergesKnow
        /\ listed \subseteq logged /\ CleanMeansPushed


-----------------------------------------------------------------------------
(* What a step can do to the rows, the server and the workers.             *)

\* What the server has held it has held for ever.
SeenGrows == \A c \in Contacts : /\ seen[c].txt \subseteq seen'[c].txt
                                 /\ seen[c].enr => seen'[c].enr

\* A row stays, its revision never falls, and its data change only with it.
RowsGrow == /\ logged \subseteq logged'
            /\ \A c \in logged : /\ db'[c].rev >= db[c].rev
                                 /\ db'[c].rev = db[c].rev => db'[c].body = db[c].body

\* The facts of after the step, about what a worker carried before it.
HeldNext(c, b) == b.txt \in seen'[c].txt /\ (b.enr => seen'[c].enr)
SnapshotNext(c, rev, body) ==
    /\ c \in logged' /\ rev <= db'[c].rev
    /\ rev = db'[c].rev => body = db'[c].body

\* Taking a body makes it held.
LEMMA HoldsHeld ==
    ASSUME TypeOK, NEW c \in Contacts, NEW id \in Ids, NEW body \in Body, NEW rev \in Nat,
           ServerHolds(c, id, body, rev)
    PROVE  /\ SeenGrows /\ HeldNext(c, body) /\ srv'[c] = [id |-> id, body |-> body, rev |-> rev]
           /\ \A d \in Contacts \ {c} : srv'[d] = srv[d] /\ seen'[d] = seen[d]
<1>1. seen' = [seen EXCEPT ![c] = [txt |-> seen[c].txt \cup {body.txt},
                                   enr |-> seen[c].enr \/ body.enr]]
  BY DEF ServerHolds, TypeOK, Pasts
<1>2. seen'[c].txt = seen[c].txt \cup {body.txt} /\ seen'[c].enr = (seen[c].enr \/ body.enr)
      /\ \A d \in Contacts \ {c} : seen'[d] = seen[d]
  BY <1>1 DEF TypeOK
<1>3. srv'[c] = [id |-> id, body |-> body, rev |-> rev]
      /\ \A d \in Contacts \ {c} : srv'[d] = srv[d]
  BY DEF ServerHolds, TypeOK
<1>4. SeenGrows
  BY <1>2 DEF SeenGrows
<1>5. HeldNext(c, body)
  BY <1>2 DEF HeldNext
<1>6. QED BY <1>2, <1>3, <1>4, <1>5

\* What has been in a row, or held, stays so along any step.
LEMMA SeenStep ==
    ASSUME TypeOK, [Next]_vars
    PROVE  SeenGrows
<1>0. ASSUME UNCHANGED seen PROVE SeenGrows
  BY <1>0 DEF SeenGrows
<1>1. ASSUME NEW c \in Contacts, Operator(c) \/ DownloadRead(c) \/ DownloadWrite(c) PROVE SeenGrows
  BY <1>0, <1>1 DEF Operator, LogQSO, Save, Enrich, ReadForRefresh, DownloadRead, DownloadWrite, srvVars
<1>2. ASSUME NEW c \in Contacts, RemoteWork(c) PROVE SeenGrows
  <2>1. CASE fresh < MaxText
    <3>1. fresh + 1 \in Texts
      BY <2>1, SyncAssumption DEF TypeOK, Texts, SyncAssumption
    <3>2. /\ [txt |-> fresh + 1, enr |-> FALSE] \in Body
          /\ [srv[c].body EXCEPT !.txt = fresh + 1] \in Body
      BY <3>1, Fields DEF Body
    <3>3. made[c] + 1 \in Ids \/ ~(made[c] < MaxIds)
      BY SyncAssumption DEF TypeOK, Ids, SyncAssumption
    <3>4. QED BY <1>0, <1>2, <3>2, <3>3, Fields, HoldsHeld DEF RemoteWork, CreateCopy
  <2>2. CASE ~(fresh < MaxText)
    BY <1>0, <1>2, <2>2 DEF RemoteWork
  <2>3. QED BY <2>1, <2>2
<1>3. ASSUME NEW u \in UploadWorkers, NEW c \in Contacts, StartBatch(u, c) PROVE SeenGrows
  BY <1>0, <1>3 DEF StartBatch, srvVars
<1>4. ASSUME NEW w \in PatchWorkers, PatchWork(w) PROVE SeenGrows
  <2>1. CASE PatchApplied(w)
    BY <2>1, Fields, HoldsHeld DEF PatchApplied
  <2>2. CASE ~PatchApplied(w)
    BY <1>0, <1>4, <2>2 DEF PatchWork, PatchRead, PatchNotFound, PatchFails, PatchAck, PatchUnlink,
                            PatchClear, srvVars
  <2>3. QED BY <2>1, <2>2
<1>5. ASSUME NEW w \in PatchWorkers, PatchDone(w) PROVE SeenGrows
  BY <1>0, <1>5 DEF PatchDone, srvVars
<1>6. ASSUME NEW u \in UploadWorkers, UploadWork(u) PROVE SeenGrows
  <2>1. CASE Created(u)
    <3>1. made[up[u].c] + 1 \in Ids
      BY <2>1, Fields, SyncAssumption DEF Created, CreateCopy, TypeOK, Ids, SyncAssumption
    <3>2. QED BY <2>1, <3>1, Fields, HoldsHeld DEF Created, CreateCopy
  <2>2. CASE ~Created(u)
    BY <1>0, <1>6, <2>2 DEF UploadWork, WorkerEnrich, WorkerLoad, Match, Duplicate, PostFails,
                            BlindAttach, Lookup, Attach, Check, srvVars
  <2>3. QED BY <2>1, <2>2
<1>7. ASSUME NEW u \in UploadWorkers, UploadDone(u) PROVE SeenGrows
  BY <1>0, <1>7 DEF UploadDone, srvVars
<1>8. CASE LateLands
  <2>1. PICK m \in late :
          IF srv[m.c].id = m.wid THEN ServerHolds(m.c, m.wid, m.body, m.rev)
                                 ELSE UNCHANGED <<srv, seen>>
    BY <1>8 DEF LateLands
  <2>2. m.c \in Contacts /\ m.wid \in Ids /\ m.body \in Body /\ m.rev \in Nat
    BY DEF TypeOK, Lates
  <2>3. QED BY <1>0, <2>1, <2>2, HoldsHeld
<1>9. CASE WriteRefresh \/ RetryList \/ RetryQueue \/ Crash \/ UNCHANGED vars
  BY <1>0, <1>9 DEF WriteRefresh, RetryList, RetryQueue, Crash, vars, srvVars
<1>10. QED BY <1>1, <1>2, <1>3, <1>4, <1>5, <1>6, <1>7, <1>8, <1>9 DEF Next

\* An edit of a row.
LEMMA EditedFields ==
    ASSUME TypeOK, NEW c \in Contacts, NEW body \in Body,
           db' = [db EXCEPT ![c] = Edited(@, body)]
    PROVE  /\ db'[c].wid = db[c].wid /\ db'[c].body = body /\ db'[c].rev = db[c].rev + 1
           /\ db'[c].dirty = (db[c].dirty \/ Linked(c))
           /\ \A d \in Contacts \ {c} : db'[d] = db[d]
<1>1. db[c] \in Rows /\ db' = [db EXCEPT ![c] = Edited(db[c], body)]
  BY DEF TypeOK
<1>2. QED BY <1>1 DEF TypeOK, Edited, Rows, Linked

\* What the statements that set one field of a row, or two, leave of the rest.
Keeps(c) == /\ db'[c].rev = db[c].rev /\ db'[c].body = db[c].body
            /\ \A d \in Contacts \ {c} : db'[d] = db[d]

\* Attaching or dropping the id of a row.
LEMMA SetWid ==
    ASSUME TypeOK, NEW c \in Contacts, NEW wid, db' = [db EXCEPT ![c].wid = wid]
    PROVE  Keeps(c) /\ db'[c].wid = wid /\ db'[c].dirty = db[c].dirty
<1>1. db[c] \in Rows /\ db'[c] = [db[c] EXCEPT !.wid = wid]
  BY DEF TypeOK
<1>2. \A d \in Contacts \ {c} : db'[d] = db[d]
  BY DEF TypeOK
<1>3. QED BY <1>1, <1>2 DEF Rows, Keeps

\* Setting or clearing the pending flag of a row.
LEMMA SetDirty ==
    ASSUME TypeOK, NEW c \in Contacts, NEW dirty, db' = [db EXCEPT ![c].dirty = dirty]
    PROVE  Keeps(c) /\ db'[c].wid = db[c].wid /\ db'[c].dirty = dirty
<1>1. db[c] \in Rows /\ db'[c] = [db[c] EXCEPT !.dirty = dirty]
  BY DEF TypeOK
<1>2. \A d \in Contacts \ {c} : db'[d] = db[d]
  BY DEF TypeOK
<1>3. QED BY <1>1, <1>2 DEF Rows, Keeps

\* Attaching an id and clearing the flag in one write.
LEMMA SetLink ==
    ASSUME TypeOK, NEW c \in Contacts, NEW wid, NEW rev \in Nat,
           db' = [db EXCEPT ![c] = [@ EXCEPT !.wid = wid,
                                             !.dirty = db[c].dirty \/ db[c].rev > rev]]
    PROVE  Keeps(c) /\ db'[c].wid = wid /\ db'[c].dirty = (db[c].dirty \/ db[c].rev > rev)
<1> DEFINE pending == db[c].dirty \/ db[c].rev > rev
<1>1. db[c] \in Rows /\ db'[c] = [db[c] EXCEPT !.wid = wid, !.dirty = pending]
  BY DEF TypeOK
<1>2. pending \in BOOLEAN
  BY <1>1 DEF Rows
<1>3. \A d \in Contacts \ {c} : db'[d] = db[d]
  BY DEF TypeOK
<1> HIDE DEF pending
<1>4. db'[c].rev = db[c].rev /\ db'[c].body = db[c].body /\ db'[c].wid = wid
      /\ db'[c].dirty = pending
  BY <1>1, <1>2 DEF Rows
<1>5. QED BY <1>3, <1>4 DEF Keeps, pending

\* The merge of a server copy into a row.
LEMMA SetMerged ==
    ASSUME TypeOK, NEW c \in Contacts, NEW body,
           db' = [db EXCEPT ![c] = [@ EXCEPT !.body = body, !.rev = db[c].rev + 1]]
    PROVE  /\ db'[c].body = body /\ db'[c].rev = db[c].rev + 1
           /\ db'[c].wid = db[c].wid /\ db'[c].dirty = db[c].dirty
           /\ \A d \in Contacts \ {c} : db'[d] = db[d]
<1>1. db[c] \in Rows /\ db'[c] = [db[c] EXCEPT !.body = body, !.rev = db[c].rev + 1]
  BY DEF TypeOK
<1>2. \A d \in Contacts \ {c} : db'[d] = db[d]
  BY DEF TypeOK
<1>3. QED BY <1>1, <1>2 DEF Rows

\* Of everything that writes a row, what it leaves of the other rows and how it
\* moves its own.
RowMoves(c) ==
    /\ \A d \in Contacts \ {c} : db'[d] = db[d]
    /\ logged \subseteq logged' /\ logged' \subseteq logged \cup {c}
    /\ \/ /\ c \in logged
          /\ \/ db'[c].rev = db[c].rev + 1
             \/ db'[c].rev = db[c].rev /\ db'[c].body = db[c].body
       \/ c \in logged' \ logged
       \/ c \notin logged' /\ db'[c] = db[c]

\* Whatever happens to a row, its texts and its filled blanks only grow.
LEMMA RowMovesGrow ==
    ASSUME TypeOK, NoRowYet, NEW c \in Contacts, RowMoves(c)
    PROVE  RowsGrow /\ NoRowYet'
<1>1. \A d \in Contacts : db[d].rev \in Nat
  BY Fields
<1>2. ASSUME NEW d \in logged
      PROVE  db'[d].rev >= db[d].rev /\ (db'[d].rev = db[d].rev => db'[d].body = db[d].body)
  <2>1. d \in Contacts
    BY DEF TypeOK
  <2>2. CASE d # c
    BY <1>1, <2>1, <2>2 DEF RowMoves
  <2>3. CASE d = c
    BY <1>1, <2>1, <2>3 DEF RowMoves
  <2>4. QED BY <2>2, <2>3
<1>3. ASSUME NEW d \in Contacts \ logged' PROVE d \notin logged /\ db'[d] = db[d]
  BY <1>3 DEF RowMoves
<1>4. NoRowYet'
  BY <1>3 DEF NoRowYet, Linked
<1>5. QED BY <1>2, <1>4 DEF RowMoves, RowsGrow

\* The rows do not change.
LEMMA RowsSame ==
    ASSUME TypeOK, NoRowYet, UNCHANGED dbVars
    PROVE  RowsGrow /\ NoRowYet'
BY Fields DEF RowsGrow, NoRowYet, dbVars, Linked, TypeOK

\* Every step changes a row in one of the ways of RowMoves.
LEMMA RowStep ==
    ASSUME TypeOK, IInv, [Next]_vars
    PROVE  RowsGrow /\ NoRowYet'
<1>0. NoRowYet
  BY DEF IInv
<1>1. ASSUME NEW c \in Contacts, Operator(c) PROVE RowsGrow /\ NoRowYet'
  <2>1. CASE LogQSO(c)
    <3>1. RowMoves(c)
      BY <2>1 DEF LogQSO, RowMoves
    <3>2. QED BY <1>0, <3>1, RowMovesGrow
  <2>2. CASE Save(c)
    <3>1. PICK enr \in {db[c].body.enr, FALSE} :
            db' = [db EXCEPT ![c] = Edited(@, [txt |-> fresh + 1, enr |-> enr])]
      BY <2>2 DEF Save
    <3>2. fresh + 1 \in Texts
      BY <2>2, SyncAssumption DEF Save, TypeOK, Texts, SyncAssumption
    <3>3. [txt |-> fresh + 1, enr |-> enr] \in Body
      BY <3>2, Fields DEF Body
    <3>4. db'[c].rev = db[c].rev + 1 /\ \A d \in Contacts \ {c} : db'[d] = db[d]
      BY <3>1, <3>3, EditedFields
    <3>5. RowMoves(c)
      BY <2>2, <3>4 DEF Save, RowMoves
    <3>6. QED BY <1>0, <3>5, RowMovesGrow
  <2>3. CASE Enrich(c)
    <3>1. [db[c].body EXCEPT !.enr = TRUE] \in Body
      BY Fields DEF Body
    <3>2. db'[c].rev = db[c].rev + 1 /\ \A d \in Contacts \ {c} : db'[d] = db[d]
      BY <2>3, <3>1, EditedFields DEF Enrich, TypeOK
    <3>3. RowMoves(c)
      BY <2>3, <3>2 DEF Enrich, RowMoves
    <3>4. QED BY <1>0, <3>3, RowMovesGrow
  <2>4. CASE ReadForRefresh(c)
    BY <1>0, <2>4, RowsSame DEF ReadForRefresh
  <2>5. QED BY <1>1, <2>1, <2>2, <2>3, <2>4 DEF Operator
<1>2. ASSUME NEW c \in Contacts, DownloadWrite(c) PROVE RowsGrow /\ NoRowYet'
  <2>1. RowMoves(c)
    <3>1. CASE c \in logged
      BY <1>2, <3>1 DEF DownloadWrite, RowMoves, TypeOK, Rows
    <3>2. CASE c \notin logged
      BY <1>2, <3>2 DEF DownloadWrite, RowMoves, TypeOK
    <3>3. QED BY <3>1, <3>2
  <2>2. QED BY <1>0, <2>1, RowMovesGrow
<1>3. ASSUME NEW w \in PatchWorkers, PatchWork(w) PROVE RowsGrow /\ NoRowYet'
  <2> DEFINE c == patch[w].c
  <2>1. c \in Contacts
    BY Fields
  <2>2. UNCHANGED logged
    BY <1>3 DEF PatchWork, PatchRead, PatchApplied, PatchNotFound, PatchFails, PatchAck,
                PatchUnlink, PatchClear, OnlyPatch
  <2>3. CASE UNCHANGED db
    BY <1>0, <2>2, <2>3, RowsSame DEF dbVars
  <2>4. CASE ~UNCHANGED db
    <3>1. c \in logged
      BY <1>3, <2>4 DEF PatchWork, PatchRead, PatchApplied, PatchNotFound, PatchFails, PatchAck,
                PatchUnlink, PatchClear, PatchStep, IInv, PatchesKnow, PatchKnows
    <3>2. db' = [db EXCEPT ![c].dirty = FALSE] \/ db' = [db EXCEPT ![c].wid = 0]
      BY <1>3, <2>4 DEF PatchWork, PatchRead, PatchApplied, PatchNotFound, PatchFails, PatchAck,
                PatchUnlink, PatchClear
    <3>3. Keeps(c)
      BY <2>1, <3>2, SetDirty, SetWid
    <3>4. RowMoves(c)
      BY <2>2, <3>1, <3>3 DEF RowMoves, Keeps
    <3>5. QED BY <1>0, <2>1, <3>4, RowMovesGrow
  <2>5. QED BY <2>3, <2>4
<1>4. ASSUME NEW u \in UploadWorkers, UploadWork(u) PROVE RowsGrow /\ NoRowYet'
  <2> DEFINE c == up[u].c
  <2>1. c \in Contacts
    BY Fields
  <2>2. UNCHANGED logged
    BY <1>4 DEF UploadWork, WorkerEnrich, WorkerLoad, Match, Created, Duplicate, PostFails,
                BlindAttach, Lookup, Attach, Check, OnlyUp
  <2>3. CASE UNCHANGED db
    BY <1>0, <2>2, <2>3, RowsSame DEF dbVars
  <2>4. CASE ~UNCHANGED db
    <3>1. c \in logged
      BY <1>4, <2>4 DEF UploadWork, WorkerEnrich, WorkerLoad, Match, Created, Duplicate, PostFails,
                BlindAttach, Lookup, Attach, Check, UpStep, IInv, UploadsKnow, Snapshot
    <3>2. CASE WorkerEnrich(u)
      <4>1. [db[c].body EXCEPT !.enr = TRUE] \in Body
        BY <2>1, Fields DEF Body
      <4>2. db' = [db EXCEPT ![c] = Edited(@, [db[c].body EXCEPT !.enr = TRUE])]
        BY <2>1, <2>4, <3>2 DEF WorkerEnrich, TypeOK
      <4>3. db'[c].rev = db[c].rev + 1 /\ \A d \in Contacts \ {c} : db'[d] = db[d]
        BY <2>1, <4>1, <4>2, EditedFields
      <4>4. RowMoves(c)
        BY <2>2, <3>1, <4>3 DEF RowMoves
      <4>5. QED BY <1>0, <2>1, <4>4, RowMovesGrow
    <3>3. CASE BlindAttach(u) \/ Attach(u)
      <4>1. Keeps(c)
        BY <2>1, <2>4, <3>3, Fields, SetWid, SetLink DEF BlindAttach, Attach
      <4>2. RowMoves(c)
        BY <2>2, <3>1, <4>1 DEF RowMoves, Keeps
      <4>3. QED BY <1>0, <2>1, <4>2, RowMovesGrow
    <3>4. QED
      BY <1>4, <2>4, <3>2, <3>3 DEF UploadWork, WorkerLoad, Match, Created, Duplicate, PostFails,
                Lookup, Check
  <2>5. QED BY <2>3, <2>4
<1>5. CASE WriteRefresh
  <2>1. PICK m \in merging :
          db' = [db EXCEPT ![m.c] = [@ EXCEPT !.body = m.body, !.rev = db[m.c].rev + 1]]
    BY <1>5 DEF WriteRefresh
  <2>2. m.c \in Contacts /\ m.c \in logged /\ db[m.c] \in Rows /\ UNCHANGED logged
    BY <1>5 DEF WriteRefresh, TypeOK, Merges, IInv, MergesKnow
  <2>3. db'[m.c].rev = db[m.c].rev + 1 /\ \A d \in Contacts \ {m.c} : db'[d] = db[d]
    BY <2>1, <2>2, SetMerged
  <2>4. RowMoves(m.c)
    BY <2>2, <2>3 DEF RowMoves
  <2>5. QED BY <1>0, <2>2, <2>4, RowMovesGrow
<1>6. ASSUME NEW c \in Contacts, DownloadRead(c) \/ RemoteWork(c) PROVE RowsGrow /\ NoRowYet'
  BY <1>0, <1>6, RowsSame DEF DownloadRead, RemoteWork
<1>7. ASSUME NEW u \in UploadWorkers,
             UploadDone(u) \/ \E c \in Contacts : StartBatch(u, c)
      PROVE  RowsGrow /\ NoRowYet'
  BY <1>0, <1>7, RowsSame DEF UploadDone, StartBatch, OnlyUp, dbVars
<1>8. ASSUME NEW w \in PatchWorkers, PatchDone(w) PROVE RowsGrow /\ NoRowYet'
  BY <1>0, <1>8, RowsSame DEF PatchDone
<1>9. CASE RetryList \/ RetryQueue \/ LateLands \/ Crash \/ UNCHANGED vars
  BY <1>0, <1>9, RowsSame DEF RetryList, RetryQueue, LateLands, Crash, vars, dbVars
<1>10. QED BY <1>1, <1>2, <1>3, <1>4, <1>5, <1>6, <1>7, <1>8, <1>9 DEF Next

-----------------------------------------------------------------------------
(* What a step does to the workers.                                        *)

OthersUp(u) == \A v \in UploadWorkers \ {u} : up'[v] = up[v]
SameJob(u)  == up'[u].c = up[u].c /\ up'[u].body = up[u].body /\ up'[u].rev = up[u].rev

\* The moves of an upload worker change its state and little else.
LEMMA UpGoesDoes ==
    ASSUME TypeOK, NEW u \in UploadWorkers, NEW st, UpGoes(u, st)
    PROVE  /\ OthersUp(u) /\ SameJob(u) /\ up'[u].st = st
           /\ up'[u].took = up[u].took /\ up'[u].rid = up[u].rid
           /\ up'[u].res = up[u].res /\ up'[u].chg = up[u].chg
<1>1. up[u] \in Uploads /\ up'[u] = [up[u] EXCEPT !.st = st] /\ OthersUp(u)
  BY DEF TypeOK, UpGoes, OthersUp
<1>2. QED BY <1>1 DEF Uploads, SameJob

\* Ending the work on a contact.
LEMMA UpEndsDoes ==
    ASSUME TypeOK, NEW u \in UploadWorkers, NEW res, UpEnds(u, res)
    PROVE  /\ OthersUp(u) /\ SameJob(u) /\ up'[u].st = "done" /\ up'[u].res = res
           /\ up'[u].took = up[u].took /\ up'[u].rid = up[u].rid /\ up'[u].chg = up[u].chg
<1>1. up[u] \in Uploads /\ up'[u] = [up[u] EXCEPT !.st = "done", !.res = res] /\ OthersUp(u)
  BY DEF TypeOK, UpEnds, OthersUp
<1>2. QED BY <1>1 DEF Uploads, SameJob

\* Finding an id to attach.
LEMMA UpFindsDoes ==
    ASSUME TypeOK, NEW u \in UploadWorkers, NEW id, UpFinds(u, id)
    PROVE  /\ OthersUp(u) /\ SameJob(u) /\ up'[u].st = "attach" /\ up'[u].rid = id
           /\ up'[u].took = up[u].took /\ up'[u].res = up[u].res /\ up'[u].chg = up[u].chg
<1>1. up[u] \in Uploads /\ up'[u] = [up[u] EXCEPT !.st = "attach", !.rid = id] /\ OthersUp(u)
  BY DEF TypeOK, UpFinds, OthersUp
<1>2. QED BY <1>1 DEF Uploads, SameJob

\* Giving up on a copy another row holds.
LEMMA UpTakenDoes ==
    ASSUME TypeOK, NEW u \in UploadWorkers, NEW st, UpTaken(u, st)
    PROVE  /\ OthersUp(u) /\ SameJob(u) /\ up'[u].st = st
           /\ up'[u].took = TRUE /\ up'[u].rid = up[u].rid
           /\ up'[u].res = up[u].res /\ up'[u].chg = up[u].chg
<1>1. up[u] \in Uploads /\ up'[u] = [up[u] EXCEPT !.st = st, !.took = TRUE] /\ OthersUp(u)
  BY DEF TypeOK, UpTaken, OthersUp
<1>2. QED BY <1>1 DEF Uploads, SameJob

\* Creating the copy: the worker looks for its id, attaches it, or is done.
LEMMA CreatedDoes ==
    ASSUME TypeOK, NEW u \in UploadWorkers, Created(u)
    PROVE  /\ OthersUp(u) /\ SameJob(u)
           /\ \/ up'[u].st \in {"lookup", "blind", "import"}
              \/ up'[u].st = "attach" /\ up'[u].rid = made[up[u].c] + 1
              \/ up'[u].st = "done" /\ up'[u].res = "fail"
<1>1. up[u] \in Uploads
  BY DEF TypeOK
<1>2. CASE up' = [up EXCEPT ![u] = [@ EXCEPT !.st = "attach", !.took = TRUE,
                                             !.rid = made[up[u].c] + 1]]
  <2>1. /\ up'[u] = [up[u] EXCEPT !.st = "attach", !.took = TRUE, !.rid = made[up[u].c] + 1]
        /\ OthersUp(u)
    BY <1>2 DEF TypeOK, OthersUp
  <2>2. QED BY <1>1, <2>1 DEF Uploads, SameJob
<1>3. CASE up' = [up EXCEPT ![u] = [@ EXCEPT !.st = "done", !.res = "fail", !.took = TRUE]]
  <2>1. /\ up'[u] = [up[u] EXCEPT !.st = "done", !.res = "fail", !.took = TRUE]
        /\ OthersUp(u)
    BY <1>3 DEF TypeOK, OthersUp
  <2>2. QED BY <1>1, <2>1 DEF Uploads, SameJob
<1>4. CASE UpTaken(u, "lookup") \/ UpTaken(u, "blind") \/ UpTaken(u, "import")
  BY <1>4, UpTakenDoes
<1>5. QED BY <1>2, <1>3, <1>4 DEF Created

\* Loading the row is a fresh snapshot of it.
LEMMA LoadDoes ==
    ASSUME TypeOK, NEW u \in UploadWorkers, WorkerLoad(u)
    PROVE  /\ OthersUp(u) /\ up'[u].c = up[u].c /\ up'[u].st = "post"
           /\ up'[u].body = db[up[u].c].body /\ up'[u].rev = db[up[u].c].rev
           /\ up'[u].took = up[u].took
<1>1. up[u] \in Uploads
  BY DEF TypeOK
<1>2. /\ up'[u] = [up[u] EXCEPT !.st = "post", !.body = db[up[u].c].body,
                                !.rev = db[up[u].c].rev]
      /\ OthersUp(u)
  BY DEF TypeOK, OthersUp, WorkerLoad
<1>3. QED BY <1>1, <1>2 DEF Uploads

\* The check of the revision, when it answers.
LEMMA CheckDoes ==
    ASSUME TypeOK, NEW u \in UploadWorkers, Check(u)
    PROVE  /\ OthersUp(u) /\ SameJob(u) /\ up'[u].took = up[u].took /\ up'[u].st = "done"
           /\ \/ UpEnds(u, "unresolved")
              \/ up'[u].res = "ok" /\ up'[u].chg = (db[up[u].c].rev > up[u].rev)
<1>1. CASE UpEnds(u, "unresolved")
  BY <1>1, UpEndsDoes
<1>2. CASE ~UpEnds(u, "unresolved")
  <2> DEFINE newer == db[up[u].c].rev > up[u].rev
  <2>1. up[u] \in Uploads /\ newer \in BOOLEAN
    BY Fields DEF TypeOK
  <2>2. up'[u] = [up[u] EXCEPT !.st = "done", !.res = "ok", !.chg = newer] /\ OthersUp(u)
    BY <1>2 DEF TypeOK, OthersUp, Check
  <2> HIDE DEF newer
  <2>3. SameJob(u) /\ up'[u].took = up[u].took /\ up'[u].st = "done" /\ up'[u].res = "ok"
        /\ up'[u].chg = newer
    BY <2>1, <2>2 DEF Uploads, SameJob
  <2>4. QED BY <2>2, <2>3 DEF newer
<1>3. QED BY <1>1, <1>2

\* A step of an upload worker keeps what it works for.
LEMMA UploadMove ==
    ASSUME TypeOK, NEW u \in UploadWorkers, UploadWork(u)
    PROVE  /\ OthersUp(u) /\ up'[u].c = up[u].c /\ up[u].st # "idle" /\ up'[u].st # "idle"
           /\ \/ WorkerLoad(u) \/ Created(u)
              \/ SameJob(u) /\ up'[u].took = up[u].took
           /\ up'[u].st # "enrich"
           /\ up'[u].st = "load" => WorkerEnrich(u)
<1>1. up[u].st # "idle"
  BY DEF UploadWork, WorkerEnrich, WorkerLoad, Match, Created, Duplicate, PostFails,
         BlindAttach, Lookup, Attach, Check, UpStep
<1>2. CASE WorkerLoad(u)
  BY <1>1, <1>2, LoadDoes
<1>3. CASE Created(u)
  BY <1>1, <1>3, CreatedDoes DEF SameJob
<1>4. CASE Check(u)
  BY <1>1, <1>4, CheckDoes DEF SameJob
<1>5. CASE WorkerEnrich(u)
  <2>1. UpGoes(u, "load")
    BY <1>5 DEF WorkerEnrich
  <2>2. QED BY <1>1, <1>5, <2>1, UpGoesDoes DEF SameJob
<1>6. CASE Match(u) \/ Duplicate(u) \/ PostFails(u) \/ BlindAttach(u) \/ Lookup(u) \/ Attach(u)
  <2>1. CASE \E st \in {"bulk", "lookup", "blind", "post", "import", "check"} : UpGoes(u, st)
    BY <1>1, <2>1, UpGoesDoes DEF SameJob
  <2>2. CASE \E res \in {"fail", "unresolved"} : UpEnds(u, res)
    BY <1>1, <2>2, UpEndsDoes DEF SameJob
  <2>3. CASE \E id \in {srv[up[u].c].id} : UpFinds(u, id)
    BY <1>1, <2>3, UpFindsDoes DEF SameJob
  <2>4. QED
    BY <1>6, <2>1, <2>2, <2>3 DEF Match, Duplicate, PostFails, BlindAttach, Lookup, Attach
<1>7. QED BY <1>2, <1>3, <1>4, <1>5, <1>6 DEF UploadWork

\* What is held stays held, and a snapshot stays one.
LEMMA KnownStays ==
    ASSUME TypeOK, TypeOK', RowsGrow, SeenGrows, NEW c \in Contacts, NEW body, NEW rev \in Nat
    PROVE  /\ Held(c, body) => HeldNext(c, body)
           /\ Snapshot(c, rev, body) => SnapshotNext(c, rev, body)
<1>1. Held(c, body) => HeldNext(c, body)
  BY DEF SeenGrows, Held, HeldNext
<1>2. db[c].rev \in Nat /\ db'[c].rev \in Nat
  BY DEF TypeOK, Rows
<1>3. Snapshot(c, rev, body) => SnapshotNext(c, rev, body)
  BY <1>2 DEF RowsGrow, Snapshot, SnapshotNext
<1>4. QED BY <1>1, <1>3

\* One worker's part of UploadsKnow.
UploadKnows(u) ==
    up[u].st # "idle" =>
        /\ Snapshot(up[u].c, up[u].rev, up[u].body)
        /\ up[u].st \in {"enrich", "load"} => ~up[u].took
        /\ up[u].took => Held(up[u].c, up[u].body)

\* A worker that does not move still knows what it knew.
LEMMA UploadRests ==
    ASSUME TypeOK, TypeOK', UploadsKnow, RowsGrow, SeenGrows,
           NEW u \in UploadWorkers, up'[u] = up[u]
    PROVE  UploadKnows(u)'
<1>1. up[u].c \in Contacts /\ up[u].rev \in Nat
  BY Fields
<1>2. QED BY <1>1, KnownStays DEF UploadsKnow, UploadKnows, Held, HeldNext, Snapshot, SnapshotNext

\* The upload workers hold snapshots of their rows, and what the server took of
\* one it has held.
LEMMA UploadsKnowStep ==
    ASSUME TypeOK, TypeOK', IInv, [Next]_vars
    PROVE  UploadsKnow'
<1>0. UploadsKnow /\ RowsGrow /\ SeenGrows /\ NoRowYet'
  BY RowStep, SeenStep DEF IInv
<1>1. SUFFICES ASSUME NEW v \in UploadWorkers PROVE UploadKnows(v)'
  BY DEF UploadsKnow, UploadKnows
<1>2. ASSUME up'[v] = up[v] PROVE UploadKnows(v)'
  BY <1>0, <1>2, UploadRests
<1>3. ASSUME up'[v].st = "idle" PROVE UploadKnows(v)'
  BY <1>3 DEF UploadKnows
<1>4. ASSUME NEW c \in Contacts, NEW kind, NEW st, up'[v] = NewUpload(c, kind, st),
             UNCHANGED db, c \in logged'
      PROVE  UploadKnows(v)'
  <2>1. /\ up'[v].c = c /\ up'[v].body = db'[c].body /\ up'[v].rev = db'[c].rev
        /\ up'[v].took = FALSE
    BY <1>4 DEF NewUpload, IdleUp
  <2>2. db'[c].rev \in Nat
    BY Fields DEF TypeOK, Rows
  <2>3. QED BY <1>4, <2>1, <2>2 DEF UploadKnows, Snapshot
<1>5. ASSUME NEW c \in Contacts, LogQSO(c) PROVE UploadKnows(v)'
  <2>1. CASE UNCHANGED up
    BY <1>2, <2>1
  <2>2. CASE ~UNCHANGED up
    <3>1. PICK u \in UploadWorkers, kind \in {"auto", "wsjtx"} :
            up' = [up EXCEPT ![u] =
                     NewUpload(c, kind, IF kind = "auto" THEN "post" ELSE "enrich")]
      BY <1>5, <2>2 DEF LogQSO
    <3>2. up'[v] = up[v] \/ up'[v] = NewUpload(c, kind, IF kind = "auto" THEN "post" ELSE "enrich")
      BY <3>1 DEF TypeOK
    <3>3. UNCHANGED db /\ c \in logged'
      BY <1>5 DEF LogQSO
    <3>4. QED BY <1>2, <1>4, <3>2, <3>3
  <2>3. QED BY <2>1, <2>2
<1>6. ASSUME NEW u \in UploadWorkers, NEW c \in Contacts, StartBatch(u, c) PROVE UploadKnows(v)'
  <2>1. PICK st \in {"bulk", "match"} : up' = [up EXCEPT ![u] = NewUpload(c, "batch", st)]
    BY <1>6 DEF StartBatch
  <2>2. up'[v] = up[v] \/ up'[v] = NewUpload(c, "batch", st)
    BY <2>1 DEF TypeOK
  <2>3. UNCHANGED db /\ c \in logged'
    BY <1>6 DEF StartBatch, OnlyUp
  <2>4. QED BY <1>2, <1>4, <2>2, <2>3
<1>7. ASSUME NEW u \in UploadWorkers, UploadWork(u) PROVE UploadKnows(v)'
  <2>1. CASE v # u
    BY <1>2, <1>7, <2>1, UploadMove DEF OthersUp
  <2>2. CASE v = u
    <3> DEFINE c == up[u].c
    <3>0. /\ c \in Contacts /\ up[u].rev \in Nat /\ up[u].st # "idle" /\ up'[u].c = c
          /\ up'[u].st # "enrich" /\ (up'[u].st = "load" => WorkerEnrich(u))
          /\ up[u].body \in Body
      BY <1>7, Fields, UploadMove
    <3>1. Snapshot(c, up[u].rev, up[u].body) /\ (up[u].took => Held(c, up[u].body))
          /\ (up[u].st \in {"enrich", "load"} => ~up[u].took)
      BY <1>0, <3>0 DEF UploadsKnow
    <3>2. CASE WorkerLoad(u)
      <4>1. /\ up'[u].st = "post" /\ up'[u].body = db[c].body /\ up'[u].rev = db[c].rev
            /\ up'[u].took = up[u].took /\ up[u].st = "load"
        BY <3>2, LoadDoes DEF WorkerLoad, UpStep
      <4>2. UNCHANGED <<db, logged>>
        BY <3>2 DEF WorkerLoad, OnlyUp
      <4>3. QED BY <2>2, <3>0, <3>1, <4>1, <4>2, Fields DEF UploadKnows, Snapshot
    <3>3. CASE Created(u)
      <4>1. SameJob(u) /\ up'[u].st \notin {"enrich", "load"}
        BY <3>3, CreatedDoes
      <4>2. ServerHolds(c, made[c] + 1, up[u].body, up[u].rev) /\ made[c] + 1 \in Ids
        BY <3>0, <3>3, SyncAssumption DEF Created, CreateCopy, TypeOK, Ids, SyncAssumption
      <4>3. HeldNext(c, up[u].body)
        BY <3>0, <4>2, HoldsHeld
      <4>4. SnapshotNext(c, up[u].rev, up[u].body)
        BY <1>0, <3>0, <3>1, KnownStays
      <4>5. QED BY <2>2, <3>0, <4>1, <4>3, <4>4 DEF UploadKnows, SameJob, Snapshot, Held, HeldNext, SnapshotNext
    <3>4. CASE SameJob(u) /\ up'[u].took = up[u].took
      <4>1. /\ SnapshotNext(c, up[u].rev, up[u].body)
            /\ Held(c, up[u].body) => HeldNext(c, up[u].body)
        BY <1>0, <3>0, <3>1, KnownStays
      <4>2. up'[u].st = "load" => ~up[u].took
        BY <3>0, <3>1 DEF WorkerEnrich, UpStep
      <4>3. QED BY <2>2, <3>0, <3>1, <3>4, <4>1, <4>2 DEF UploadKnows, SameJob, Snapshot, Held, HeldNext, SnapshotNext
    <3>5. QED BY <1>7, <3>2, <3>3, <3>4, UploadMove
  <2>3. QED BY <2>1, <2>2
<1>8. ASSUME NEW u \in UploadWorkers, UploadDone(u) PROVE UploadKnows(v)'
  <2>1. CASE up' = [up EXCEPT ![u] = IdleUp]
    BY <1>2, <1>3, <2>1 DEF TypeOK, IdleUp
  <2>2. CASE up' = [up EXCEPT ![u] = [@ EXCEPT !.st = "lookup", !.retried = TRUE, !.res = "none"]]
    <3>1. up[u] \in Uploads /\ up[u].st = "done"
      BY <1>8 DEF TypeOK, UploadDone, UpStep
    <3>2. CASE v # u
      BY <1>2, <2>2, <3>2 DEF TypeOK
    <3>3. CASE v = u
      <4>1. up'[u] = [up[u] EXCEPT !.st = "lookup", !.retried = TRUE, !.res = "none"]
        BY <2>2 DEF TypeOK
      <4>2. SameJob(u) /\ up'[u].st = "lookup" /\ up'[u].took = up[u].took
        BY <3>1, <4>1 DEF Uploads, SameJob
      <4>3. up[u].c \in Contacts /\ up[u].rev \in Nat
        BY Fields
      <4>4. /\ SnapshotNext(up[u].c, up[u].rev, up[u].body)
            /\ up[u].took => HeldNext(up[u].c, up[u].body)
        BY <1>0, <3>1, <4>3, KnownStays DEF UploadsKnow
      <4>5. QED BY <3>3, <4>2, <4>4 DEF UploadKnows, SameJob, Snapshot, Held, HeldNext, SnapshotNext
    <3>4. QED BY <3>2, <3>3
  <2>3. QED BY <1>8, <2>1, <2>2 DEF UploadDone
<1>9. CASE Crash
  BY <1>3, <1>9 DEF Crash, IdleUp
<1>10. ASSUME UNCHANGED up PROVE UploadKnows(v)'
  BY <1>2, <1>10
<1>11. ASSUME NEW c \in Contacts,
              \/ Save(c) \/ Enrich(c) \/ ReadForRefresh(c)
              \/ DownloadRead(c) \/ DownloadWrite(c) \/ RemoteWork(c)
       PROVE  UploadKnows(v)'
  BY <1>10, <1>11 DEF Save, Enrich, ReadForRefresh, DownloadRead, DownloadWrite, RemoteWork
<1>12. ASSUME NEW w \in PatchWorkers, PatchWork(w) \/ PatchDone(w) PROVE UploadKnows(v)'
  BY <1>10, <1>12 DEF PatchWork, PatchRead, PatchApplied, PatchNotFound, PatchFails, PatchAck,
                      PatchUnlink, PatchClear, PatchDone, OnlyPatch
<1>13. CASE WriteRefresh \/ RetryList \/ RetryQueue \/ LateLands \/ UNCHANGED vars
  BY <1>10, <1>13 DEF WriteRefresh, RetryList, RetryQueue, LateLands, vars
<1>14. QED
  BY <1>5, <1>6, <1>7, <1>8, <1>9, <1>11, <1>12, <1>13 DEF Next, Operator


OthersPatch(w) == \A v \in PatchWorkers \ {w} : patch'[v] = patch[v]
SamePush(w) == /\ patch'[w].c = patch[w].c /\ patch'[w].body = patch[w].body
               /\ patch'[w].rev = patch[w].rev /\ patch'[w].ack = patch[w].ack
               /\ patch'[w].wid = patch[w].wid

\* The moves of a PATCH worker.
LEMMA PatchGoesDoes ==
    ASSUME TypeOK, NEW w \in PatchWorkers, NEW st, PatchGoes(w, st)
    PROVE  OthersPatch(w) /\ SamePush(w) /\ patch'[w].st = st /\ patch'[w].res = patch[w].res
<1>1. patch[w] \in Patches /\ patch'[w] = [patch[w] EXCEPT !.st = st] /\ OthersPatch(w)
  BY DEF TypeOK, PatchGoes, OthersPatch
<1>2. QED BY <1>1 DEF Patches, SamePush

\* Ending a chain.
LEMMA PatchEndsDoes ==
    ASSUME TypeOK, NEW w \in PatchWorkers, NEW res, PatchEnds(w, res)
    PROVE  OthersPatch(w) /\ SamePush(w) /\ patch'[w].st = "done" /\ patch'[w].res = res
<1>1. /\ patch[w] \in Patches /\ OthersPatch(w)
      /\ patch'[w] = [patch[w] EXCEPT !.st = "done", !.res = res]
  BY DEF TypeOK, PatchEnds, OthersPatch
<1>2. QED BY <1>1 DEF Patches, SamePush

\* Reading the row: a snapshot of it, a lookup of its copy, or the end.
LEMMA PatchReadDoes ==
    ASSUME TypeOK, NEW w \in PatchWorkers, PatchRead(w)
    PROVE  /\ OthersPatch(w) /\ patch'[w].c = patch[w].c
           /\ \/ /\ Linked(patch[w].c) /\ UNCHANGED owed
                 /\ patch'[w].st = "wire" /\ patch'[w].wid = db[patch[w].c].wid
                 /\ patch'[w].body = db[patch[w].c].body /\ patch'[w].rev = db[patch[w].c].rev
                 /\ patch'[w].ack = IF patch[w].ack = NoRev THEN db[patch[w].c].rev
                                                            ELSE patch[w].ack
              \/ /\ ~Linked(patch[w].c)
                 /\ patch'[w].st = "done" /\ patch'[w].res = "gone"
                 /\ owed' = IF db[patch[w].c].dirty THEN [owed EXCEPT ![patch[w].c] = "left"]
                                                    ELSE owed
              \/ patch'[w].st = "done" /\ patch'[w].res = "err" /\ UNCHANGED owed
<1> DEFINE c == patch[w].c
           ack == IF patch[w].ack = NoRev THEN db[c].rev ELSE patch[w].ack
<1>1. CASE PatchEnds(w, "gone") /\ ~Linked(c)
           /\ owed' = IF db[c].dirty THEN [owed EXCEPT ![c] = "left"] ELSE owed
  BY <1>1, PatchEndsDoes DEF SamePush
<1>2. CASE PatchEnds(w, "err") /\ UNCHANGED owed
  BY <1>2, PatchEndsDoes DEF SamePush
<1>3. CASE /\ Linked(c) /\ UNCHANGED owed
           /\ patch' = [patch EXCEPT ![w] =
                 [patch[w] EXCEPT !.st = "wire", !.wid = db[c].wid, !.body = db[c].body,
                                  !.rev = db[c].rev, !.ack = ack]]
  <2>1. patch[w] \in Patches
    BY DEF TypeOK
  <2> HIDE DEF ack
  <2>2. /\ patch'[w] = [patch[w] EXCEPT !.st = "wire", !.wid = db[c].wid, !.body = db[c].body,
                                  !.rev = db[c].rev, !.ack = ack]
        /\ OthersPatch(w)
    BY <1>3 DEF TypeOK, OthersPatch
  <2>3. /\ patch'[w].st = "wire" /\ patch'[w].wid = db[c].wid /\ patch'[w].body = db[c].body
        /\ patch'[w].rev = db[c].rev /\ patch'[w].ack = ack /\ patch'[w].c = c
    BY <2>1, <2>2 DEF Patches
  <2>4. QED BY <1>3, <2>2, <2>3 DEF ack
<1>4. QED BY <1>1, <1>2, <1>3 DEF PatchRead

\* A step of a PATCH worker.
LEMMA PatchMove ==
    ASSUME TypeOK, NEW w \in PatchWorkers, PatchWork(w)
    PROVE  /\ OthersPatch(w) /\ patch'[w].c = patch[w].c
           /\ patch[w].st # "idle" /\ patch'[w].st \notin {"idle", "read"}
           /\ patch'[w].st = "wire" => PatchRead(w)
           /\ patch'[w].st = "ack" => PatchApplied(w) /\ SamePush(w)
<1>1. CASE PatchRead(w)
  BY <1>1, PatchReadDoes DEF PatchRead, PatchStep
<1>2. CASE PatchApplied(w)
  BY <1>2, PatchGoesDoes, PatchEndsDoes DEF PatchApplied, PatchStep, SamePush
<1>3. CASE ~PatchRead(w) /\ ~PatchApplied(w)
  <2>1. patch[w].st # "idle"
    BY <1>3 DEF PatchWork, PatchStep, PatchNotFound, PatchFails, PatchAck, PatchUnlink, PatchClear
  <2>2. \/ \E st \in {"gone", "clear"} : PatchGoes(w, st)
        \/ \E res \in {"err", "ok", "incomplete", "gone"} : PatchEnds(w, res)
    BY <1>3 DEF PatchWork, PatchNotFound, PatchFails, PatchAck, PatchUnlink, PatchClear
  <2>3. QED BY <2>1, <2>2, PatchGoesDoes, PatchEndsDoes DEF SamePush
<1>4. QED BY <1>1, <1>2, <1>3

\* A worker that does not move still knows what it knew.
LEMMA PatchRests ==
    ASSUME TypeOK, TypeOK', PatchesKnow, RowsGrow, SeenGrows,
           NEW w \in PatchWorkers, patch'[w] = patch[w], patch[w].st # "idle"
    PROVE  PatchKnows(w)'
<1> DEFINE c == patch[w].c
<1>1. c \in Contacts /\ patch[w].rev \in Nat /\ patch[w].ack \in Nat \cup {NoRev}
      /\ db[c].rev \in Nat /\ db'[c].rev \in Nat
  BY Fields DEF TypeOK, Rows
<1>2. c \in logged /\ c \in logged' /\ db'[c].rev >= db[c].rev
  BY DEF PatchesKnow, PatchKnows, RowsGrow
<1>3. patch[w].st = "read" => patch[w].ack <= db'[c].rev
  BY <1>1, <1>2 DEF PatchesKnow, PatchKnows, NoRev
<1>4. patch[w].st \in {"wire", "ack"} =>
        SnapshotNext(c, patch[w].rev, patch[w].body) /\ patch[w].ack <= patch[w].rev
  BY <1>1, KnownStays DEF PatchesKnow, PatchKnows
<1>5. patch[w].st = "ack" => HeldNext(c, patch[w].body)
  BY <1>1, KnownStays DEF PatchesKnow, PatchKnows
<1>6. QED BY <1>2, <1>3, <1>4, <1>5 DEF PatchKnows, Snapshot, SnapshotNext, Held, HeldNext

\* A new chain of a contact that has a row.
LEMMA ChainKnows ==
    ASSUME TypeOK', NEW w \in PatchWorkers, NEW c \in Contacts, NEW ack,
           patch'[w] = Chain(c, ack), c \in logged', ack <= db'[c].rev
    PROVE  PatchKnows(w)'
<1>1. patch'[w].c = c /\ patch'[w].st = "read" /\ patch'[w].ack = ack
  BY DEF Chain, IdlePatch
<1>2. QED BY <1>1 DEF PatchKnows

\* A push by the coordinator starts at most a chain that knows its row.
LEMMA PushKnows ==
    ASSUME TypeOK, TypeOK', PatchesKnow, RowsGrow, SeenGrows, NEW c \in Contacts, NEW ack,
           PushOrQueue(c, ack), c \in logged', ack <= db'[c].rev
    PROVE  PatchesKnow'
<1>1. SUFFICES ASSUME NEW v \in PatchWorkers, patch'[v].st # "idle" PROVE PatchKnows(v)'
  BY DEF PatchesKnow
<1>2. CASE patch'[v] = patch[v]
  BY <1>1, <1>2, PatchRests
<1>3. CASE patch'[v] # patch[v]
  <2>1. patch'[v] = Chain(c, ack)
    BY <1>3 DEF PushOrQueue, TypeOK
  <2>2. QED BY <2>1, ChainKnows
<1>4. QED BY <1>2, <1>3

\* What the PATCH workers know of their rows.
LEMMA PatchesKnowStep ==
    ASSUME TypeOK, TypeOK', IInv, [Next]_vars
    PROVE  PatchesKnow'
<1>0. PatchesKnow /\ UploadsKnow /\ RowsGrow /\ SeenGrows /\ listed \subseteq logged
  BY RowStep, SeenStep DEF IInv
<1>1. ASSUME UNCHANGED patch PROVE PatchesKnow'
  BY <1>0, <1>1, PatchRests DEF PatchesKnow
<1>2. ASSUME NEW c \in Contacts, Save(c) PROVE PatchesKnow'
  <2>1. PICK enr \in {db[c].body.enr, FALSE}, pushed \in Connection :
          /\ db' = [db EXCEPT ![c] = Edited(@, [txt |-> fresh + 1, enr |-> enr])]
          /\ IF Linked(c) THEN PushEdit(c, db[c].rev + 1, pushed)
                          ELSE UNCHANGED <<coordVars, owed>>
    BY <1>2 DEF Save
  <2>2. fresh + 1 \in Texts /\ [txt |-> fresh + 1, enr |-> enr] \in Body
    BY <1>2, Fields, SyncAssumption DEF Save, TypeOK, Texts, SyncAssumption, Body
  <2>3. db'[c].rev = db[c].rev + 1
    BY <2>1, <2>2, EditedFields
  <2>4. c \in logged' /\ db[c].rev + 1 <= db'[c].rev
    BY <1>2, <2>3, Fields DEF Save
  <2>5. CASE UNCHANGED patch
    BY <1>1, <2>5
  <2>6. CASE PushOrQueue(c, db[c].rev + 1)
    BY <1>0, <2>4, <2>6, PushKnows
  <2>7. QED BY <2>1, <2>5, <2>6 DEF PushEdit, coordVars
<1>3. ASSUME NEW c \in Contacts, PushOrQueue(c, NoRev), c \in logged PROVE PatchesKnow'
  <2>1. c \in logged' /\ NoRev <= db'[c].rev
    BY <1>0, <1>3 DEF RowsGrow, NoRev, TypeOK, Rows
  <2>2. QED BY <1>0, <1>3, <2>1, PushKnows
<1>4. ASSUME NEW c \in Contacts, Enrich(c) PROVE PatchesKnow'
  <2>1. UNCHANGED patch \/ PushOrQueue(c, NoRev)
    BY <1>4 DEF Enrich, PushEdit, coordVars
  <2>2. QED BY <1>1, <1>3, <1>4, <2>1 DEF Enrich
<1>5. ASSUME NEW u \in UploadWorkers, UploadDone(u) PROVE PatchesKnow'
  <2>1. up[u].c \in Contacts /\ up[u].c \in logged
    BY <1>0, <1>5, Fields DEF UploadDone, UpStep, UploadsKnow, Snapshot
  <2>2. UNCHANGED patch \/ PushOrQueue(up[u].c, NoRev)
    BY <1>5 DEF UploadDone, coordVars
  <2>3. QED BY <1>1, <1>3, <2>1, <2>2
<1>6. ASSUME NEW w \in PatchWorkers, PatchDone(w) PROVE PatchesKnow'
  <2>1. SUFFICES ASSUME NEW v \in PatchWorkers, patch'[v].st # "idle" PROVE PatchKnows(v)'
    BY DEF PatchesKnow
  <2>2. CASE patch'[v] = patch[v]
    BY <1>0, <2>1, <2>2, PatchRests
  <2>3. CASE patch'[v] # patch[v]
    <3>1. patch'[v] = Chain(patch[w].c, NoRev) \/ patch'[v] = IdlePatch
      BY <1>6, <2>3 DEF PatchDone, TypeOK
    <3>2. patch'[v] = Chain(patch[w].c, NoRev)
      BY <2>1, <3>1 DEF IdlePatch
    <3>3. patch[w].c \in Contacts /\ patch[w].c \in logged'
      BY <1>0, <1>6, Fields DEF PatchDone, PatchStep, PatchesKnow, PatchKnows, RowsGrow
    <3>4. NoRev <= db'[patch[w].c].rev
      BY <3>3 DEF NoRev, TypeOK, Rows
    <3>5. QED BY <3>2, <3>3, <3>4, ChainKnows
  <2>4. QED BY <2>2, <2>3
<1>7. CASE RetryQueue
  <2>1. SUFFICES ASSUME NEW v \in PatchWorkers, patch'[v].st # "idle" PROVE PatchKnows(v)'
    BY DEF PatchesKnow
  <2>2. CASE patch'[v] = patch[v]
    BY <1>0, <2>1, <2>2, PatchRests
  <2>3. CASE patch'[v] # patch[v]
    <3>1. PICK c \in listed \ inFlight : patch'[v] = Chain(c, NoRev)
      <4>1. PICK run : patch' = [w \in PatchWorkers |->
                            IF \E c \in listed \ inFlight : run[c] = w
                            THEN Chain(CHOOSE c \in listed \ inFlight : run[c] = w, NoRev)
                            ELSE patch[w]]
        BY <1>7 DEF RetryQueue
      <4>2. QED BY <2>3, <4>1
    <3>2. c \in Contacts /\ c \in logged'
      BY <1>0 DEF RowsGrow, TypeOK
    <3>3. NoRev <= db'[c].rev
      BY <3>2 DEF NoRev, TypeOK, Rows
    <3>4. QED BY <3>1, <3>2, <3>3, ChainKnows
  <2>4. QED BY <2>2, <2>3
<1>8. ASSUME NEW w \in PatchWorkers, PatchWork(w) PROVE PatchesKnow'
  <2>1. SUFFICES ASSUME NEW v \in PatchWorkers, patch'[v].st # "idle" PROVE PatchKnows(v)'
    BY DEF PatchesKnow
  <2>2. CASE v # w
    <3>1. patch'[v] = patch[v]
      BY <1>8, <2>2, PatchMove DEF OthersPatch
    <3>2. QED BY <1>0, <2>1, <3>1, PatchRests
  <2>3. CASE v = w
    <3> DEFINE c == patch[w].c
    <3>0. /\ c \in Contacts /\ patch[w].rev \in Nat /\ patch[w].body \in Body
          /\ patch[w].ack \in Nat \cup {NoRev} /\ db[c].rev \in Nat /\ patch[w].wid \in Ids
      BY Fields
    <3>1. PatchKnows(w) /\ patch'[w].c = c /\ c \in logged'
      BY <1>0, <1>8, PatchMove DEF PatchesKnow, PatchKnows, RowsGrow
    <3>2. CASE patch'[w].st = "wire"
      <4>1. PatchRead(w)
        BY <1>8, <3>2, PatchMove
      <4>2. /\ patch'[w].body = db[c].body /\ patch'[w].rev = db[c].rev
            /\ patch'[w].ack = IF patch[w].ack = NoRev THEN db[c].rev ELSE patch[w].ack
        BY <3>2, <4>1, PatchReadDoes
      <4>3. UNCHANGED db /\ patch[w].ack <= db[c].rev
        BY <3>1, <4>1 DEF PatchRead, PatchStep, PatchKnows
      <4>4. QED BY <2>3, <3>0, <3>1, <3>2, <4>2, <4>3 DEF PatchKnows, Snapshot
    <3>3. CASE patch'[w].st = "ack"
      <4>1. PatchApplied(w) /\ SamePush(w)
        BY <1>8, <3>3, PatchMove
      <4>2. HeldNext(c, patch[w].body)
        BY <3>0, <4>1, HoldsHeld DEF PatchApplied
      <4>3. SnapshotNext(c, patch[w].rev, patch[w].body) /\ patch[w].ack <= patch[w].rev
        BY <1>0, <3>0, <3>1, <4>1, KnownStays DEF PatchApplied, PatchStep, PatchKnows
      <4>4. QED
        BY <2>3, <3>1, <3>3, <4>1, <4>2, <4>3
        DEF PatchKnows, SamePush, Snapshot, SnapshotNext, Held, HeldNext
    <3>4. CASE patch'[w].st \notin {"wire", "ack"}
      BY <1>8, <2>3, <3>1, <3>4, PatchMove DEF PatchKnows
    <3>5. QED BY <3>2, <3>3, <3>4
  <2>4. QED BY <2>2, <2>3
<1>9. CASE Crash
  BY <1>9 DEF Crash, PatchesKnow, IdlePatch
<1>10. ASSUME NEW c \in Contacts,
              \/ LogQSO(c) \/ ReadForRefresh(c)
              \/ DownloadRead(c) \/ DownloadWrite(c) \/ RemoteWork(c)
              \/ \E u \in UploadWorkers : StartBatch(u, c)
       PROVE  PatchesKnow'
  BY <1>1, <1>10 DEF LogQSO, ReadForRefresh, DownloadRead, DownloadWrite, RemoteWork, StartBatch,
                     OnlyUp, coordVars
<1>11. ASSUME NEW u \in UploadWorkers, UploadWork(u) PROVE PatchesKnow'
  BY <1>1, <1>11 DEF UploadWork, OnlyUp, coordVars, WorkerEnrich, WorkerLoad, Match, Created,
                     Duplicate, PostFails, BlindAttach, Lookup, Attach, Check
<1>12. CASE WriteRefresh \/ RetryList \/ LateLands \/ UNCHANGED vars
  BY <1>1, <1>12 DEF WriteRefresh, RetryList, LateLands, vars, coordVars
<1>13. QED
  BY <1>2, <1>4, <1>5, <1>6, <1>7, <1>8, <1>9, <1>10, <1>11, <1>12 DEF Next, Operator


\* The server's copy of a contact is something it holds.
LEMMA CopiesHeldStep ==
    ASSUME TypeOK, TypeOK', IInv, [Next]_vars
    PROVE  CopiesHeld'
<1> DEFINE SrvHeld == \A c \in Contacts : srv'[c].id # 0 => HeldNext(c, srv'[c].body)
<1>0. CopiesHeld /\ SeenGrows
  BY SeenStep DEF IInv
<1>a. ASSUME UNCHANGED srv PROVE SrvHeld
  <2>1. \A c \in Contacts : srv[c].id # 0 => Held(c, srv[c].body)
    BY <1>0 DEF CopiesHeld
  <2>2. QED BY <1>0, <1>a, <2>1 DEF SeenGrows, Held, HeldNext
<1>b. ASSUME NEW c \in Contacts, NEW id \in Ids, NEW body \in Body, NEW rev \in Nat,
             ServerHolds(c, id, body, rev)
      PROVE  SrvHeld
  <2>1. /\ HeldNext(c, body) /\ srv'[c] = [id |-> id, body |-> body, rev |-> rev]
        /\ \A d \in Contacts \ {c} : srv'[d] = srv[d] /\ seen'[d] = seen[d]
    BY <1>b, HoldsHeld
  <2>2. \A d \in Contacts : srv[d].id # 0 => Held(d, srv[d].body)
    BY <1>0 DEF CopiesHeld
  <2>3. QED BY <2>1, <2>2 DEF Held, HeldNext
<1>1. SrvHeld
  <2>1. ASSUME NEW c \in Contacts, RemoteWork(c) PROVE SrvHeld
    <3>1. CASE fresh < MaxText /\ UNCHANGED made
               /\ ServerHolds(c, srv[c].id, [srv[c].body EXCEPT !.txt = fresh + 1], srv[c].rev)
      <4>1. fresh + 1 \in Texts
        BY <3>1, SyncAssumption DEF TypeOK, Texts, SyncAssumption
      <4>2. [srv[c].body EXCEPT !.txt = fresh + 1] \in Body
        BY <4>1, Fields DEF Body
      <4>3. QED BY <1>b, <3>1, <4>2, Fields
    <3>2. CASE fresh < MaxText /\ CreateCopy(c, [txt |-> fresh + 1, enr |-> FALSE], 0)
      <4>1. fresh + 1 \in Texts /\ made[c] + 1 \in Ids
        BY <3>2, SyncAssumption DEF CreateCopy, TypeOK, Texts, Ids, SyncAssumption
      <4>2. [txt |-> fresh + 1, enr |-> FALSE] \in Body
        BY <4>1 DEF Body
      <4>3. QED BY <1>b, <3>2, <4>1, <4>2 DEF CreateCopy
    <3>3. CASE srv' = [srv EXCEPT ![c] = [id |-> 0, body |-> Blank, rev |-> 0]]
               /\ UNCHANGED seen
      <4>1. \A d \in Contacts : srv[d].id # 0 => Held(d, srv[d].body)
        BY <1>0 DEF CopiesHeld
      <4>2. srv'[c].id = 0 /\ \A d \in Contacts \ {c} : srv'[d] = srv[d]
        BY <3>3 DEF TypeOK
      <4>3. QED BY <3>3, <4>1, <4>2 DEF Held, HeldNext
    <3>4. QED BY <2>1, <3>1, <3>2, <3>3 DEF RemoteWork
  <2>2. ASSUME NEW w \in PatchWorkers, PatchWork(w) PROVE SrvHeld
    <3>1. CASE PatchApplied(w)
      BY <1>b, <3>1, Fields DEF PatchApplied
    <3>2. CASE ~PatchApplied(w)
      BY <1>a, <2>2, <3>2 DEF PatchWork, PatchRead, PatchNotFound, PatchFails, PatchAck,
                              PatchUnlink, PatchClear, srvVars
    <3>3. QED BY <3>1, <3>2
  <2>3. ASSUME NEW u \in UploadWorkers, UploadWork(u) PROVE SrvHeld
    <3>1. CASE Created(u)
      <4>1. made[up[u].c] + 1 \in Ids
        BY <3>1, Fields, SyncAssumption DEF Created, CreateCopy, TypeOK, Ids, SyncAssumption
      <4>2. QED BY <1>b, <3>1, <4>1, Fields DEF Created, CreateCopy
    <3>2. CASE ~Created(u)
      BY <1>a, <2>3, <3>2 DEF UploadWork, WorkerEnrich, WorkerLoad, Match, Duplicate, PostFails,
                              BlindAttach, Lookup, Attach, Check, srvVars
    <3>3. QED BY <3>1, <3>2
  <2>4. CASE LateLands
    <3>1. PICK m \in late :
            IF srv[m.c].id = m.wid THEN ServerHolds(m.c, m.wid, m.body, m.rev)
                                   ELSE UNCHANGED <<srv, seen>>
      BY <2>4 DEF LateLands
    <3>2. m.c \in Contacts /\ m.wid \in Ids /\ m.body \in Body /\ m.rev \in Nat
      BY DEF TypeOK, Lates
    <3>3. QED BY <1>a, <1>b, <3>1, <3>2
  <2>5. ASSUME NEW c \in Contacts,
               Operator(c) \/ DownloadRead(c) \/ DownloadWrite(c)
               \/ \E u \in UploadWorkers : StartBatch(u, c)
        PROVE  SrvHeld
    BY <1>a, <2>5 DEF Operator, LogQSO, Save, Enrich, ReadForRefresh, DownloadRead,
                      DownloadWrite, StartBatch, srvVars
  <2>6. ASSUME \/ \E w \in PatchWorkers : PatchDone(w)
               \/ \E u \in UploadWorkers : UploadDone(u)
               \/ WriteRefresh \/ RetryList \/ RetryQueue \/ Crash \/ UNCHANGED vars
        PROVE  SrvHeld
    BY <1>a, <2>6 DEF PatchDone, UploadDone, WriteRefresh, RetryList, RetryQueue, Crash, vars,
                      srvVars
  <2>7. QED BY <2>1, <2>2, <2>3, <2>4, <2>5, <2>6 DEF Next
<1>2. ASSUME NEW c \in Contacts, page'[c].id # 0 PROVE HeldNext(c, page'[c].body)
  <2>1. (srv[c].id # 0 => Held(c, srv[c].body)) /\ (page[c].id # 0 => Held(c, page[c].body))
    BY <1>0 DEF CopiesHeld
  <2>2. \/ page'[c] = page[c]
        \/ page'[c] = [id |-> 0, body |-> Blank]
        \/ page'[c] = [id |-> srv[c].id, body |-> srv[c].body]
    <3>1. CASE UNCHANGED page
      BY <3>1
    <3>2. ASSUME NEW d \in Contacts, DownloadRead(d) \/ DownloadWrite(d)
          PROVE  \/ page'[c] = page[c]
                 \/ page'[c] = [id |-> 0, body |-> Blank]
                 \/ page'[c] = [id |-> srv[c].id, body |-> srv[c].body]
      <4>1. \/ page' = [page EXCEPT ![d] = [id |-> srv[d].id, body |-> srv[d].body]]
            \/ page' = [page EXCEPT ![d] = [id |-> 0, body |-> Blank]]
        BY <3>2 DEF DownloadRead, DownloadWrite
      <4>2. QED BY <4>1 DEF TypeOK
    <3>3. CASE Crash
      BY <3>3 DEF Crash
    <3>4. CASE ~Crash /\ ~ \E d \in Contacts : DownloadRead(d) \/ DownloadWrite(d)
      <4>1. ASSUME NEW d \in Contacts,
                   Operator(d) \/ RemoteWork(d) \/ \E u \in UploadWorkers : StartBatch(u, d)
            PROVE  UNCHANGED page
        BY <4>1 DEF Operator, LogQSO, Save, Enrich, ReadForRefresh, RemoteWork, StartBatch, OnlyUp
      <4>2. ASSUME NEW w \in PatchWorkers, PatchWork(w) \/ PatchDone(w) PROVE UNCHANGED page
        BY <4>2 DEF PatchWork, PatchRead, PatchApplied, PatchNotFound, PatchFails, PatchAck,
                    PatchUnlink, PatchClear, PatchDone, OnlyPatch
      <4>3. ASSUME NEW u \in UploadWorkers, UploadWork(u) \/ UploadDone(u) PROVE UNCHANGED page
        BY <4>3 DEF UploadWork, WorkerEnrich, WorkerLoad, Match, Created, Duplicate, PostFails,
                    BlindAttach, Lookup, Attach, Check, UploadDone, OnlyUp
      <4>4. CASE WriteRefresh \/ RetryList \/ RetryQueue \/ LateLands \/ UNCHANGED vars
        BY <4>4 DEF WriteRefresh, RetryList, RetryQueue, LateLands, vars
      <4>5. QED BY <3>4, <4>1, <4>2, <4>3, <4>4 DEF Next
    <3>5. QED BY <3>2, <3>3, <3>4
  <2>3. \/ page'[c] = page[c] /\ page[c].id # 0
        \/ page'[c].body = srv[c].body /\ srv[c].id # 0
    BY <1>2, <2>2
  <2>4. QED BY <1>0, <2>1, <2>3 DEF SeenGrows, Held, HeldNext
<1>3. QED BY <1>1, <1>2 DEF CopiesHeld, Held, HeldNext

\* The one row a remote refresh has read is not written by anybody but the WSJT-X
\* worker, which fills its blanks.
LEMMA MergedRow ==
    ASSUME TypeOK, IInv, [Next]_vars, NEW m \in merging, merging' = merging
    PROVE  /\ m.c \in Contacts /\ m.c \in logged'
           /\ db'[m.c].body.txt = db[m.c].body.txt
           /\ db[m.c].body.enr => db'[m.c].body.enr
<1>0. m.c \in Contacts /\ m.c \in logged /\ merging # {}
  BY DEF TypeOK, Merges, IInv, MergesKnow
<1>1. m.c \in logged'
  BY <1>0, RowStep DEF RowsGrow
<1>2. ASSUME db'[m.c].body = db[m.c].body PROVE /\ db'[m.c].body.txt = db[m.c].body.txt
                                                /\ db[m.c].body.enr => db'[m.c].body.enr
  BY <1>2
<1>3. ASSUME UNCHANGED db PROVE db'[m.c].body = db[m.c].body
  BY <1>3
<1>4. CASE \E u \in UploadWorkers : WorkerEnrich(u)
  <2>1. PICK u \in UploadWorkers : WorkerEnrich(u)
    BY <1>4
  <2> DEFINE c == up[u].c
  <2>2. c \in Contacts /\ [db[c].body EXCEPT !.enr = TRUE] \in Body
    BY Fields DEF Body
  <2>3. CASE UNCHANGED db
    BY <1>0, <1>1, <1>2, <1>3, <2>3
  <2>4. CASE db' = [db EXCEPT ![c] = Edited(@, [db[c].body EXCEPT !.enr = TRUE])]
    <3>1. db'[c].body = [db[c].body EXCEPT !.enr = TRUE]
          /\ \A d \in Contacts \ {c} : db'[d] = db[d]
      BY <2>2, <2>4, EditedFields
    <3>2. CASE m.c = c
      <4>1. db[c].body \in Body
        BY <2>2, Fields
      <4>2. db'[c].body.txt = db[c].body.txt /\ db'[c].body.enr = TRUE
        BY <3>1, <4>1 DEF Body
      <4>3. QED BY <1>0, <1>1, <3>2, <4>2
    <3>3. CASE m.c # c
      BY <1>0, <1>1, <1>2, <3>1, <3>3
    <3>4. QED BY <3>2, <3>3
  <2>5. QED BY <2>1, <2>2, <2>3, <2>4 DEF WorkerEnrich, TypeOK
<1>5. CASE ~ \E u \in UploadWorkers : WorkerEnrich(u)
  <2>1. SUFFICES db'[m.c].body = db[m.c].body
    BY <1>0, <1>1, <1>2
  <2>2. ASSUME NEW u \in UploadWorkers, UploadWork(u) PROVE db'[m.c].body = db[m.c].body
    <3>1. up[u].c \in Contacts /\ up[u].rev \in Nat
      BY Fields
    <3>2. CASE UNCHANGED db
      BY <1>3, <3>2
    <3>3. CASE ~UNCHANGED db
      <4>1. BlindAttach(u) \/ Attach(u)
        BY <1>5, <2>2, <3>3 DEF UploadWork, WorkerLoad, Match, Created, Duplicate, PostFails,
                                Lookup, Check
      <4>2. Keeps(up[u].c)
        BY <3>1, <3>3, <4>1, SetWid, SetLink DEF BlindAttach, Attach
      <4>3. QED BY <1>0, <4>2 DEF Keeps
    <3>4. QED BY <3>2, <3>3
  <2>3. ASSUME NEW w \in PatchWorkers, PatchWork(w) PROVE db'[m.c].body = db[m.c].body
    <3>1. patch[w].c \in Contacts
      BY Fields
    <3>2. \/ UNCHANGED db \/ db' = [db EXCEPT ![patch[w].c].dirty = FALSE]
          \/ db' = [db EXCEPT ![patch[w].c].wid = 0]
      BY <2>3 DEF PatchWork, PatchRead, PatchApplied, PatchNotFound, PatchFails, PatchAck,
                  PatchUnlink, PatchClear
    <3>3. UNCHANGED db \/ Keeps(patch[w].c)
      BY <3>1, <3>2, SetWid, SetDirty
    <3>4. QED BY <1>0, <1>3, <3>3 DEF Keeps
  <2>4. ASSUME NEW c \in Contacts, DownloadWrite(c) PROVE db'[m.c].body = db[m.c].body
    <3>1. CASE c \in logged
      <4>1. Keeps(c)
        BY <2>4, <3>1, SetWid DEF DownloadWrite
      <4>2. QED BY <1>0, <4>1 DEF Keeps
    <3>2. CASE c \notin logged
      <4>1. \A d \in Contacts \ {c} : db'[d] = db[d]
        BY <2>4, <3>2 DEF DownloadWrite, TypeOK
      <4>2. QED BY <1>0, <3>2, <4>1
    <3>3. QED BY <3>1, <3>2
  <2>5. ASSUME NEW c \in Contacts,
               Operator(c) \/ DownloadRead(c) \/ RemoteWork(c)
               \/ \E u \in UploadWorkers : StartBatch(u, c)
        PROVE  UNCHANGED db
    BY <1>0, <2>5 DEF Operator, LogQSO, Save, Enrich, ReadForRefresh, LoopFree, DownloadRead,
                      RemoteWork, StartBatch, dbVars
  <2>6. ASSUME \/ \E w \in PatchWorkers : PatchDone(w)
               \/ \E u \in UploadWorkers : UploadDone(u)
               \/ WriteRefresh \/ RetryList \/ RetryQueue \/ LateLands \/ Crash \/ UNCHANGED vars
        PROVE  UNCHANGED db
    BY <1>0, <2>6 DEF PatchDone, UploadDone, WriteRefresh, RetryList, RetryQueue, LateLands,
                      Crash, vars, dbVars
  <2>7. QED BY <1>3, <2>2, <2>3, <2>4, <2>5, <2>6 DEF Next
<1>6. QED BY <1>4, <1>5

\* What the steps do to a refresh on its way.
LEMMA MergingStep ==
    ASSUME [Next]_vars
    PROVE  \/ merging' = merging \/ merging' = {}
           \/ \E c \in Contacts : ReadForRefresh(c)
<1>1. ASSUME NEW c \in Contacts,
             \/ LogQSO(c) \/ Save(c) \/ Enrich(c)
             \/ DownloadRead(c) \/ DownloadWrite(c) \/ RemoteWork(c)
             \/ \E u \in UploadWorkers : StartBatch(u, c)
      PROVE  UNCHANGED merging
  BY <1>1 DEF LogQSO, Save, Enrich, DownloadRead, DownloadWrite, RemoteWork, StartBatch, OnlyUp
<1>2. ASSUME NEW w \in PatchWorkers, PatchWork(w) \/ PatchDone(w) PROVE UNCHANGED merging
  BY <1>2 DEF PatchWork, PatchRead, PatchApplied, PatchNotFound, PatchFails, PatchAck,
              PatchUnlink, PatchClear, PatchDone, OnlyPatch
<1>3. ASSUME NEW u \in UploadWorkers, UploadWork(u) \/ UploadDone(u) PROVE UNCHANGED merging
  BY <1>3 DEF UploadWork, WorkerEnrich, WorkerLoad, Match, Created, Duplicate, PostFails,
              BlindAttach, Lookup, Attach, Check, UploadDone, OnlyUp
<1>4. CASE RetryList \/ RetryQueue \/ LateLands \/ UNCHANGED vars
  BY <1>4 DEF RetryList, RetryQueue, LateLands, vars
<1>5. CASE WriteRefresh \/ Crash
  BY <1>5 DEF WriteRefresh, Crash
<1>6. QED BY <1>1, <1>2, <1>3, <1>4, <1>5 DEF Next, Operator

\* A refresh on its way carries only what the server has held.
LEMMA MergesKnowStep ==
    ASSUME TypeOK, TypeOK', IInv, [Next]_vars
    PROVE  MergesKnow'
<1>0. MergesKnow /\ SeenGrows
  BY SeenStep DEF IInv
<1>1. CASE merging' = {}
  BY <1>1 DEF MergesKnow
<1>2. CASE merging' = merging
  <2>1. SUFFICES ASSUME NEW m \in merging
                 PROVE  /\ m.c \in logged'
                        /\ m.body.txt \in seen'[m.c].txt
                        /\ m.body.enr => seen'[m.c].enr \/ db'[m.c].body.enr
                        /\ m.known => db'[m.c].body.txt \in seen'[m.c].txt
    BY <1>2 DEF MergesKnow
  <2>2. /\ m.c \in Contacts /\ m.c \in logged'
        /\ db'[m.c].body.txt = db[m.c].body.txt
        /\ db[m.c].body.enr => db'[m.c].body.enr
    BY <1>2, MergedRow
  <2>3. QED BY <1>0, <2>2 DEF MergesKnow, SeenGrows
<1>3. ASSUME NEW c \in Contacts, ReadForRefresh(c) PROVE MergesKnow'
  <2>1. PICK t \in seen[c].txt, e \in {FALSE, seen[c].enr} :
          merging' = {[c |-> c, body |-> [txt |-> t, enr |-> e \/ db[c].body.enr],
                       known |-> Linked(c) /\ ~blind[c]]}
    BY <1>3 DEF ReadForRefresh
  <2>2. /\ UNCHANGED <<db, seen, logged>> /\ c \in logged /\ ~db[c].dirty
        /\ e \in BOOLEAN /\ db[c].body.enr \in BOOLEAN
    BY <1>3, Fields DEF ReadForRefresh, dbVars, srvVars, TypeOK, Pasts, Body
  <2>3. Linked(c) /\ ~blind[c] => db[c].body.txt \in seen[c].txt
    BY <2>2 DEF IInv, CleanMeansPushed, Pushed
  <2> DEFINE m == [c |-> c, body |-> [txt |-> t, enr |-> e \/ db[c].body.enr], known |-> Linked(c) /\ ~blind[c]]
  <2>4. m.c = c /\ m.body.txt = t /\ m.body.enr = (e \/ db[c].body.enr) /\ m.known = (Linked(c) /\ ~blind[c])
    OBVIOUS
  <2> HIDE DEF m
  <2>5. QED BY <2>1, <2>2, <2>3, <2>4 DEF MergesKnow, m
<1>4. QED BY <1>1, <1>2, <1>3, MergingStep


\* One contact's part of CleanMeansPushed.
CleanPushed(c) == Linked(c) /\ ~db[c].dirty /\ ~blind[c] => Pushed(c)

\* An edit marks a linked row pending.
LEMMA EditMarks ==
    ASSUME TypeOK, NEW c \in Contacts, NEW body \in Body,
           db' = [db EXCEPT ![c] = Edited(@, body)], UNCHANGED blind, SeenGrows,
           CleanMeansPushed
    PROVE  CleanMeansPushed'
<1>1. /\ db'[c].wid = db[c].wid /\ db'[c].dirty = (db[c].dirty \/ Linked(c))
      /\ \A d \in Contacts \ {c} : db'[d] = db[d]
  BY EditedFields
<1>2. CleanPushed(c)'
  BY <1>1 DEF CleanPushed, Linked
<1>3. ASSUME NEW d \in Contacts \ {c} PROVE CleanPushed(d)'
  BY <1>1 DEF CleanMeansPushed, CleanPushed, Linked, Pushed, SeenGrows
<1>4. QED BY <1>2, <1>3 DEF CleanMeansPushed, CleanPushed

\* A step that attaches an id, or clears the flag, of one row.
LEMMA LinkClean ==
    ASSUME TypeOK, SeenGrows, CleanMeansPushed, NEW c \in Contacts,
           Keeps(c), \A d \in Contacts \ {c} : blind'[d] = blind[d],
           db'[c].wid # 0 /\ ~db'[c].dirty /\ ~blind'[c]
             => Held(c, db[c].body) \/ (Linked(c) /\ ~db[c].dirty /\ ~blind[c])
    PROVE  CleanMeansPushed'
<1>1. ASSUME NEW d \in Contacts \ {c} PROVE CleanPushed(d)'
  BY DEF CleanMeansPushed, CleanPushed, Linked, Pushed, SeenGrows, Keeps
<1>2. CleanPushed(c)'
  BY DEF CleanMeansPushed, CleanPushed, Linked, Pushed, Held, SeenGrows, Keeps
<1>3. QED BY <1>1, <1>2 DEF CleanMeansPushed, CleanPushed

\* A clean linked row is what the server held, after every step.
LEMMA CleanStep ==
    ASSUME TypeOK, TypeOK', IInv, [Next]_vars
    PROVE  CleanMeansPushed'
<1>0. SeenGrows /\ CleanMeansPushed /\ UploadsKnow /\ PatchesKnow /\ NoRowYet /\ CopiesHeld
  BY SeenStep DEF IInv
<1>a. ASSUME UNCHANGED <<db, blind>> PROVE CleanMeansPushed'
  BY <1>0, <1>a DEF CleanMeansPushed, Linked, Pushed, SeenGrows
<1>1. ASSUME NEW c \in Contacts, Save(c) PROVE CleanMeansPushed'
  <2>1. PICK enr \in {db[c].body.enr, FALSE} :
          db' = [db EXCEPT ![c] = Edited(@, [txt |-> fresh + 1, enr |-> enr])]
    BY <1>1 DEF Save
  <2>2. fresh + 1 \in Texts /\ [txt |-> fresh + 1, enr |-> enr] \in Body
    BY <1>1, Fields, SyncAssumption DEF Save, TypeOK, Texts, SyncAssumption, Body
  <2>3. UNCHANGED blind
    BY <1>1 DEF Save
  <2>4. QED BY <1>0, <2>1, <2>2, <2>3, EditMarks
<1>2. ASSUME NEW c \in Contacts,
             db' = [db EXCEPT ![c] = Edited(@, [db[c].body EXCEPT !.enr = TRUE])],
             UNCHANGED blind
      PROVE  CleanMeansPushed'
  <2>1. [db[c].body EXCEPT !.enr = TRUE] \in Body
    BY Fields DEF Body
  <2>2. QED BY <1>0, <1>2, <2>1, EditMarks
<1>3. ASSUME NEW c \in Contacts, Enrich(c) PROVE CleanMeansPushed'
  BY <1>2, <1>3 DEF Enrich, TypeOK
<1>4. ASSUME NEW u \in UploadWorkers, WorkerEnrich(u) PROVE CleanMeansPushed'
  <2>1. up[u].c \in Contacts
    BY Fields
  <2>2. UNCHANGED blind
        /\ \/ UNCHANGED db
           \/ db' = [db EXCEPT ![up[u].c] = Edited(@, [db[up[u].c].body EXCEPT !.enr = TRUE])]
    BY <1>4, <2>1 DEF WorkerEnrich, TypeOK
  <2>3. QED BY <1>2, <1>a, <2>1, <2>2
<1>5. CASE WriteRefresh
  <2>1. PICK m \in merging :
          db' = [db EXCEPT ![m.c] = [@ EXCEPT !.body = m.body, !.rev = db[m.c].rev + 1]]
    BY <1>5 DEF WriteRefresh
  <2>2. m.c \in Contacts /\ m.body \in Body
    BY DEF TypeOK, Merges
  <2> DEFINE c == m.c
  <2>3. /\ db'[c].body = m.body /\ db'[c].wid = db[c].wid /\ db'[c].dirty = db[c].dirty
        /\ \A d \in Contacts \ {c} : db'[d] = db[d]
    BY <2>1, <2>2, SetMerged
  <2>4. UNCHANGED <<blind, seen>>
    BY <1>5 DEF WriteRefresh, srvVars
  <2>5. ASSUME NEW d \in Contacts \ {c} PROVE CleanPushed(d)'
    BY <1>0, <2>3, <2>4 DEF CleanMeansPushed, CleanPushed, Linked, Pushed
  <2>6. CleanPushed(c)'
    <3>1. m.body.txt \in seen[c].txt /\ (m.body.enr => seen[c].enr \/ db[c].body.enr)
      BY DEF IInv, MergesKnow
    <3>2. CleanPushed(c)
      BY <1>0, <2>2 DEF CleanMeansPushed, CleanPushed
    <3>3. QED BY <2>3, <2>4, <3>1, <3>2 DEF CleanPushed, Linked, Pushed
  <2>7. QED BY <2>5, <2>6 DEF CleanMeansPushed, CleanPushed
<1>6. ASSUME NEW w \in PatchWorkers, PatchWork(w) PROVE CleanMeansPushed'
  <2> DEFINE c == patch[w].c
  <2>0. c \in Contacts /\ patch[w].rev \in Nat /\ patch[w].ack \in Nat \cup {NoRev}
        /\ db[c].rev \in Nat
    BY Fields
  <2>1. CASE PatchAck(w)
    <3>1. CASE UNCHANGED <<db, blind>>
      BY <1>a, <3>1
    <3>2. CASE /\ db[c].rev = patch[w].ack
               /\ db' = [db EXCEPT ![c].dirty = FALSE] /\ blind' = [blind EXCEPT ![c] = FALSE]
      <4>1. Keeps(c) /\ \A d \in Contacts \ {c} : blind'[d] = blind[d]
        BY <2>0, <3>2, SetDirty DEF TypeOK
      <4>2. Snapshot(c, patch[w].rev, patch[w].body) /\ patch[w].ack <= patch[w].rev
            /\ Held(c, patch[w].body)
        BY <1>0, <2>1 DEF PatchAck, PatchStep, PatchesKnow, PatchKnows
      <4>3. patch[w].body = db[c].body
        BY <2>0, <3>2, <4>2 DEF Snapshot
      <4>4. QED BY <1>0, <2>0, <4>1, <4>2, <4>3, LinkClean
    <3>3. QED BY <2>1, <3>1, <3>2 DEF PatchAck
  <2>2. CASE PatchUnlink(w)
    <3>1. UNCHANGED blind
      BY <2>2 DEF PatchUnlink
    <3>2. CASE UNCHANGED db
      BY <1>a, <3>1, <3>2
    <3>3. CASE db' = [db EXCEPT ![c].wid = 0]
      <4>1. Keeps(c) /\ db'[c].wid = 0
        BY <2>0, <3>3, SetWid
      <4>2. QED BY <1>0, <2>0, <3>1, <4>1, LinkClean
    <3>4. QED BY <2>2, <3>2, <3>3 DEF PatchUnlink
  <2>3. CASE PatchClear(w)
    <3>1. CASE UNCHANGED <<db, blind>>
      BY <1>a, <3>1
    <3>2. CASE /\ db' = [db EXCEPT ![c].dirty = FALSE]
               /\ blind' = [blind EXCEPT ![c] = @ \/ Linked(c)]
      <4>1. Keeps(c) /\ db'[c].wid = db[c].wid
        BY <2>0, <3>2, SetDirty
      <4>2. /\ \A d \in Contacts \ {c} : blind'[d] = blind[d]
            /\ blind'[c] = (blind[c] \/ Linked(c))
        BY <2>0, <3>2 DEF TypeOK
      <4>3. QED BY <1>0, <2>0, <4>1, <4>2, LinkClean DEF Linked
    <3>3. QED BY <2>3, <3>1, <3>2 DEF PatchClear
  <2>4. CASE ~PatchAck(w) /\ ~PatchUnlink(w) /\ ~PatchClear(w)
    BY <1>6, <1>a, <2>4 DEF PatchWork, PatchRead, PatchApplied, PatchNotFound, PatchFails
  <2>5. QED BY <2>1, <2>2, <2>3, <2>4
<1>7. ASSUME NEW u \in UploadWorkers, UploadWork(u), ~WorkerEnrich(u) PROVE CleanMeansPushed'
  <2> DEFINE c == up[u].c
  <2>0. c \in Contacts /\ up[u].rev \in Nat /\ db[c].rev \in Nat /\ up[u].took \in BOOLEAN
        /\ blind[c] \in BOOLEAN /\ db[c].dirty \in BOOLEAN
    BY Fields DEF TypeOK, Uploads, Rows
  <2>1. ASSUME up[u].st # "idle", up[u].took, up[u].rev = db[c].rev PROVE Held(c, db[c].body)
    BY <1>0, <2>1 DEF UploadsKnow, Snapshot
  <2>2. CASE BlindAttach(u)
    <3>1. CASE UNCHANGED <<db, blind>>
      BY <1>a, <3>1
    <3>2. CASE /\ db' = [db EXCEPT ![c].wid = srv[c].id]
               /\ blind' = [blind EXCEPT ![c] =
                     IF Linked(c) THEN @ ELSE ~(up[u].took /\ up[u].rev = db[c].rev)]
      <4>1. Keeps(c) /\ db'[c].dirty = db[c].dirty
        BY <2>0, <3>2, SetWid
      <4>2. /\ \A d \in Contacts \ {c} : blind'[d] = blind[d]
            /\ Linked(c) => blind'[c] = blind[c]
            /\ ~Linked(c) /\ ~blind'[c] => up[u].took /\ up[u].rev = db[c].rev
        BY <2>0, <3>2 DEF TypeOK
      <4>3. up[u].st # "idle"
        BY <2>2 DEF BlindAttach, UpStep
      <4>4. db'[c].wid # 0 /\ ~db'[c].dirty /\ ~blind'[c]
              => Held(c, db[c].body) \/ (Linked(c) /\ ~db[c].dirty /\ ~blind[c])
        BY <2>1, <4>1, <4>2, <4>3
      <4>5. QED BY <1>0, <2>0, <4>1, <4>2, <4>4, LinkClean
    <3>3. QED BY <2>2, <3>1, <3>2 DEF BlindAttach
  <2>3. CASE Attach(u)
    <3> DEFINE newer == db[c].rev > up[u].rev
    <3>1. CASE UNCHANGED <<db, blind>>
      BY <1>a, <3>1
    <3>2. CASE /\ db' = [db EXCEPT ![c] = [@ EXCEPT !.wid = up[u].rid,
                                                    !.dirty = db[c].dirty \/ newer]]
               /\ blind' = [blind EXCEPT ![c] = IF Linked(c) THEN @ /\ (newer \/ ~up[u].took)
                                                      ELSE ~newer /\ ~up[u].took]
      <4>1. Keeps(c) /\ db'[c].dirty = (db[c].dirty \/ newer)
        BY <2>0, <3>2, SetLink
      <4>2. /\ \A d \in Contacts \ {c} : blind'[d] = blind[d]
            /\ blind'[c] = IF Linked(c) THEN blind[c] /\ (newer \/ ~up[u].took)
                                        ELSE ~newer /\ ~up[u].took
        BY <2>0, <3>2 DEF TypeOK
      <4>3. up[u].st # "idle" /\ up[u].rev <= db[c].rev
        BY <1>0, <2>3 DEF Attach, UpStep, UploadsKnow, Snapshot
      <4>4. ~newer => up[u].rev = db[c].rev
        BY <2>0, <4>3
      <4>5. db'[c].wid # 0 /\ ~db'[c].dirty /\ ~blind'[c]
              => Held(c, db[c].body) \/ (Linked(c) /\ ~db[c].dirty /\ ~blind[c])
        <5> HIDE DEF newer
        <5>1. QED BY <2>1, <4>1, <4>2, <4>3, <4>4
      <4>6. QED BY <1>0, <2>0, <4>1, <4>2, <4>5, LinkClean
    <3>3. QED BY <2>3, <3>1, <3>2 DEF Attach
  <2>4. CASE ~BlindAttach(u) /\ ~Attach(u)
    BY <1>7, <1>a, <2>4 DEF UploadWork, WorkerLoad, Match, Created, Duplicate, PostFails, Lookup,
                            Check
  <2>5. QED BY <2>2, <2>3, <2>4
<1>8. ASSUME NEW c \in Contacts, DownloadWrite(c) PROVE CleanMeansPushed'
  <2>1. CASE c \in logged
    <3>1. db' = [db EXCEPT ![c].wid = page[c].id] /\ blind' = [blind EXCEPT ![c] = Linked(c) => @]
      BY <1>8, <2>1 DEF DownloadWrite
    <3>2. Keeps(c) /\ db'[c].dirty = db[c].dirty
      BY <3>1, SetWid
    <3>3. /\ \A d \in Contacts \ {c} : blind'[d] = blind[d]
          /\ ~blind'[c] => Linked(c) /\ ~blind[c]
      BY <3>1 DEF TypeOK
    <3>4. QED BY <1>0, <3>2, <3>3, LinkClean
  <2>2. CASE c \notin logged
    <3>1. /\ db' = [db EXCEPT ![c] = [wid |-> page[c].id, dirty |-> FALSE, rev |-> 0,
                                      body |-> page[c].body]]
          /\ UNCHANGED <<blind, seen>> /\ page[c].id # 0
      BY <1>8, <2>2 DEF DownloadWrite, srvVars
    <3>2. db'[c].body = page[c].body /\ \A d \in Contacts \ {c} : db'[d] = db[d]
      BY <3>1 DEF TypeOK
    <3>3. CleanPushed(c)'
      BY <1>0, <3>1, <3>2 DEF CopiesHeld, Held, CleanPushed, Pushed
    <3>4. ASSUME NEW d \in Contacts \ {c} PROVE CleanPushed(d)'
      BY <1>0, <3>1, <3>2 DEF CleanMeansPushed, CleanPushed, Linked, Pushed
    <3>5. QED BY <3>3, <3>4 DEF CleanMeansPushed, CleanPushed
  <2>3. QED BY <2>1, <2>2
<1>9. ASSUME NEW c \in Contacts,
             LogQSO(c) \/ ReadForRefresh(c) \/ DownloadRead(c) \/ RemoteWork(c)
             \/ \E u \in UploadWorkers : StartBatch(u, c)
      PROVE  UNCHANGED <<db, blind>>
  BY <1>9 DEF LogQSO, ReadForRefresh, DownloadRead, RemoteWork, StartBatch, dbVars
<1>10. ASSUME \/ \E w \in PatchWorkers : PatchDone(w)
              \/ \E u \in UploadWorkers : UploadDone(u)
              \/ RetryList \/ RetryQueue \/ LateLands \/ Crash \/ UNCHANGED vars
       PROVE  UNCHANGED <<db, blind>>
  BY <1>10 DEF PatchDone, UploadDone, RetryList, RetryQueue, LateLands, Crash, vars, dbVars
<1>11. QED
  BY <1>1, <1>3, <1>4, <1>5, <1>6, <1>7, <1>8, <1>9, <1>10, <1>a DEF Next, Operator

\* The invariant that CleanMeansPushed needs is inductive.
LEMMA KnowledgeStep ==
    ASSUME TypeOK, TypeOK', IInv, [Next]_vars
    PROVE  IInv'
<1>1. NoRowYet' /\ logged \subseteq logged'
  BY RowStep DEF RowsGrow
<1>2. UploadsKnow' /\ PatchesKnow' /\ CopiesHeld' /\ MergesKnow' /\ CleanMeansPushed'
  BY UploadsKnowStep, PatchesKnowStep, CopiesHeldStep, MergesKnowStep, CleanStep
<1>3. listed' = listed \/ listed' = Pending \/ listed' = {}
  <2>1. ASSUME NEW c \in Contacts,
               Operator(c) \/ DownloadRead(c) \/ DownloadWrite(c) \/ RemoteWork(c)
               \/ \E u \in UploadWorkers : StartBatch(u, c)
        PROVE  UNCHANGED listed
    BY <2>1 DEF Operator, LogQSO, Save, Enrich, ReadForRefresh, DownloadRead, DownloadWrite,
                RemoteWork, StartBatch, OnlyUp
  <2>2. ASSUME NEW w \in PatchWorkers, PatchWork(w) \/ PatchDone(w) PROVE UNCHANGED listed
    BY <2>2 DEF PatchWork, PatchRead, PatchApplied, PatchNotFound, PatchFails, PatchAck,
                PatchUnlink, PatchClear, PatchDone, OnlyPatch
  <2>3. ASSUME NEW u \in UploadWorkers, UploadWork(u) \/ UploadDone(u) PROVE UNCHANGED listed
    BY <2>3 DEF UploadWork, WorkerEnrich, WorkerLoad, Match, Created, Duplicate, PostFails,
                BlindAttach, Lookup, Attach, Check, UploadDone, OnlyUp
  <2>4. CASE WriteRefresh \/ LateLands \/ UNCHANGED vars
    BY <2>4 DEF WriteRefresh, LateLands, vars
  <2>5. CASE RetryList \/ RetryQueue \/ Crash
    BY <2>5 DEF RetryList, RetryQueue, Crash
  <2>6. QED BY <2>1, <2>2, <2>3, <2>4, <2>5 DEF Next
<1>4. Pending \subseteq logged
  BY DEF IInv, NoRowYet, Pending
<1>5. QED BY <1>1, <1>2, <1>3, <1>4 DEF IInv

\* The invariant holds throughout.
LEMMA Knowledge == Spec => []IInv
<1>1. Init => IInv
  BY DEF Init, IInv, NoRowYet, UploadsKnow, PatchesKnow, CopiesHeld, MergesKnow,
         CleanMeansPushed, Linked, IdleUp, IdlePatch
<1>2. TypeOK /\ TypeOK' /\ IInv /\ [Next]_vars => IInv'
  BY KnowledgeStep
<1>3. QED BY <1>1, <1>2, TypeCorrect, PTL DEF Spec

\* A linked row without the pending flag holds nothing the server never received,
\* unless its id was attached without knowing what the server holds.
THEOREM CleanIsPushed == Spec => []CleanMeansPushed
<1>1. IInv => CleanMeansPushed
  BY DEF IInv
<1>2. QED BY <1>1, Knowledge, PTL

\* A remote refresh of a row known to be pushed replaces the operator's text only
\* after the server has held it.
THEOREM RefreshKeeps == Spec => RefreshLosesNothing
<1>1. IInv /\ [Next]_vars =>
        [\A m \in merging :
             /\ m.known
             /\ merging' = {}
             /\ db'[m.c].body.txt # db[m.c].body.txt
             => db[m.c].body.txt \in seen[m.c].txt]_vars
  BY DEF IInv, MergesKnow
<1>2. QED BY <1>1, Knowledge, PTL DEF Spec, RefreshLosesNothing

-----------------------------------------------------------------------------
(* Who pushes a pending row.                                               *)

\* An upload whose check of the revision has found, or will find, a newer edit.
CoversBy(u, c) ==
    /\ up[u].c = c
    /\ \/ up[u].st = "check" /\ db[c].rev > up[u].rev
       \/ up[u].st = "done" /\ up[u].res = "ok" /\ up[u].chg
UploadCovers(c) == \E u \in UploadWorkers : CoversBy(u, c)

\* A chain that will clear the flag of the row as it is now, or tell the operator.
Clears(w, c) ==
    LET p == patch[w] IN
    /\ p.st # "idle" /\ p.c = c
    /\ \/ p.st = "read" /\ (p.ack = NoRev \/ p.ack = db[c].rev)
       \/ p.st \in {"wire", "ack"} /\ p.ack = db[c].rev
       \/ p.st \in {"gone", "clear"}
       \/ p.st = "done" /\ p.res \in {"err", "incomplete"}

Covered(c) == UploadCovers(c) \/ c \in queued \/ \E w \in PatchWorkers : Clears(w, c)

FlagsCovered == \A c \in Contacts : db[c].dirty /\ owed[c] = "no" => Covered(c)

\* A row that becomes pending between the two halves of a refresh has an upload to
\* thank for it.
MergesCovered ==
    \A m \in merging : db[m.c].dirty /\ owed[m.c] = "no" => UploadCovers(m.c)

\* Only a chain that was started to read the row may find it without a copy.
ChainsLinked ==
    \A w \in PatchWorkers :
        patch[w].st \in {"wire", "ack", "gone"} \/ (patch[w].st = "read" /\ patch[w].ack # NoRev)
        => Linked(patch[w].c)

AttachesId == \A u \in UploadWorkers : up[u].st = "attach" => up[u].rid # 0

CInv == FlagsCovered /\ MergesCovered /\ ChainsLinked /\ AttachesId

\* Who covers a row still covers it.
UploadsCover(d) == \A u \in UploadWorkers : CoversBy(u, d) => CoversBy(u, d)'
ChainsClear(d)  == \A w \in PatchWorkers : Clears(w, d) => Clears(w, d)'

\* A contact stays covered while whoever covers it stays as it is.
LEMMA CoverStays ==
    ASSUME NEW d \in Contacts, Covered(d), UploadsCover(d),
           d \in queued => d \in queued', ChainsClear(d)
    PROVE  Covered(d)'
BY DEF Covered, UploadCovers, UploadsCover, ChainsClear

\* The same, for every upload worker.
LEMMA CoversStay ==
    ASSUME TypeOK, TypeOK', NEW d \in Contacts, db'[d].rev >= db[d].rev,
           \A u \in UploadWorkers : up[u].st \in {"check", "done"} => up'[u] = up[u]
    PROVE  UploadsCover(d)
<1>1. db[d].rev \in Nat /\ db'[d].rev \in Nat /\ \A u \in UploadWorkers : up[u].rev \in Nat
  BY Fields DEF TypeOK, Rows
<1>2. QED BY <1>1 DEF UploadsCover, CoversBy

\* The same, for the PATCH chains.
LEMMA ChainsStay ==
    ASSUME NEW d \in Contacts,
           \A w \in PatchWorkers : patch[w].st # "idle" => patch'[w] = patch[w],
           db'[d].rev = db[d].rev \/ (~Linked(d) /\ ChainsLinked)
    PROVE  ChainsClear(d)
BY DEF ChainsClear, Clears, ChainsLinked, Linked

\* A request to push a contact covers it, and leaves the other chains alone.
LEMMA PushCovers ==
    ASSUME TypeOK, NEW c \in Contacts, NEW ack, PushOrQueue(c, ack),
           ack = NoRev \/ ack = db'[c].rev
    PROVE  /\ c \in queued' \/ \E w \in PatchWorkers : Clears(w, c)'
           /\ queued \subseteq queued'
           /\ \A w \in PatchWorkers : patch[w].st # "idle" => patch'[w] = patch[w]
<1>1. CASE c \in inFlight
  BY <1>1 DEF PushOrQueue
<1>2. CASE c \notin inFlight
  <2>1. PICK w \in PatchWorkers : patch[w].st = "idle"
                                  /\ patch' = [patch EXCEPT ![w] = Chain(c, ack)]
    BY <1>2 DEF PushOrQueue
  <2>2. patch'[w].st = "read" /\ patch'[w].c = c /\ patch'[w].ack = ack
    BY <2>1 DEF TypeOK, Chain, IdlePatch
  <2>3. Clears(w, c)'
    BY <2>2 DEF Clears
  <2>4. QED BY <1>2, <2>1, <2>3 DEF PushOrQueue, TypeOK
<1>3. QED BY <1>1, <1>2

\* An edit that is pushed, or that leaves the row to the operator.
LEMMA EditCovers ==
    ASSUME TypeOK, TypeOK', FlagsCovered, ChainsLinked, NEW c \in Contacts, NEW body \in Body,
           NEW ack, NEW pushed, ack = NoRev \/ ack = db[c].rev + 1,
           db' = [db EXCEPT ![c] = Edited(@, body)],
           IF Linked(c) THEN PushEdit(c, ack, pushed) ELSE UNCHANGED <<coordVars, owed>>,
           UNCHANGED up
    PROVE  FlagsCovered'
<1>1. /\ db'[c].wid = db[c].wid /\ db'[c].dirty = (db[c].dirty \/ Linked(c))
      /\ db'[c].rev = db[c].rev + 1 /\ \A d \in Contacts \ {c} : db'[d] = db[d]
  BY EditedFields
<1>2. SUFFICES ASSUME NEW d \in Contacts, db'[d].dirty, owed'[d] = "no" PROVE Covered(d)'
  BY DEF FlagsCovered
<1>3. db[d].rev \in Nat /\ db'[d].rev >= db[d].rev
  BY <1>1, Fields
<1>4. UploadsCover(d)
  BY <1>3, CoversStay
<1>5. CASE Linked(c) /\ PushOrQueue(c, ack) /\ owed' = [owed EXCEPT ![c] = "no"]
  <2>1. /\ c \in queued' \/ \E w \in PatchWorkers : Clears(w, c)'
        /\ queued \subseteq queued'
        /\ \A w \in PatchWorkers : patch[w].st # "idle" => patch'[w] = patch[w]
    BY <1>1, <1>5, PushCovers
  <2>2. CASE d = c
    BY <2>1, <2>2 DEF Covered
  <2>3. CASE d # c
    <3>1. db'[d] = db[d] /\ owed[d] = "no"
      BY <1>1, <1>2, <1>5, <2>3 DEF TypeOK
    <3>2. Covered(d) /\ ChainsClear(d)
      BY <1>2, <2>1, <3>1, ChainsStay DEF FlagsCovered
    <3>3. QED BY <1>4, <2>1, <3>2, CoverStays
  <2>4. QED BY <2>2, <2>3
<1>6. CASE /\ UNCHANGED coordVars
           /\ \/ owed' = [owed EXCEPT ![c] = "told"]
              \/ ~Linked(c) /\ UNCHANGED owed
  <2>1. d = c => ~Linked(c) /\ db[d].dirty
    BY <1>1, <1>2, <1>6 DEF TypeOK
  <2>2. db[d].dirty /\ owed[d] = "no"
    BY <1>1, <1>2, <1>6, <2>1 DEF TypeOK
  <2>3. Covered(d)
    BY <2>2 DEF FlagsCovered
  <2>4. db'[d].rev = db[d].rev \/ ~Linked(d)
    BY <1>1, <2>1
  <2>5. ChainsClear(d)
    BY <1>6, <2>4, ChainsStay DEF coordVars
  <2>6. QED BY <1>4, <1>6, <2>3, <2>5, CoverStays DEF coordVars
<1>7. CASE Linked(c)
  <2>1. PushEdit(c, ack, pushed)
    BY <1>7
  <2>2. \/ PushOrQueue(c, ack) /\ owed' = [owed EXCEPT ![c] = "no"]
        \/ UNCHANGED coordVars /\ owed' = [owed EXCEPT ![c] = "told"]
    BY <2>1 DEF PushEdit
  <2>3. QED BY <1>5, <1>6, <1>7, <2>2
<1>8. CASE ~Linked(c)
  <2>1. UNCHANGED <<coordVars, owed>>
    BY <1>8
  <2>2. QED BY <1>6, <1>8, <2>1
<1>9. QED BY <1>7, <1>8

\* A step that makes no row pending and touches nobody who covers one.
LEMMA CoverSame ==
    ASSUME TypeOK, TypeOK', FlagsCovered, ChainsLinked, UNCHANGED <<queued, patch>>,
           \A d \in Contacts : db'[d].dirty /\ owed'[d] = "no" =>
               /\ db[d].dirty /\ owed[d] = "no"
               /\ \/ db'[d].rev = db[d].rev
                  \/ ~Linked(d) /\ db'[d].rev = db[d].rev + 1,
           \A u \in UploadWorkers : up[u].st \in {"check", "done"} => up'[u] = up[u]
    PROVE  FlagsCovered'
<1>1. SUFFICES ASSUME NEW d \in Contacts, db'[d].dirty, owed'[d] = "no" PROVE Covered(d)'
  BY DEF FlagsCovered
<1>2. /\ Covered(d)
      /\ db'[d].rev = db[d].rev \/ (~Linked(d) /\ db'[d].rev = db[d].rev + 1)
  BY <1>1 DEF FlagsCovered
<1>3. db'[d].rev >= db[d].rev
  BY <1>2, Fields
<1>4. UploadsCover(d)
  BY <1>3, CoversStay
<1>5. ChainsClear(d)
  BY <1>2, ChainsStay
<1>6. QED BY <1>2, <1>4, <1>5, CoverStays

\* The busy worker an upload's step moves is neither checking nor done, unless the
\* step is the check.
LEMMA UploadsRest ==
    ASSUME TypeOK, NEW u \in UploadWorkers, UploadWork(u), ~Check(u)
    PROVE  \A v \in UploadWorkers : up[v].st \in {"check", "done"} => up'[v] = up[v]
<1>1. OthersUp(u)
  BY UploadMove
<1>2. up[u].st \notin {"check", "done"}
  BY DEF UploadWork, WorkerEnrich, WorkerLoad, Match, Created, Duplicate, PostFails,
         BlindAttach, Lookup, Attach, UpStep
<1>3. QED BY <1>1, <1>2 DEF OthersUp

\* The frame of a PATCH worker's step.
LEMMA PatchFrame ==
    ASSUME TypeOK, NEW w \in PatchWorkers, PatchWork(w)
    PROVE  /\ UNCHANGED <<logged, inFlight, queued, up, merging>>
           /\ OthersPatch(w) /\ patch'[w].c = patch[w].c
           /\ db'[patch[w].c].rev = db[patch[w].c].rev
           /\ \A d \in Contacts \ {patch[w].c} : db'[d] = db[d] /\ owed'[d] = owed[d]
<1> DEFINE c == patch[w].c
<1>1. UNCHANGED <<logged, inFlight, queued, up, merging>>
  BY DEF PatchWork, PatchRead, PatchApplied, PatchNotFound, PatchFails, PatchAck,
         PatchUnlink, PatchClear, OnlyPatch
<1>2. OthersPatch(w) /\ patch'[w].c = c /\ c \in Contacts
  BY Fields, PatchMove
<1>3. \/ UNCHANGED db \/ db' = [db EXCEPT ![c].dirty = FALSE] \/ db' = [db EXCEPT ![c].wid = 0]
  BY DEF PatchWork, PatchRead, PatchApplied, PatchNotFound, PatchFails, PatchAck,
         PatchUnlink, PatchClear
<1>4. db'[c].rev = db[c].rev /\ \A d \in Contacts \ {c} : db'[d] = db[d]
  BY <1>2, <1>3, SetDirty, SetWid DEF Keeps
<1>5. UNCHANGED owed \/ owed' = [owed EXCEPT ![c] = "left"]
  BY DEF PatchWork, PatchRead, PatchApplied, PatchNotFound, PatchFails, PatchAck,
         PatchUnlink, PatchClear
<1>6. \A d \in Contacts \ {c} : owed'[d] = owed[d]
  BY <1>5 DEF TypeOK
<1>7. QED BY <1>1, <1>2, <1>4, <1>6

\* A chain's step keeps its row covered.
LEMMA PatchCovers ==
    ASSUME TypeOK, TypeOK', FlagsCovered, NEW w \in PatchWorkers, PatchWork(w)
    PROVE  FlagsCovered'
<1> DEFINE c == patch[w].c
<1>1. SUFFICES ASSUME NEW d \in Contacts, db'[d].dirty, owed'[d] = "no" PROVE Covered(d)'
  BY DEF FlagsCovered
<1>2. /\ UNCHANGED <<queued, up>> /\ OthersPatch(w) /\ patch'[w].c = c
      /\ db'[c].rev = db[c].rev
      /\ \A e \in Contacts \ {c} : db'[e] = db[e] /\ owed'[e] = owed[e]
      /\ c \in Contacts
  BY PatchFrame, Fields
<1>3. db'[d].rev = db[d].rev /\ db[d].rev \in Nat
  BY <1>2, Fields
<1>4. UploadsCover(d)
  BY <1>2, <1>3, CoversStay
<1>5. ASSUME Covered(d), Clears(w, d) => Clears(w, d)' PROVE Covered(d)'
  <2>1. \A v \in PatchWorkers \ {w} : Clears(v, d) => Clears(v, d)'
    BY <1>2, <1>3 DEF OthersPatch, Clears
  <2>2. ChainsClear(d)
    BY <1>5, <2>1 DEF ChainsClear
  <2>3. QED BY <1>2, <1>4, <1>5, <2>2, CoverStays
<1>6. CASE d # c
  BY <1>1, <1>2, <1>5, <1>6 DEF FlagsCovered, Clears
<1>7. CASE d = c
  <2>1. CASE PatchRead(w)
    <3>1. UNCHANGED db
      BY <2>1 DEF PatchRead
    <3>2. patch'[w].st = "done" /\ patch'[w].res = "gone" => owed' = [owed EXCEPT ![c] = "left"]
      BY <1>1, <1>7, <2>1, <3>1, PatchReadDoes
    <3>3. ~(patch'[w].st = "done" /\ patch'[w].res = "gone")
      BY <1>1, <1>2, <1>7, <3>2 DEF TypeOK
    <3>4. UNCHANGED owed
      BY <2>1, <3>3, PatchReadDoes
    <3>5. Covered(d)
      BY <1>1, <3>1, <3>4 DEF FlagsCovered
    <3>6. Clears(w, d) => Clears(w, d)'
      BY <1>7, <2>1, <3>1, <3>3, PatchReadDoes DEF Clears, PatchRead, PatchStep
    <3>7. QED BY <1>5, <3>5, <3>6
  <2>2. CASE ~PatchRead(w) /\ UNCHANGED <<db, owed>>
    <3>1. Covered(d)
      BY <1>1, <2>2 DEF FlagsCovered
    <3>2. CASE PatchApplied(w) \/ PatchNotFound(w) \/ PatchFails(w) \/ PatchUnlink(w)
      <4>1. PatchGoes(w, "ack") \/ PatchGoes(w, "gone") \/ PatchGoes(w, "clear") \/ PatchEnds(w, "err")
        BY <3>2 DEF PatchApplied, PatchNotFound, PatchFails, PatchUnlink
      <4>2. SamePush(w) /\ \/ patch'[w].st \in {"gone", "clear"}
                           \/ patch'[w].st = "ack" /\ patch[w].st = "wire"
                           \/ patch'[w].st = "done" /\ patch'[w].res = "err"
        <5>1. PatchGoes(w, "ack") => patch[w].st = "wire"
          BY <3>2, PatchGoesDoes, PatchEndsDoes
             DEF PatchApplied, PatchNotFound, PatchFails, PatchUnlink, PatchStep
        <5>2. QED BY <4>1, <5>1, PatchGoesDoes, PatchEndsDoes
      <4>3. Clears(w, d) => Clears(w, d)'
        BY <1>2, <1>7, <2>2, <4>2 DEF Clears, SamePush
      <4>4. QED BY <1>5, <3>1, <4>3
    <3>3. CASE PatchAck(w) \/ PatchClear(w)
      <4>1. CASE PatchAck(w) /\ PatchEnds(w, "incomplete")
        BY <1>5, <1>7, <3>1, <4>1, PatchEndsDoes DEF Clears, SamePush
      <4>2. CASE PatchAck(w) /\ ~PatchEnds(w, "incomplete")
        <5>1. ~Clears(w, d) \/ db'[c].dirty = FALSE
          <6>1. CASE db[c].rev = patch[w].ack
            <7>1. db' = [db EXCEPT ![c].dirty = FALSE]
              BY <4>2, <6>1 DEF PatchAck
            <7>2. QED BY <1>2, <7>1, SetDirty
          <6>2. CASE db[c].rev # patch[w].ack
            BY <1>7, <4>2, <6>2 DEF PatchAck, PatchStep, Clears
          <6>3. QED BY <6>1, <6>2
        <5>2. QED BY <1>1, <1>5, <1>7, <3>1, <5>1
      <4>3. CASE PatchClear(w)
        <5>1. db' = [db EXCEPT ![c].dirty = FALSE] \/ owed' = [owed EXCEPT ![c] = "left"]
          BY <4>3 DEF PatchClear
        <5>2. CASE db' = [db EXCEPT ![c].dirty = FALSE]
          BY <1>1, <1>2, <1>7, <5>2, SetDirty
        <5>3. CASE owed' = [owed EXCEPT ![c] = "left"]
          BY <1>1, <1>2, <1>7, <5>3 DEF TypeOK
        <5>4. QED BY <5>1, <5>2, <5>3
      <4>4. QED BY <3>3, <4>1, <4>2, <4>3
    <3>4. QED BY <2>2, <3>2, <3>3 DEF PatchWork
  <2>3. CASE ~PatchRead(w) /\ ~UNCHANGED <<db, owed>>
    <3>1. CASE PatchUnlink(w)
      <4>1. PatchGoes(w, "clear") /\ UNCHANGED owed /\ db' = [db EXCEPT ![c].wid = 0]
        BY <2>3, <3>1 DEF PatchUnlink
      <4>2. db'[c].dirty = db[c].dirty
        BY <1>2, <4>1, SetWid
      <4>3. Covered(d)
        BY <1>1, <1>7, <4>1, <4>2 DEF FlagsCovered
      <4>4. Clears(w, d)'
        BY <1>2, <1>7, <4>1, PatchGoesDoes DEF Clears
      <4>5. QED BY <1>5, <4>3, <4>4
    <3>2. CASE PatchAck(w)
      <4>1. db' = [db EXCEPT ![c].dirty = FALSE]
        BY <2>3, <3>2 DEF PatchAck
      <4>2. QED BY <1>1, <1>2, <1>7, <4>1, SetDirty
    <3>3. CASE PatchClear(w)
      <4>1. db' = [db EXCEPT ![c].dirty = FALSE] \/ owed' = [owed EXCEPT ![c] = "left"]
        BY <3>3 DEF PatchClear
      <4>2. CASE db' = [db EXCEPT ![c].dirty = FALSE]
        BY <1>1, <1>2, <1>7, <4>2, SetDirty
      <4>3. CASE owed' = [owed EXCEPT ![c] = "left"]
        BY <1>1, <1>2, <1>7, <4>3 DEF TypeOK
      <4>4. QED BY <4>1, <4>2, <4>3
    <3>4. QED
      BY <2>3, <3>1, <3>2, <3>3 DEF PatchWork, PatchApplied, PatchNotFound, PatchFails
  <2>4. QED BY <2>1, <2>2, <2>3
<1>8. QED BY <1>6, <1>7

\* The end of a chain: its follow-up, or the operator, has what is left.
LEMMA PatchDoneCovers ==
    ASSUME TypeOK, TypeOK', FlagsCovered, NEW w \in PatchWorkers, PatchDone(w)
    PROVE  FlagsCovered'
<1> DEFINE c == patch[w].c
<1>1. SUFFICES ASSUME NEW d \in Contacts, db'[d].dirty, owed'[d] = "no" PROVE Covered(d)'
  BY DEF FlagsCovered
<1>2. UNCHANGED <<db, up>> /\ c \in Contacts /\ patch[w].st = "done"
  BY Fields DEF PatchDone, PatchStep, dbVars
<1>3. db'[d].rev = db[d].rev /\ db[d].rev \in Nat
  BY <1>2, Fields
<1>4. UploadsCover(d)
  BY <1>2, <1>3, CoversStay
<1>5. CASE c \in queued
  <2>1. queued' = queued \ {c} /\ patch' = [patch EXCEPT ![w] = Chain(c, NoRev)] /\ UNCHANGED owed
    BY <1>5 DEF PatchDone
  <2>2. patch'[w].st = "read" /\ patch'[w].c = c /\ patch'[w].ack = NoRev
        /\ \A v \in PatchWorkers \ {w} : patch'[v] = patch[v]
    BY <2>1 DEF TypeOK, Chain, IdlePatch
  <2>3. CASE d = c
    BY <2>2, <2>3 DEF Covered, Clears
  <2>4. CASE d # c
    <3>1. Covered(d)
      BY <1>1, <1>2, <2>1 DEF FlagsCovered
    <3>2. ChainsClear(d)
      BY <1>2, <2>2, <2>4 DEF ChainsClear, Clears
    <3>3. QED BY <1>4, <2>1, <2>4, <3>1, <3>2, CoverStays
  <2>5. QED BY <2>3, <2>4
<1>6. CASE c \notin queued
  <2>1. /\ UNCHANGED queued /\ patch' = [patch EXCEPT ![w] = IdlePatch]
        /\ owed' = IF patch[w].res \in {"err", "incomplete"}
                   THEN [owed EXCEPT ![c] = "told"] ELSE owed
    BY <1>6 DEF PatchDone
  <2>2. \A v \in PatchWorkers \ {w} : patch'[v] = patch[v]
    BY <2>1 DEF TypeOK
  <2>3. owed[d] = "no" /\ (d = c => patch[w].res \notin {"err", "incomplete"})
    BY <1>1, <1>2, <2>1 DEF TypeOK
  <2>4. Covered(d) /\ ~Clears(w, d)
    BY <1>1, <1>2, <2>3 DEF FlagsCovered, Clears
  <2>5. ChainsClear(d)
    BY <1>2, <2>2, <2>4 DEF ChainsClear, Clears
  <2>6. QED BY <1>4, <2>1, <2>4, <2>5, CoverStays
<1>7. QED BY <1>5, <1>6


\* A callbook answer of the WSJT-X worker: only a row without a copy keeps its owner.
LEMMA WorkerEnrichDoes ==
    ASSUME TypeOK, NEW u \in UploadWorkers, WorkerEnrich(u), NEW d \in Contacts,
           db'[d].dirty, owed'[d] = "no"
    PROVE  /\ db[d].dirty /\ owed[d] = "no" /\ db'[d].wid = db[d].wid
           /\ \/ db'[d].rev = db[d].rev
              \/ ~Linked(d) /\ db'[d].rev = db[d].rev + 1
<1> DEFINE c == up[u].c
<1>1. c \in Contacts /\ [db[c].body EXCEPT !.enr = TRUE] \in Body
  BY Fields DEF Body
<1>2. CASE UNCHANGED <<db, owed>>
  BY <1>2
<1>3. CASE /\ db' = [db EXCEPT ![c] = Edited(@, [db[c].body EXCEPT !.enr = TRUE])]
           /\ owed' = IF Linked(c) THEN [owed EXCEPT ![c] = "worker"] ELSE owed
  <2>1. /\ db'[c].wid = db[c].wid /\ db'[c].dirty = (db[c].dirty \/ Linked(c))
        /\ db'[c].rev = db[c].rev + 1 /\ \A e \in Contacts \ {c} : db'[e] = db[e]
    BY <1>1, <1>3, EditedFields
  <2>2. CASE d = c
    <3>1. ~Linked(c)
      BY <1>3, <2>2 DEF TypeOK
    <3>2. QED BY <1>3, <2>1, <2>2, <3>1
  <2>3. CASE d # c
    BY <1>3, <2>1, <2>3 DEF TypeOK
  <2>4. QED BY <2>2, <2>3
<1>4. QED BY <1>1, <1>2, <1>3 DEF WorkerEnrich, TypeOK

\* What an upload's attach does to the row and to who is behind it.
LEMMA AttachDoes ==
    ASSUME TypeOK, NEW u \in UploadWorkers, Attach(u)
    PROVE  LET c == up[u].c IN
           \/ UNCHANGED <<db, owed>>
           \/ /\ Keeps(c) /\ db'[c].wid = up[u].rid
              /\ \A d \in Contacts \ {c} : owed'[d] = owed[d]
              /\ \/ /\ db[c].rev > up[u].rev /\ up'[u].st = "check" /\ SameJob(u)
                 \/ db'[c].dirty = db[c].dirty /\ UNCHANGED owed
<1> DEFINE c == up[u].c
           newer == db[c].rev > up[u].rev
<1>0. c \in Contacts /\ up[u].rev \in Nat /\ db[c].dirty \in BOOLEAN
  BY Fields
<1>1. CASE UNCHANGED <<db, owed>>
  BY <1>1
<1>2. CASE /\ db' = [db EXCEPT ![c] = [@ EXCEPT !.wid = up[u].rid, !.dirty = db[c].dirty \/ newer]]
           /\ owed' = IF newer THEN [owed EXCEPT ![c] = "no"] ELSE owed
           /\ UpGoes(u, "check")
  <2>1. Keeps(c) /\ db'[c].wid = up[u].rid /\ db'[c].dirty = (db[c].dirty \/ newer)
    BY <1>0, <1>2, SetLink
  <2>2. up'[u].st = "check" /\ SameJob(u)
    BY <1>2, UpGoesDoes
  <2>3. \A d \in Contacts \ {c} : owed'[d] = owed[d]
    BY <1>2 DEF TypeOK
  <2>4. CASE newer
    BY <2>1, <2>2, <2>3, <2>4
  <2>5. CASE ~newer
    <3>1. db'[c].dirty = db[c].dirty /\ UNCHANGED owed
      BY <1>0, <1>2, <2>1, <2>5
    <3>2. QED BY <2>1, <2>3, <3>1
  <2>6. QED BY <2>4, <2>5
<1>3. QED BY <1>1, <1>2 DEF Attach

\* An upload's step keeps every pending row covered.
LEMMA UploadWorkCovers ==
    ASSUME TypeOK, TypeOK', CInv, NEW u \in UploadWorkers, UploadWork(u)
    PROVE  FlagsCovered'
<1> DEFINE c == up[u].c
<1>0. /\ FlagsCovered /\ ChainsLinked /\ UNCHANGED <<queued, patch>>
      /\ c \in Contacts /\ up[u].rev \in Nat /\ db[c].rev \in Nat
  <2>1. UNCHANGED <<queued, patch>>
    BY DEF UploadWork, OnlyUp, coordVars, WorkerEnrich, WorkerLoad, Match, Created, Duplicate,
           PostFails, BlindAttach, Lookup, Attach, Check
  <2>2. QED BY <2>1, Fields DEF CInv
<1>1. CASE WorkerEnrich(u)
  <2>1. \A v \in UploadWorkers : up[v].st \in {"check", "done"} => up'[v] = up[v]
    BY <1>1, UploadsRest DEF WorkerEnrich, Check, UpStep
  <2>2. QED BY <1>0, <1>1, <2>1, WorkerEnrichDoes, CoverSame
<1>2. CASE BlindAttach(u)
  <2>1. \A v \in UploadWorkers : up[v].st \in {"check", "done"} => up'[v] = up[v]
    BY <1>2, UploadsRest DEF BlindAttach, Check, UpStep
  <2>2. UNCHANGED owed /\ (UNCHANGED db \/ db' = [db EXCEPT ![c].wid = srv[c].id])
    BY <1>2 DEF BlindAttach
  <2>3. \A d \in Contacts : db'[d].dirty = db[d].dirty /\ db'[d].rev = db[d].rev
    BY <1>0, <2>2, SetWid DEF Keeps
  <2>4. QED BY <1>0, <2>1, <2>2, <2>3, CoverSame
<1>3. CASE Attach(u)
  <2>1. \A v \in UploadWorkers : up[v].st \in {"check", "done"} => up'[v] = up[v]
    BY <1>3, UploadsRest DEF Attach, Check, UpStep
  <2>2. CASE UNCHANGED <<db, owed>>
    BY <1>0, <2>1, <2>2, CoverSame
  <2>3. CASE /\ Keeps(c) /\ UNCHANGED owed /\ db'[c].dirty = db[c].dirty
    BY <1>0, <2>1, <2>3, CoverSame DEF Keeps
  <2>4. CASE /\ Keeps(c) /\ \A d \in Contacts \ {c} : owed'[d] = owed[d]
             /\ db[c].rev > up[u].rev /\ up'[u].st = "check" /\ SameJob(u)
    <3>1. SUFFICES ASSUME NEW d \in Contacts, db'[d].dirty, owed'[d] = "no" PROVE Covered(d)'
      BY DEF FlagsCovered
    <3>2. CASE d = c
      <4>1. up'[u].c = d /\ db'[d].rev > up'[u].rev
        BY <2>4, <3>2 DEF Keeps, SameJob
      <4>2. QED BY <2>4, <4>1 DEF Covered, UploadCovers, CoversBy
    <3>3. CASE d # c
      <4>1. db'[d] = db[d] /\ Covered(d)
        BY <1>0, <2>4, <3>1, <3>3 DEF Keeps, FlagsCovered
      <4>2. db'[d].rev >= db[d].rev
        BY <4>1, Fields
      <4>3. UploadsCover(d)
        BY <2>1, <4>2, CoversStay
      <4>4. ChainsClear(d)
        BY <1>0, <4>1, ChainsStay
      <4>5. QED BY <1>0, <4>1, <4>3, <4>4, CoverStays
    <3>4. QED BY <3>2, <3>3
  <2>5. QED BY <1>3, <2>2, <2>3, <2>4, AttachDoes
<1>4. CASE Check(u)
  <2>1. SUFFICES ASSUME NEW d \in Contacts, db'[d].dirty, owed'[d] = "no" PROVE Covered(d)'
    BY DEF FlagsCovered
  <2>2. UNCHANGED db /\ up[u].st = "check"
    BY <1>4 DEF Check, UpStep
  <2>3. CASE UpEnds(u, "unresolved")
    <3>1. UNCHANGED owed \/ owed' = [owed EXCEPT ![c] = "told"]
      BY <1>4 DEF Check
    <3>2. owed[d] = "no"
      BY <2>1, <3>1 DEF TypeOK
    <3>3. Covered(d)
      BY <1>0, <2>1, <2>2, <3>2 DEF FlagsCovered
    <3>4. CASE owed' = [owed EXCEPT ![c] = "told"]
      <4>1. d # c
        BY <1>0, <2>1, <3>4 DEF TypeOK
      <4>2. UploadsCover(d)
        BY <2>2, <2>3, <4>1, UpEndsDoes DEF UploadsCover, CoversBy, OthersUp, SameJob
      <4>3. ChainsClear(d)
        BY <1>0, <2>2, ChainsStay
      <4>4. QED BY <1>0, <3>3, <4>2, <4>3, CoverStays
    <3>5. CASE owed' # [owed EXCEPT ![c] = "told"]
      <4>1. up' = [up EXCEPT ![u] = [@ EXCEPT !.st = "done", !.res = "ok",
                                              !.chg = db[c].rev > up[u].rev]]
        BY <1>4, <3>5 DEF Check
      <4>2. up'[u].res = "ok"
        <5>1. up'[u] = [up[u] EXCEPT !.st = "done", !.res = "ok", !.chg = db[c].rev > up[u].rev]
          BY <4>1 DEF TypeOK
        <5>2. QED BY <5>1 DEF TypeOK, Uploads
      <4>3. QED BY <2>3, <4>2, UpEndsDoes
    <3>6. QED BY <3>4, <3>5
  <2>4. CASE ~UpEnds(u, "unresolved")
    <3>1. UNCHANGED owed
      BY <1>4, <2>4 DEF Check
    <3>2. /\ OthersUp(u) /\ SameJob(u) /\ up'[u].st = "done" /\ up'[u].res = "ok"
          /\ up'[u].chg = (db[c].rev > up[u].rev)
      BY <1>4, <2>4, CheckDoes
    <3>3. UploadsCover(d)
      BY <2>2, <3>2 DEF UploadsCover, CoversBy, OthersUp, SameJob
    <3>4. ChainsClear(d) /\ Covered(d)
      BY <1>0, <2>1, <2>2, <3>1, ChainsStay DEF FlagsCovered
    <3>5. QED BY <1>0, <3>3, <3>4, CoverStays
  <2>5. QED BY <2>3, <2>4
<1>5. CASE ~WorkerEnrich(u) /\ ~BlindAttach(u) /\ ~Attach(u) /\ ~Check(u)
  <2>1. \A v \in UploadWorkers : up[v].st \in {"check", "done"} => up'[v] = up[v]
    BY <1>5, UploadsRest
  <2>2. UNCHANGED <<db, owed>>
    BY <1>5 DEF UploadWork, WorkerLoad, Match, Created, Duplicate, PostFails, Lookup
  <2>3. QED BY <1>0, <2>1, <2>2, CoverSame
<1>6. QED BY <1>1, <1>2, <1>3, <1>4, <1>5

\* The result of an upload: the newer revision is pushed.
LEMMA UploadDoneCovers ==
    ASSUME TypeOK, TypeOK', FlagsCovered, NEW u \in UploadWorkers, UploadDone(u)
    PROVE  FlagsCovered'
<1> DEFINE c == up[u].c
<1>1. SUFFICES ASSUME NEW d \in Contacts, db'[d].dirty, owed'[d] = "no" PROVE Covered(d)'
  BY DEF FlagsCovered
<1>2. UNCHANGED <<db, owed>> /\ c \in Contacts /\ up[u].st = "done"
      /\ \A v \in UploadWorkers \ {u} : up'[v] = up[v]
  <2>1. UNCHANGED <<db, owed>> /\ c \in Contacts /\ up[u].st = "done"
    BY Fields DEF UploadDone, UpStep, dbVars
  <2>2. \/ up' = [up EXCEPT ![u] = IdleUp]
        \/ up' = [up EXCEPT ![u] = [@ EXCEPT !.st = "lookup", !.retried = TRUE, !.res = "none"]]
    BY DEF UploadDone
  <2>3. \A v \in UploadWorkers \ {u} : up'[v] = up[v]
    BY <2>2 DEF TypeOK
  <2>4. QED BY <2>1, <2>3
<1>3. Covered(d)
  BY <1>1, <1>2 DEF FlagsCovered
<1>4. CASE up[u].res = "ok" /\ up[u].chg /\ PushOrQueue(c, NoRev)
  <2>1. /\ queued \subseteq queued'
        /\ \A w \in PatchWorkers : patch[w].st # "idle" => patch'[w] = patch[w]
    BY <1>2, <1>4, PushCovers
  <2>2. CASE d = c
    <3>1. PICK e \in Contacts : e = c
      BY <1>2
    <3>2. e \in queued' \/ \E w \in PatchWorkers : Clears(w, e)'
      BY <1>4, <3>1, PushCovers
    <3>3. QED BY <2>2, <3>1, <3>2 DEF Covered
  <2>3. CASE d # c
    <3>1. UploadsCover(d)
      BY <1>2, <2>3 DEF UploadsCover, CoversBy
    <3>2. ChainsClear(d)
      BY <1>2, <2>1, ChainsStay
    <3>3. QED BY <1>3, <2>1, <3>1, <3>2, CoverStays
  <2>4. QED BY <2>2, <2>3
<1>5. CASE ~(up[u].res = "ok" /\ up[u].chg)
  <2>1. UNCHANGED coordVars
    BY <1>5 DEF UploadDone
  <2>2. UploadsCover(d)
    BY <1>2, <1>5 DEF UploadsCover, CoversBy
  <2>3. ChainsClear(d)
    BY <1>2, <2>1, ChainsStay DEF coordVars
  <2>4. QED BY <1>3, <2>1, <2>2, <2>3, CoverStays DEF coordVars
<1>6. QED BY <1>4, <1>5 DEF UploadDone

\* A bulk retry starts a chain for every listed row that has none.
LEMMA RetryCovers ==
    ASSUME TypeOK, TypeOK', FlagsCovered, RetryQueue
    PROVE  FlagsCovered'
<1> DEFINE new == listed \ inFlight
<1>1. SUFFICES ASSUME NEW d \in Contacts, db'[d].dirty, owed'[d] = "no" PROVE Covered(d)'
  BY DEF FlagsCovered
<1>2. PICK run \in [new -> {w \in PatchWorkers : patch[w].st = "idle"}] :
        /\ \A e, f \in new : run[e] = run[f] => e = f
        /\ patch' = [w \in PatchWorkers |->
                       IF \E e \in new : run[e] = w
                       THEN Chain(CHOOSE e \in new : run[e] = w, NoRev)
                       ELSE patch[w]]
  BY DEF RetryQueue
<1>3. UNCHANGED <<db, queued, up>>
  BY DEF RetryQueue, dbVars
<1>4. owed'[d] = IF d \in new THEN "no"
                 ELSE IF d \in listed /\ owed[d] # "no" THEN "skipped" ELSE owed[d]
  BY DEF RetryQueue
<1>5. CASE d \in new
  <2>1. run[d] \in PatchWorkers
    BY <1>2, <1>5
  <2>2. (CHOOSE e \in new : run[e] = run[d]) = d
    BY <1>2, <1>5
  <2>3. patch'[run[d]] = Chain(d, NoRev)
    BY <1>2, <1>5, <2>1, <2>2
  <2>4. patch'[run[d]].st = "read" /\ patch'[run[d]].c = d /\ patch'[run[d]].ack = NoRev
    BY <2>3 DEF Chain, IdlePatch
  <2>5. QED BY <2>1, <2>4 DEF Covered, Clears
<1>6. CASE d \notin new
  <2>1. owed[d] = "no"
    BY <1>1, <1>4, <1>6
  <2>2. Covered(d)
    BY <1>1, <1>3, <2>1 DEF FlagsCovered
  <2>3. \A w \in PatchWorkers : patch[w].st # "idle" => patch'[w] = patch[w]
    BY <1>2
  <2>4. ChainsClear(d)
    BY <1>3, <2>3, ChainsStay
  <2>5. UploadsCover(d)
    BY <1>3 DEF UploadsCover, CoversBy
  <2>6. QED BY <1>3, <2>2, <2>4, <2>5, CoverStays
<1>7. QED BY <1>5, <1>6


\* Of the steps that touch neither a worker's promise nor the flag of a row.
LEMMA QuietCovers ==
    ASSUME TypeOK, TypeOK', CInv, UNCHANGED <<db, owed, queued, patch>>,
           \A u \in UploadWorkers : up[u].st \in {"check", "done"} => up'[u] = up[u]
    PROVE  FlagsCovered'
BY CoverSame DEF CInv

\* Every pending row has somebody behind it, after every step.
LEMMA FlagsCoveredStep ==
    ASSUME TypeOK, TypeOK', IInv, CInv, [Next]_vars
    PROVE  FlagsCovered'
<1>0. FlagsCovered /\ ChainsLinked /\ MergesCovered
  BY DEF CInv
<1>1. ASSUME NEW c \in Contacts, LogQSO(c) PROVE FlagsCovered'
  <2>1. \A u \in UploadWorkers : up[u].st \in {"check", "done"} => up'[u] = up[u]
    <3>1. UNCHANGED up \/ \E u \in UploadWorkers, x \in Uploads :
              up[u].st = "idle" /\ up' = [up EXCEPT ![u] = x]
      <4>1. ASSUME ~UNCHANGED up
            PROVE  \E u \in UploadWorkers, x \in Uploads :
                      up[u].st = "idle" /\ up' = [up EXCEPT ![u] = x]
        <5>1. PICK u \in UploadWorkers, kind \in {"auto", "wsjtx"} :
                /\ up[u].st = "idle"
                /\ up' = [up EXCEPT ![u] =
                            NewUpload(c, kind, IF kind = "auto" THEN "post" ELSE "enrich")]
          BY <1>1, <4>1 DEF LogQSO
        <5>2. NewUpload(c, kind, IF kind = "auto" THEN "post" ELSE "enrich") \in Uploads
          BY Fields, InitialValues DEF NewUpload, Uploads, UpStates
        <5>3. QED BY <5>1, <5>2
      <4>2. QED BY <4>1
    <3>2. QED BY <3>1 DEF TypeOK
  <2>2. UNCHANGED <<db, owed, queued, patch>>
    BY <1>1 DEF LogQSO, coordVars
  <2>3. QED BY <2>1, <2>2, QuietCovers
<1>2. ASSUME NEW c \in Contacts, Save(c) PROVE FlagsCovered'
  <2>1. PICK enr \in {db[c].body.enr, FALSE}, pushed \in Connection :
          /\ db' = [db EXCEPT ![c] = Edited(@, [txt |-> fresh + 1, enr |-> enr])]
          /\ IF Linked(c) THEN PushEdit(c, db[c].rev + 1, pushed)
                          ELSE UNCHANGED <<coordVars, owed>>
    BY <1>2 DEF Save
  <2>2. fresh + 1 \in Texts /\ [txt |-> fresh + 1, enr |-> enr] \in Body
    BY <1>2, Fields, SyncAssumption DEF Save, TypeOK, Texts, SyncAssumption, Body
  <2>3. UNCHANGED up
    BY <1>2 DEF Save
  <2> DEFINE ack == db[c].rev + 1
  <2>4. ack = db[c].rev + 1
    OBVIOUS
  <2>5. IF Linked(c) THEN PushEdit(c, ack, pushed) ELSE UNCHANGED <<coordVars, owed>>
    BY <2>1
  <2> HIDE DEF ack
  <2>6. QED BY <1>0, <2>1, <2>2, <2>3, <2>4, <2>5, EditCovers
<1>3. ASSUME NEW c \in Contacts, Enrich(c) PROVE FlagsCovered'
  <2>1. PICK pushed \in Connection :
          IF Linked(c) THEN PushEdit(c, NoRev, pushed) ELSE UNCHANGED <<coordVars, owed>>
    BY <1>3 DEF Enrich
  <2>2. [db[c].body EXCEPT !.enr = TRUE] \in Body
    BY Fields DEF Body
  <2>3. UNCHANGED up /\ db' = [db EXCEPT ![c] = Edited(@, [db[c].body EXCEPT !.enr = TRUE])]
    BY <1>3 DEF Enrich, TypeOK
  <2>4. QED BY <1>0, <2>1, <2>2, <2>3, EditCovers
<1>4. ASSUME NEW c \in Contacts, ReadForRefresh(c) \/ DownloadRead(c) \/ RemoteWork(c)
      PROVE  FlagsCovered'
  BY <1>4, QuietCovers DEF ReadForRefresh, DownloadRead, RemoteWork, dbVars, coordVars
<1>5. ASSUME NEW u \in UploadWorkers, NEW c \in Contacts, StartBatch(u, c) PROVE FlagsCovered'
  <2>1. PICK st \in {"bulk", "match"} : up' = [up EXCEPT ![u] = NewUpload(c, "batch", st)]
    BY <1>5 DEF StartBatch
  <2>2. \A v \in UploadWorkers : up[v].st \in {"check", "done"} => up'[v] = up[v]
    BY <1>5, <2>1 DEF StartBatch, UpStep, TypeOK
  <2>3. UNCHANGED <<db, owed, queued, patch>>
    BY <1>5 DEF StartBatch, OnlyUp, coordVars
  <2>4. QED BY <2>2, <2>3, QuietCovers
<1>6. ASSUME NEW c \in Contacts, DownloadWrite(c) PROVE FlagsCovered'
  <2>1. UNCHANGED <<owed, queued, patch, up>>
    BY <1>6 DEF DownloadWrite, coordVars
  <2>2. CASE c \in logged
    <3>1. Keeps(c) /\ db'[c].dirty = db[c].dirty
      BY <1>6, <2>2, SetWid DEF DownloadWrite
    <3>2. QED BY <1>0, <2>1, <3>1, CoverSame DEF Keeps
  <2>3. CASE c \notin logged
    <3>1. db'[c].dirty = FALSE /\ \A d \in Contacts \ {c} : db'[d] = db[d]
      BY <1>6, <2>3 DEF DownloadWrite, TypeOK
    <3>2. QED BY <1>0, <2>1, <3>1, CoverSame
  <2>4. QED BY <2>2, <2>3
<1>7. CASE WriteRefresh
  <2>1. PICK m \in merging :
          db' = [db EXCEPT ![m.c] = [@ EXCEPT !.body = m.body, !.rev = db[m.c].rev + 1]]
    BY <1>7 DEF WriteRefresh
  <2>2. m.c \in Contacts /\ m.body \in Body /\ UNCHANGED <<owed, queued, patch, up>>
    BY <1>7 DEF WriteRefresh, TypeOK, Merges, coordVars
  <2>3. /\ db'[m.c].rev = db[m.c].rev + 1 /\ db'[m.c].dirty = db[m.c].dirty
        /\ \A d \in Contacts \ {m.c} : db'[d] = db[d]
    BY <2>1, <2>2, SetMerged
  <2>4. SUFFICES ASSUME NEW d \in Contacts, db'[d].dirty, owed'[d] = "no" PROVE Covered(d)'
    BY DEF FlagsCovered
  <2>5. db[d].dirty /\ owed[d] = "no" /\ Covered(d)
    BY <1>0, <2>2, <2>3, <2>4 DEF FlagsCovered
  <2>6. db[d].rev \in Nat /\ db'[d].rev >= db[d].rev
    BY <2>3, Fields
  <2>7. UploadsCover(d)
    BY <2>2, <2>6, CoversStay
  <2>8. CASE d = m.c
    <3>1. UploadCovers(d)
      BY <1>0, <2>5, <2>8 DEF MergesCovered
    <3>2. QED BY <2>7, <3>1 DEF Covered, UploadCovers, UploadsCover
  <2>9. CASE d # m.c
    <3>1. ChainsClear(d)
      BY <2>2, <2>3, <2>9, ChainsStay
    <3>2. QED BY <2>2, <2>5, <2>7, <3>1, CoverStays
  <2>10. QED BY <2>8, <2>9
<1>8. CASE RetryList \/ LateLands
  BY <1>8, QuietCovers DEF RetryList, LateLands, dbVars, coordVars
<1>9. CASE Crash
  BY <1>9 DEF Crash, FlagsCovered, dbVars
<1>10. CASE UNCHANGED vars
  BY <1>10, QuietCovers DEF vars
<1>11. ASSUME NEW w \in PatchWorkers, PatchWork(w) \/ PatchDone(w) PROVE FlagsCovered'
  BY <1>0, <1>11, PatchCovers, PatchDoneCovers
<1>12. ASSUME NEW u \in UploadWorkers, UploadWork(u) \/ UploadDone(u) PROVE FlagsCovered'
  BY <1>0, <1>12, UploadWorkCovers, UploadDoneCovers
<1>13. CASE RetryQueue
  BY <1>0, <1>13, RetryCovers
<1>14. QED
  BY <1>1, <1>2, <1>3, <1>4, <1>5, <1>6, <1>7, <1>8, <1>9, <1>10, <1>11, <1>12, <1>13
  DEF Next, Operator

\* A refresh that will make its row pending has somebody behind it.
LEMMA MergesCoveredStep ==
    ASSUME TypeOK, TypeOK', IInv, CInv, [Next]_vars
    PROVE  MergesCovered'
<1>0. MergesCovered
  BY DEF CInv
<1>1. CASE merging' = {}
  BY <1>1 DEF MergesCovered
<1>2. ASSUME NEW c \in Contacts, ReadForRefresh(c) PROVE MergesCovered'
  <2>1. UNCHANGED db /\ ~db[c].dirty
    BY <1>2 DEF ReadForRefresh, dbVars
  <2>2. \A m \in merging' : m.c = c
    BY <1>2 DEF ReadForRefresh
  <2>3. QED BY <2>1, <2>2 DEF MergesCovered
<1>3. CASE merging' = merging /\ merging # {}
  <2>1. SUFFICES ASSUME NEW m \in merging, NEW d \in Contacts, m.c = d,
                        db'[d].dirty, owed'[d] = "no"
                 PROVE  UploadCovers(d)'
    BY <1>3 DEF MergesCovered, TypeOK, Merges
  <2>2. ASSUME db[d].dirty, owed[d] = "no", UploadsCover(d) PROVE UploadCovers(d)'
    BY <1>0, <2>1, <2>2 DEF MergesCovered, UploadCovers, UploadsCover
  <2>3. ASSUME UNCHANGED <<db, owed, up>> PROVE UploadCovers(d)'
    BY <2>1, <2>2, <2>3 DEF UploadsCover, CoversBy
  <2>4. ASSUME NEW w \in PatchWorkers, PatchWork(w) PROVE UploadCovers(d)'
    <3> DEFINE c == patch[w].c
    <3>1. /\ UNCHANGED up /\ c \in Contacts /\ db'[c].rev = db[c].rev
          /\ \A e \in Contacts \ {c} : db'[e] = db[e] /\ owed'[e] = owed[e]
      BY <2>4, PatchFrame, Fields
    <3>2. db[d].dirty
      <4>1. \/ UNCHANGED db \/ db' = [db EXCEPT ![c].dirty = FALSE]
            \/ db' = [db EXCEPT ![c].wid = 0]
        BY <2>4 DEF PatchWork, PatchRead, PatchApplied, PatchNotFound, PatchFails, PatchAck,
                    PatchUnlink, PatchClear
      <4>2. UNCHANGED db \/ db'[c].dirty = FALSE \/ db'[c].dirty = db[c].dirty
        BY <3>1, <4>1, SetWid, SetDirty
      <4>3. QED BY <2>1, <3>1, <4>2
    <3>3. owed[d] = "no"
      <4>1. UNCHANGED owed \/ owed' = [owed EXCEPT ![c] = "left"]
        BY <2>4 DEF PatchWork, PatchRead, PatchApplied, PatchNotFound, PatchFails, PatchAck,
               PatchUnlink, PatchClear
      <4>2. QED BY <2>1, <4>1 DEF TypeOK
    <3>4. UploadsCover(d)
      BY <3>1, Fields, CoversStay
    <3>5. QED BY <2>2, <3>2, <3>3, <3>4
  <2>5. ASSUME NEW u \in UploadWorkers, UploadWork(u) PROVE UploadCovers(d)'
    <3> DEFINE c == up[u].c
    <3>0. c \in Contacts /\ up[u].rev \in Nat /\ db[c].rev \in Nat /\ db[d].rev \in Nat
      BY Fields
    <3>1. CASE Check(u)
      <4>1. UNCHANGED db /\ up[u].st = "check"
        BY <3>1 DEF Check, UpStep
      <4>2. CASE UpEnds(u, "unresolved") /\ owed' = [owed EXCEPT ![c] = "told"]
        <5>1. d # c /\ owed[d] = "no"
          BY <2>1, <4>2 DEF TypeOK
        <5>2. UploadsCover(d)
          BY <4>1, <4>2, <5>1, UpEndsDoes DEF UploadsCover, CoversBy, OthersUp, SameJob
        <5>3. QED BY <2>1, <2>2, <4>1, <5>1, <5>2
      <4>3. CASE /\ UNCHANGED owed
                 /\ up' = [up EXCEPT ![u] = [@ EXCEPT !.st = "done", !.res = "ok",
                                              !.chg = db[c].rev > up[u].rev]]
        <5>1. ~UpEnds(u, "unresolved")
          <6>1. up'[u] = [up[u] EXCEPT !.st = "done", !.res = "ok", !.chg = db[c].rev > up[u].rev]
            BY <4>3 DEF TypeOK
          <6>2. up'[u].res = "ok"
            BY <6>1 DEF TypeOK, Uploads
          <6>3. QED BY <6>2, UpEndsDoes
        <5>2. /\ OthersUp(u) /\ SameJob(u) /\ up'[u].st = "done" /\ up'[u].res = "ok"
              /\ up'[u].chg = (db[c].rev > up[u].rev)
          BY <3>1, <5>1, CheckDoes
        <5>3. UploadsCover(d)
          BY <4>1, <5>2 DEF UploadsCover, CoversBy, OthersUp, SameJob
        <5>4. QED BY <2>1, <2>2, <4>1, <4>3, <5>3
      <4>4. QED BY <3>1, <4>2, <4>3 DEF Check
    <3>2. CASE ~Check(u)
      <4>0. \A v \in UploadWorkers : up[v].st \in {"check", "done"} => up'[v] = up[v]
        BY <2>5, <3>2, UploadsRest
      <4>a. ASSUME db'[d].rev >= db[d].rev, db[d].dirty, owed[d] = "no" PROVE UploadCovers(d)'
        BY <2>2, <4>0, <4>a, CoversStay
      <4>1. CASE WorkerEnrich(u)
        <5>1. /\ db[d].dirty /\ owed[d] = "no"
              /\ db'[d].rev = db[d].rev \/ db'[d].rev = db[d].rev + 1
          BY <2>1, <4>1, WorkerEnrichDoes
        <5>2. QED BY <3>0, <4>a, <5>1
      <4>2. CASE BlindAttach(u)
        <5>1. UNCHANGED owed /\ (UNCHANGED db \/ db' = [db EXCEPT ![c].wid = srv[c].id])
          BY <4>2 DEF BlindAttach
        <5>2. db'[d].dirty = db[d].dirty /\ db'[d].rev = db[d].rev
          BY <3>0, <5>1, SetWid DEF Keeps
        <5>3. QED BY <2>1, <3>0, <4>a, <5>1, <5>2
      <4>3. CASE Attach(u)
        <5>1. CASE UNCHANGED <<db, owed>>
          BY <2>1, <3>0, <4>a, <5>1
        <5>2. CASE Keeps(c) /\ UNCHANGED owed /\ db'[c].dirty = db[c].dirty
          <6>1. db'[d].dirty = db[d].dirty /\ db'[d].rev = db[d].rev
            BY <3>0, <5>2 DEF Keeps
          <6>2. QED BY <2>1, <3>0, <4>a, <5>2, <6>1
        <5>3. CASE /\ Keeps(c) /\ \A e \in Contacts \ {c} : owed'[e] = owed[e]
                   /\ db[c].rev > up[u].rev /\ up'[u].st = "check" /\ SameJob(u)
          <6>1. CASE d = c
            <7>1. up'[u].c = d /\ db'[d].rev > up'[u].rev
              BY <5>3, <6>1 DEF Keeps, SameJob
            <7>2. QED BY <5>3, <7>1 DEF UploadCovers, CoversBy
          <6>2. CASE d # c
            <7>1. db'[d] = db[d] /\ owed'[d] = owed[d]
              BY <5>3, <6>2 DEF Keeps
            <7>2. QED BY <2>1, <3>0, <4>a, <7>1
          <6>3. QED BY <6>1, <6>2
        <5>4. QED BY <4>3, <5>1, <5>2, <5>3, AttachDoes
      <4>4. CASE ~WorkerEnrich(u) /\ ~BlindAttach(u) /\ ~Attach(u)
        <5>1. UNCHANGED <<db, owed>>
          BY <2>5, <3>2, <4>4 DEF UploadWork, WorkerLoad, Match, Created, Duplicate, PostFails,
                                  Lookup
        <5>2. QED BY <2>1, <3>0, <4>a, <5>1
      <4>5. QED BY <4>1, <4>2, <4>3, <4>4
    <3>3. QED BY <3>1, <3>2
  <2>6. ASSUME NEW c \in Contacts, DownloadWrite(c) PROVE UploadCovers(d)'
    <3>1. UNCHANGED <<owed, up>> /\ d \in logged
      BY <2>1, <2>6 DEF DownloadWrite, IInv, MergesKnow
    <3>2. db'[d].dirty = db[d].dirty /\ db'[d].rev = db[d].rev
      <4>1. CASE c \in logged
        BY <2>6, <4>1, SetWid DEF DownloadWrite, Keeps
      <4>2. CASE c \notin logged
        BY <2>6, <3>1, <4>2 DEF DownloadWrite, TypeOK
      <4>3. QED BY <4>1, <4>2
    <3>3. UploadsCover(d)
      BY <3>1, <3>2 DEF UploadsCover, CoversBy
    <3>4. QED BY <2>1, <2>2, <3>1, <3>2, <3>3
  <2>7. ASSUME NEW c \in Contacts,
               \/ Operator(c) \/ DownloadRead(c) \/ RemoteWork(c)
               \/ \E u \in UploadWorkers : StartBatch(u, c)
        PROVE  UNCHANGED <<db, owed, up>>
    BY <1>3, <2>7 DEF Operator, LogQSO, Save, Enrich, ReadForRefresh, LoopFree, DownloadRead,
                      RemoteWork, StartBatch, dbVars
  <2>8. ASSUME \/ \E w \in PatchWorkers : PatchDone(w)
               \/ \E u \in UploadWorkers : UploadDone(u)
               \/ RetryQueue \/ RetryList \/ LateLands \/ UNCHANGED vars
        PROVE  UNCHANGED <<db, owed, up>>
    BY <1>3, <2>8 DEF PatchDone, UploadDone, RetryQueue, LoopFree, RetryList, LateLands, vars, dbVars
  <2>9. ASSUME WriteRefresh \/ Crash PROVE merging' = {}
    BY <2>9 DEF WriteRefresh, Crash
  <2>10. QED BY <1>3, <2>3, <2>4, <2>5, <2>6, <2>7, <2>8, <2>9 DEF Next
<1>4. QED BY <1>1, <1>2, <1>3, MergingStep


\* Only a chain that found no copy unlinks a row.
LEMMA LinksStay ==
    ASSUME TypeOK, IInv, AttachesId, [Next]_vars, ~ \E w \in PatchWorkers : PatchUnlink(w)
    PROVE  \A c \in Contacts : Linked(c) => db'[c].wid # 0
<1> DEFINE Stay == \A c \in Contacts : Linked(c) => db'[c].wid # 0
<1>1. ASSUME UNCHANGED db PROVE Stay
  BY <1>1 DEF Linked
<1>2. ASSUME NEW c \in Contacts, NEW body \in Body, db' = [db EXCEPT ![c] = Edited(@, body)]
      PROVE  Stay
  <2>1. db'[c].wid = db[c].wid /\ \A d \in Contacts \ {c} : db'[d] = db[d]
    BY <1>2, EditedFields
  <2>2. QED BY <2>1 DEF Linked
<1>3. ASSUME NEW c \in Contacts, Save(c) PROVE Stay
  <2>1. PICK enr \in {db[c].body.enr, FALSE} :
          db' = [db EXCEPT ![c] = Edited(@, [txt |-> fresh + 1, enr |-> enr])]
    BY <1>3 DEF Save
  <2>2. fresh + 1 \in Texts
    BY <1>3, SyncAssumption DEF Save, TypeOK, Texts, SyncAssumption
  <2>3. [txt |-> fresh + 1, enr |-> enr] \in Body
    BY <2>2, Fields DEF Body
  <2>4. QED BY <1>2, <2>1, <2>3
<1>4. ASSUME NEW c \in Contacts, Enrich(c) PROVE Stay
  <2>1. [db[c].body EXCEPT !.enr = TRUE] \in Body
    BY Fields DEF Body
  <2>2. db' = [db EXCEPT ![c] = Edited(@, [db[c].body EXCEPT !.enr = TRUE])]
    BY <1>4 DEF Enrich, TypeOK
  <2>3. QED BY <1>2, <2>1, <2>2
<1>5. ASSUME NEW u \in UploadWorkers, UploadWork(u) PROVE Stay
  <2> DEFINE c == up[u].c
  <2>0. c \in Contacts /\ up[u].rev \in Nat
    BY Fields
  <2>1. CASE WorkerEnrich(u)
    <3>1. [db[c].body EXCEPT !.enr = TRUE] \in Body
      BY <2>0, Fields DEF Body
    <3>2. QED BY <1>1, <1>2, <2>0, <2>1, <3>1 DEF WorkerEnrich, TypeOK
  <2>2. CASE BlindAttach(u)
    <3>1. CASE UNCHANGED db
      BY <1>1, <3>1
    <3>2. CASE ~UNCHANGED db
      <4>1. db' = [db EXCEPT ![c].wid = srv[c].id] /\ srv[c].id # 0
        BY <2>2, <3>2 DEF BlindAttach
      <4>2. db'[c].wid # 0 /\ \A d \in Contacts \ {c} : db'[d] = db[d]
        BY <2>0, <4>1, SetWid DEF Keeps
      <4>3. QED BY <4>2 DEF Linked
    <3>3. QED BY <3>1, <3>2
  <2>3. CASE Attach(u)
    <3>1. up[u].rid # 0
      BY <2>3 DEF Attach, UpStep, AttachesId
    <3>2. \/ UNCHANGED db
          \/ db'[c].wid = up[u].rid /\ \A d \in Contacts \ {c} : db'[d] = db[d]
      BY <2>3, AttachDoes DEF Keeps
    <3>3. QED BY <1>1, <3>1, <3>2 DEF Linked
  <2>4. CASE ~WorkerEnrich(u) /\ ~BlindAttach(u) /\ ~Attach(u)
    BY <1>1, <1>5, <2>4 DEF UploadWork, WorkerLoad, Match, Created, Duplicate, PostFails, Lookup,
                            Check
  <2>5. QED BY <2>1, <2>2, <2>3, <2>4
<1>6. ASSUME NEW w \in PatchWorkers, PatchWork(w) PROVE Stay
  <2>1. patch[w].c \in Contacts
    BY Fields
  <2>2. UNCHANGED db \/ db' = [db EXCEPT ![patch[w].c].dirty = FALSE]
    BY <1>6 DEF PatchWork, PatchRead, PatchApplied, PatchNotFound, PatchFails, PatchAck, PatchClear
  <2>3. QED BY <1>1, <2>1, <2>2, SetDirty DEF Keeps, Linked
<1>7. ASSUME NEW c \in Contacts, DownloadWrite(c) PROVE Stay
  <2>1. CASE c \in logged
    <3>1. Keeps(c) /\ db'[c].wid = page[c].id /\ page[c].id # 0
      BY <1>7, <2>1, SetWid DEF DownloadWrite
    <3>2. QED BY <3>1 DEF Keeps, Linked
  <2>2. CASE c \notin logged
    <3>1. \A d \in Contacts \ {c} : db'[d] = db[d]
      BY <1>7, <2>2 DEF DownloadWrite, TypeOK
    <3>2. ~Linked(c)
      BY <2>2 DEF IInv, NoRowYet
    <3>3. QED BY <3>1, <3>2 DEF Linked
  <2>3. QED BY <2>1, <2>2
<1>8. CASE WriteRefresh
  <2>1. PICK m \in merging :
          db' = [db EXCEPT ![m.c] = [@ EXCEPT !.body = m.body, !.rev = db[m.c].rev + 1]]
    BY <1>8 DEF WriteRefresh
  <2>2. m.c \in Contacts
    BY DEF TypeOK, Merges
  <2>3. db'[m.c].wid = db[m.c].wid /\ \A d \in Contacts \ {m.c} : db'[d] = db[d]
    BY <2>1, <2>2, SetMerged
  <2>4. QED BY <2>3 DEF Linked
<1>9. ASSUME NEW c \in Contacts,
             LogQSO(c) \/ ReadForRefresh(c) \/ DownloadRead(c) \/ RemoteWork(c)
             \/ \E u \in UploadWorkers : StartBatch(u, c)
      PROVE  UNCHANGED db
  BY <1>9 DEF LogQSO, ReadForRefresh, DownloadRead, RemoteWork, StartBatch, dbVars
<1>10. ASSUME \/ \E w \in PatchWorkers : PatchDone(w)
              \/ \E u \in UploadWorkers : UploadDone(u)
              \/ RetryList \/ RetryQueue \/ LateLands \/ Crash \/ UNCHANGED vars
       PROVE  UNCHANGED db
  BY <1>10 DEF PatchDone, UploadDone, RetryList, RetryQueue, LateLands, Crash, vars, dbVars
<1>11. QED
  BY <1>1, <1>3, <1>4, <1>5, <1>6, <1>7, <1>8, <1>9, <1>10 DEF Next, Operator

\* One chain's part of ChainsLinked.
ChainLinked(w) ==
    patch[w].st \in {"wire", "ack", "gone"} \/ (patch[w].st = "read" /\ patch[w].ack # NoRev)
    => Linked(patch[w].c)

\* The chains that do not move, and the new ones.
LEMMA ChainsLinkedKept ==
    ASSUME TypeOK, ChainsLinked, \A c \in Contacts : Linked(c) => db'[c].wid # 0,
           \A w \in PatchWorkers :
               \/ patch'[w] = patch[w]
               \/ patch'[w] = IdlePatch
               \/ \E c \in Contacts, ack \in Nat \cup {NoRev} :
                     patch'[w] = Chain(c, ack) /\ (ack # NoRev => Linked(c))
    PROVE  ChainsLinked'
<1>1. SUFFICES ASSUME NEW w \in PatchWorkers PROVE ChainLinked(w)'
  BY DEF ChainsLinked, ChainLinked
<1>2. CASE patch'[w] = patch[w]
  <2>1. patch[w].c \in Contacts
    BY Fields
  <2>2. QED BY <1>2, <2>1 DEF ChainsLinked, ChainLinked, Linked
<1>3. CASE patch'[w] = IdlePatch
  BY <1>3 DEF IdlePatch, ChainLinked
<1>4. ASSUME NEW c \in Contacts, NEW ack \in Nat \cup {NoRev}, patch'[w] = Chain(c, ack),
             ack # NoRev => Linked(c)
      PROVE  ChainLinked(w)'
  <2>1. patch'[w].st = "read" /\ patch'[w].ack = ack /\ patch'[w].c = c
    BY <1>4 DEF Chain, IdlePatch
  <2>2. QED BY <1>4, <2>1 DEF ChainLinked, Linked
<1>5. QED BY <1>2, <1>3, <1>4

\* A push by the coordinator starts a chain of a linked row.
LEMMA PushLinked ==
    ASSUME TypeOK, ChainsLinked, \A c \in Contacts : Linked(c) => db'[c].wid # 0,
           NEW c \in Contacts, NEW ack \in Nat \cup {NoRev}, PushOrQueue(c, ack),
           ack # NoRev => Linked(c)
    PROVE  ChainsLinked'
<1>1. \A w \in PatchWorkers : patch'[w] = patch[w] \/ patch'[w] = Chain(c, ack)
  BY DEF PushOrQueue, TypeOK
<1>2. QED BY <1>1, ChainsLinkedKept

\* A chain under way is of a linked row, or of one that lost its copy.
LEMMA ChainsLinkedStep ==
    ASSUME TypeOK, IInv, OneChainPerContact, CInv, [Next]_vars
    PROVE  ChainsLinked'
<1>0. ChainsLinked /\ AttachesId
  BY DEF CInv
<1>1. CASE \E w \in PatchWorkers : PatchUnlink(w)
  <2>1. PICK w \in PatchWorkers : PatchUnlink(w)
    BY <1>1
  <2> DEFINE c == patch[w].c
  <2>2. c \in Contacts /\ patch[w].st = "gone"
    BY <2>1, Fields DEF PatchUnlink, PatchStep
  <2>3. \/ PatchGoes(w, "clear") /\ db' = [db EXCEPT ![c].wid = 0]
        \/ PatchEnds(w, "err") /\ UNCHANGED db
    BY <2>1 DEF PatchUnlink
  <2>4. OthersPatch(w) /\ patch'[w].st \in {"clear", "done"}
    BY <2>3, PatchGoesDoes, PatchEndsDoes
  <2>5. \A d \in Contacts \ {c} : db'[d] = db[d]
    BY <2>2, <2>3, SetWid DEF Keeps
  <2>6. SUFFICES ASSUME NEW v \in PatchWorkers PROVE ChainLinked(v)'
    BY DEF ChainsLinked, ChainLinked
  <2>7. CASE v = w
    BY <2>4, <2>7 DEF ChainLinked
  <2>8. CASE v # w
    <3>1. patch'[v] = patch[v]
      BY <2>4, <2>8 DEF OthersPatch
    <3>2. patch[v].st = "idle" \/ patch[v].c # c
      BY <2>2, <2>8 DEF OneChainPerContact
    <3>3. patch[v].c \in Contacts
      BY Fields
    <3>4. QED BY <1>0, <2>5, <3>1, <3>2, <3>3 DEF ChainLinked, ChainsLinked, Linked
  <2>9. QED BY <2>7, <2>8
<1>2. CASE ~ \E w \in PatchWorkers : PatchUnlink(w)
  <2>0. \A c \in Contacts : Linked(c) => db'[c].wid # 0
    BY <1>0, <1>2, LinksStay
  <2>1. ASSUME UNCHANGED patch PROVE ChainsLinked'
    BY <1>0, <2>0, <2>1, ChainsLinkedKept
  <2>2. ASSUME NEW c \in Contacts, Save(c) PROVE ChainsLinked'
    <3>1. db[c].rev + 1 \in Nat \cup {NoRev}
      BY Fields
    <3>2. UNCHANGED patch \/ (Linked(c) /\ PushOrQueue(c, db[c].rev + 1))
      BY <2>2 DEF Save, PushEdit, coordVars
    <3>3. QED BY <1>0, <2>0, <2>1, <3>1, <3>2, PushLinked
  <2>3. ASSUME NEW c \in Contacts, PushOrQueue(c, NoRev) PROVE ChainsLinked'
    BY <1>0, <2>0, <2>3, PushLinked
  <2>4. ASSUME NEW c \in Contacts, Enrich(c) PROVE ChainsLinked'
    BY <2>1, <2>3, <2>4 DEF Enrich, PushEdit, coordVars
  <2>5. ASSUME NEW u \in UploadWorkers, UploadDone(u) PROVE ChainsLinked'
    <3>1. up[u].c \in Contacts
      BY Fields
    <3>2. QED BY <2>1, <2>3, <2>5, <3>1 DEF UploadDone, coordVars
  <2>6. ASSUME NEW w \in PatchWorkers, PatchDone(w) PROVE ChainsLinked'
    <3>1. patch[w].c \in Contacts
      BY Fields
    <3>2. \A v \in PatchWorkers : \/ patch'[v] = patch[v] \/ patch'[v] = IdlePatch
                                  \/ patch'[v] = Chain(patch[w].c, NoRev)
      BY <2>6 DEF PatchDone, TypeOK
    <3>3. QED BY <1>0, <2>0, <3>1, <3>2, ChainsLinkedKept
  <2>7. CASE RetryQueue
    <3>1. PICK run : patch' = [w \in PatchWorkers |->
                            IF \E c \in listed \ inFlight : run[c] = w
                            THEN Chain(CHOOSE c \in listed \ inFlight : run[c] = w, NoRev)
                            ELSE patch[w]]
      BY <2>7 DEF RetryQueue
    <3>2. \A v \in PatchWorkers : \/ patch'[v] = patch[v]
                                  \/ \E c \in Contacts : patch'[v] = Chain(c, NoRev)
      BY <3>1 DEF TypeOK
    <3>3. QED BY <1>0, <2>0, <3>2, ChainsLinkedKept
  <2>8. CASE Crash
    BY <1>0, <2>0, <2>8, ChainsLinkedKept DEF Crash
  <2>9. ASSUME NEW w \in PatchWorkers, PatchWork(w) PROVE ChainsLinked'
    <3>1. SUFFICES ASSUME NEW v \in PatchWorkers PROVE ChainLinked(v)'
      BY DEF ChainsLinked, ChainLinked
    <3>2. CASE v # w
      <4>1. patch'[v] = patch[v] /\ patch[v].c \in Contacts
        BY <2>9, <3>2, PatchMove, Fields DEF OthersPatch
      <4>2. QED BY <1>0, <2>0, <4>1 DEF ChainLinked, ChainsLinked, Linked
    <3>3. CASE v = w
      <4>1. patch[w].c \in Contacts /\ patch'[w].c = patch[w].c
        BY <2>9, PatchMove, Fields
      <4>2. patch'[w].st \in {"wire", "ack", "gone"} => Linked(patch[w].c)
        <5>1. CASE PatchRead(w)
          BY <5>1, PatchReadDoes
        <5>2. CASE patch[w].st \in {"wire", "gone"}
          BY <1>0, <5>2 DEF ChainsLinked
        <5>3. CASE PatchAck(w) \/ PatchClear(w)
          <6>1. \E res \in {"ok", "incomplete", "gone"} : PatchEnds(w, res)
            BY <5>3 DEF PatchAck, PatchClear
          <6>2. QED BY <6>1, PatchEndsDoes
        <5>4. QED BY <2>9, <5>1, <5>2, <5>3 DEF PatchWork, PatchApplied, PatchNotFound,
                                                PatchFails, PatchUnlink, PatchStep
      <4>3. patch'[w].st # "read"
        BY <2>9, PatchMove
      <4>4. QED BY <2>0, <3>3, <4>1, <4>2, <4>3 DEF ChainLinked, Linked
    <3>4. QED BY <3>2, <3>3
  <2>10. ASSUME NEW c \in Contacts,
                \/ LogQSO(c) \/ ReadForRefresh(c)
                \/ DownloadRead(c) \/ DownloadWrite(c) \/ RemoteWork(c)
                \/ \E u \in UploadWorkers : StartBatch(u, c)
         PROVE  UNCHANGED patch
    BY <2>10 DEF LogQSO, ReadForRefresh, DownloadRead, DownloadWrite, RemoteWork, StartBatch,
                 OnlyUp, coordVars
  <2>11. ASSUME NEW u \in UploadWorkers, UploadWork(u) PROVE UNCHANGED patch
    BY <2>11 DEF UploadWork, OnlyUp, coordVars, WorkerEnrich, WorkerLoad, Match, Created,
                 Duplicate, PostFails, BlindAttach, Lookup, Attach, Check
  <2>12. CASE WriteRefresh \/ RetryList \/ LateLands \/ UNCHANGED vars
    BY <2>1, <2>12 DEF WriteRefresh, RetryList, LateLands, vars, coordVars
  <2>13. QED
    BY <2>1, <2>2, <2>4, <2>5, <2>6, <2>7, <2>8, <2>9, <2>10, <2>11, <2>12 DEF Next, Operator
<1>3. QED BY <1>1, <1>2

\* Only an upload worker's own step makes it attach an id.
LEMMA OnlyWorkAttaches ==
    ASSUME TypeOK, [Next]_vars, ~ \E u \in UploadWorkers : UploadWork(u),
           NEW v \in UploadWorkers, up'[v].st = "attach"
    PROVE  up'[v] = up[v]
<1>1. ASSUME NEW c \in Contacts, NEW kind, NEW st, st # "attach", NEW u \in UploadWorkers,
             up' = [up EXCEPT ![u] = NewUpload(c, kind, st)]
      PROVE  up'[v] = up[v]
  <2>1. NewUpload(c, kind, st).st = st
    BY DEF NewUpload, IdleUp
  <2>2. up'[v] = up[v] \/ up'[v] = NewUpload(c, kind, st)
    BY <1>1 DEF TypeOK
  <2>3. QED BY <1>1, <2>1, <2>2
<1>2. ASSUME NEW c \in Contacts, LogQSO(c) PROVE up'[v] = up[v]
  <2>1. CASE UNCHANGED up
    BY <2>1
  <2>2. CASE ~UNCHANGED up
    <3>1. PICK u \in UploadWorkers, kind \in {"auto", "wsjtx"} :
            up' = [up EXCEPT ![u] =
                     NewUpload(c, kind, IF kind = "auto" THEN "post" ELSE "enrich")]
      BY <1>2, <2>2 DEF LogQSO
    <3>2. (IF kind = "auto" THEN "post" ELSE "enrich") # "attach"
      OBVIOUS
    <3>3. QED BY <1>1, <3>1, <3>2
  <2>3. QED BY <2>1, <2>2
<1>3. ASSUME NEW u \in UploadWorkers, NEW c \in Contacts, StartBatch(u, c) PROVE up'[v] = up[v]
  <2>1. PICK st \in {"bulk", "match"} : up' = [up EXCEPT ![u] = NewUpload(c, "batch", st)]
    BY <1>3 DEF StartBatch
  <2>2. QED BY <1>1, <2>1
<1>4. ASSUME NEW u \in UploadWorkers, UploadDone(u) PROVE up'[v] = up[v]
  <2>1. CASE up' = [up EXCEPT ![u] = IdleUp]
    BY <2>1 DEF TypeOK, IdleUp
  <2>2. CASE up' = [up EXCEPT ![u] = [@ EXCEPT !.st = "lookup", !.retried = TRUE, !.res = "none"]]
    <3>1. up'[u].st = "lookup"
      <4>1. up'[u] = [up[u] EXCEPT !.st = "lookup", !.retried = TRUE, !.res = "none"]
        BY <2>2 DEF TypeOK
      <4>2. QED BY <4>1 DEF TypeOK, Uploads
    <3>2. QED BY <2>2, <3>1 DEF TypeOK
  <2>3. QED BY <1>4, <2>1, <2>2 DEF UploadDone
<1>5. CASE Crash
  BY <1>5 DEF Crash, IdleUp
<1>6. ASSUME NEW c \in Contacts,
             \/ Save(c) \/ Enrich(c) \/ ReadForRefresh(c)
             \/ DownloadRead(c) \/ DownloadWrite(c) \/ RemoteWork(c)
      PROVE  UNCHANGED up
  BY <1>6 DEF Save, Enrich, ReadForRefresh, DownloadRead, DownloadWrite, RemoteWork
<1>7. ASSUME NEW w \in PatchWorkers, PatchWork(w) \/ PatchDone(w) PROVE UNCHANGED up
  BY <1>7 DEF PatchWork, PatchRead, PatchApplied, PatchNotFound, PatchFails, PatchAck,
               PatchUnlink, PatchClear, PatchDone, OnlyPatch
<1>8. CASE WriteRefresh \/ RetryList \/ RetryQueue \/ LateLands \/ UNCHANGED vars
  BY <1>8 DEF WriteRefresh, RetryList, RetryQueue, LateLands, vars
<1>9. QED BY <1>2, <1>3, <1>4, <1>5, <1>6, <1>7, <1>8 DEF Next, Operator

\* A worker attaches only an id it has found.
LEMMA AttachesIdStep ==
    ASSUME TypeOK, AttachesId, [Next]_vars
    PROVE  AttachesId'
<1>1. SUFFICES ASSUME NEW v \in UploadWorkers, up'[v].st = "attach" PROVE up'[v].rid # 0
  BY DEF AttachesId
<1>2. ASSUME up'[v] = up[v] PROVE up'[v].rid # 0
  BY <1>1, <1>2 DEF AttachesId
<1>3. ASSUME NEW u \in UploadWorkers, UploadWork(u) PROVE up'[v].rid # 0
  <2>1. CASE v # u
    BY <1>2, <1>3, <2>1, UploadMove DEF OthersUp
  <2>2. CASE v = u
    <3>0. up[u].c \in Contacts /\ made[up[u].c] \in Nat
      BY Fields, SyncAssumption DEF TypeOK, Ids, SyncAssumption
    <3>1. CASE Created(u)
      BY <1>1, <2>2, <3>0, <3>1, CreatedDoes
    <3>2. CASE Match(u) \/ Lookup(u)
      <4>1. \/ srv[up[u].c].id # 0 /\ UpFinds(u, srv[up[u].c].id)
            \/ UpGoes(u, "bulk") \/ UpEnds(u, "unresolved")
        BY <3>2 DEF Match, Lookup
      <4>2. QED BY <1>1, <2>2, <4>1, UpFindsDoes, UpGoesDoes, UpEndsDoes
    <3>3. CASE Check(u) \/ WorkerLoad(u)
      BY <1>1, <2>2, <3>3, CheckDoes, LoadDoes
    <3>4. CASE ~Created(u) /\ ~Match(u) /\ ~Lookup(u) /\ ~Check(u) /\ ~WorkerLoad(u)
      <4>1. \/ \E st \in {"load", "lookup", "blind", "post", "import", "check"} : UpGoes(u, st)
            \/ \E res \in {"fail", "unresolved"} : UpEnds(u, res)
        BY <1>3, <3>4 DEF UploadWork, WorkerEnrich, Duplicate, PostFails, BlindAttach, Attach
      <4>2. QED BY <1>1, <2>2, <4>1, UpGoesDoes, UpEndsDoes
    <3>5. QED BY <3>1, <3>2, <3>3, <3>4
  <2>3. QED BY <2>1, <2>2
<1>4. CASE ~ \E u \in UploadWorkers : UploadWork(u)
  BY <1>1, <1>2, <1>4, OnlyWorkAttaches
<1>5. QED BY <1>3, <1>4

\* Every pending row has somebody behind it.
LEMMA Coverage == Spec => []CInv
<1>1. Init => CInv
  BY DEF Init, CInv, FlagsCovered, MergesCovered, ChainsLinked, AttachesId, IdleUp, IdlePatch
<1>2. TypeOK /\ TypeOK' /\ IInv /\ OneChainPerContact /\ CInv /\ [Next]_vars => CInv'
  <2> SUFFICES ASSUME TypeOK, TypeOK', IInv, OneChainPerContact, CInv, [Next]_vars PROVE CInv'
    OBVIOUS
  <2>1. FlagsCovered' /\ MergesCovered' /\ ChainsLinked'
    BY FlagsCoveredStep, MergesCoveredStep, ChainsLinkedStep
  <2>2. AttachesId'
    BY AttachesIdStep DEF CInv
  <2>3. QED BY <2>1, <2>2 DEF CInv
<1>3. QED BY <1>1, <1>2, TypeCorrect, OneChain, Knowledge, PTL DEF Spec

\* A pending edit always has somebody to push it, unless the operator was told or
\* one of the three gaps has swallowed it.
THEOREM PendingHasOwner == Spec => []PendingIsCovered
<1>1. CInv /\ OneChainPerContact => PendingIsCovered
  <2> SUFFICES ASSUME CInv, OneChainPerContact, NEW c \in Pending, owed[c] = "no",
                      c \notin inFlight
               PROVE  UploadCovers(c)
    BY DEF PendingIsCovered, UploadCovers, CoversBy
  <2>1. Covered(c)
    BY DEF CInv, FlagsCovered, Pending
  <2>2. c \notin queued
    BY DEF OneChainPerContact
  <2>3. ~ \E w \in PatchWorkers : Clears(w, c)
    BY DEF OneChainPerContact, Clears
  <2>4. QED BY <2>1, <2>2, <2>3 DEF Covered
<1>2. QED BY <1>1, Coverage, OneChain, PTL

-----------------------------------------------------------------------------
(* The order in which the server takes the edits.                          *)

\* Every id in use has been handed out.
IdsHandedOut ==
    /\ \A c \in Contacts : srv[c].id <= made[c] /\ db[c].wid <= made[c] /\ page[c].id <= made[c]
    /\ \A u \in UploadWorkers : up[u].st = "attach" => up[u].rid <= made[up[u].c]
    /\ \A w \in PatchWorkers : patch[w].st = "wire" => patch[w].wid <= made[patch[w].c]

\* No revision under way, or taken by the server, is ahead of its row.
NoneAhead ==
    /\ \A c \in Contacts : srv[c].rev <= db[c].rev
    /\ \A m \in late : m.rev <= db[m.c].rev

\* A PATCH on the wire carries the newest revision of its copy.
WireIsNewest(w) ==
    LET p == patch[w] IN
    /\ srv[p.c].id = p.wid => srv[p.c].rev <= p.rev
    /\ \A m \in late : m.c = p.c => m.rev <= p.rev
WiresNewest == \A w \in PatchWorkers : patch[w].st = "wire" => WireIsNewest(w)

OInv == IdsHandedOut /\ NoneAhead /\ WiresNewest /\ (May("late") \/ late = {})

\* A PATCH worker's exchange with the server, and a request that lands late.
TakesPush(w, c) ==
    /\ PatchApplied(w) /\ patch[w].c = c
    /\ srv[c].id = patch[w].wid /\ srv'[c].id = srv[c].id /\ srv'[c].rev = patch[w].rev
TakesLate(m, c) ==
    /\ LateLands /\ m.c = c
    /\ srv'[c].id = srv[c].id /\ srv'[c].rev = m.rev

\* What a step does to the copy of a contact.
CopyMoves(c) ==
    \/ srv'[c].id = srv[c].id /\ srv'[c].rev = srv[c].rev /\ made'[c] = made[c]
    \/ srv'[c].id = 0 /\ srv'[c].rev = 0 /\ made'[c] = made[c]
    \/ /\ srv[c].id = 0 /\ made'[c] = made[c] + 1 /\ srv'[c].id = made'[c]
       /\ srv'[c].rev <= db[c].rev
    \/ made'[c] = made[c] /\ \E w \in PatchWorkers : TakesPush(w, c)
    \/ made'[c] = made[c] /\ \E m \in late : TakesLate(m, c)

\* A new copy.
LEMMA CopyIsNew ==
    ASSUME TypeOK, NEW c \in Contacts, NEW body \in Body, NEW rev \in Nat,
           CreateCopy(c, body, rev), rev <= db[c].rev
    PROVE  \A d \in Contacts : CopyMoves(d)
<1>1. made[c] \in Nat /\ made[c] + 1 \in Ids
  BY SyncAssumption DEF TypeOK, CreateCopy, Ids, SyncAssumption
<1>2. made' = [made EXCEPT ![c] = @ + 1] /\ srv[c].id = 0
      /\ srv' = [srv EXCEPT ![c] = [id |-> made[c] + 1, body |-> body, rev |-> rev]]
  BY DEF CreateCopy, ServerHolds
<1>3. made'[c] = made[c] + 1 /\ srv'[c].id = made[c] + 1 /\ srv'[c].rev = rev
  BY <1>1, <1>2 DEF TypeOK
<1>4. \A d \in Contacts \ {c} : srv'[d] = srv[d] /\ made'[d] = made[d]
  BY <1>2 DEF TypeOK
<1>5. QED BY <1>2, <1>3, <1>4 DEF CopyMoves

\* Every step moves a copy in one of these ways.
LEMMA CopyStep ==
    ASSUME TypeOK, IInv, [Next]_vars
    PROVE  \A d \in Contacts : CopyMoves(d)
<1>0. ASSUME UNCHANGED <<srv, made>> PROVE \A d \in Contacts : CopyMoves(d)
  BY <1>0 DEF CopyMoves
<1>1. ASSUME NEW c \in Contacts, Operator(c) \/ DownloadRead(c) \/ DownloadWrite(c)
      PROVE  \A d \in Contacts : CopyMoves(d)
  BY <1>0, <1>1 DEF Operator, LogQSO, Save, Enrich, ReadForRefresh, DownloadRead, DownloadWrite,
                    srvVars
<1>2. ASSUME NEW c \in Contacts, RemoteWork(c) PROVE \A d \in Contacts : CopyMoves(d)
  <2>1. CASE fresh < MaxText /\ CreateCopy(c, [txt |-> fresh + 1, enr |-> FALSE], 0)
    <3>1. fresh + 1 \in Texts
      BY <2>1, SyncAssumption DEF TypeOK, Texts, SyncAssumption
    <3>2. [txt |-> fresh + 1, enr |-> FALSE] \in Body
      BY <3>1 DEF Body
    <3>3. 0 <= db[c].rev
      BY DEF TypeOK, Rows
    <3>4. QED BY <2>1, <3>2, <3>3, CopyIsNew
  <2>2. CASE /\ fresh < MaxText /\ srv[c].id # 0 /\ UNCHANGED made
             /\ ServerHolds(c, srv[c].id, [srv[c].body EXCEPT !.txt = fresh + 1], srv[c].rev)
    <3>1. /\ srv'[c].id = srv[c].id /\ srv'[c].rev = srv[c].rev
          /\ \A d \in Contacts \ {c} : srv'[d] = srv[d]
      BY <2>2 DEF ServerHolds, TypeOK
    <3>2. QED BY <2>2, <3>1 DEF CopyMoves
  <2>3. CASE /\ srv' = [srv EXCEPT ![c] = [id |-> 0, body |-> Blank, rev |-> 0]]
             /\ UNCHANGED made
    <3>1. /\ srv'[c].id = 0 /\ srv'[c].rev = 0
          /\ \A d \in Contacts \ {c} : srv'[d] = srv[d]
      BY <2>3 DEF TypeOK
    <3>2. QED BY <2>3, <3>1 DEF CopyMoves
  <2>4. QED BY <1>2, <2>1, <2>2, <2>3 DEF RemoteWork
<1>3. ASSUME NEW u \in UploadWorkers, NEW c \in Contacts, StartBatch(u, c)
      PROVE  \A d \in Contacts : CopyMoves(d)
  BY <1>0, <1>3 DEF StartBatch, srvVars
<1>4. ASSUME NEW w \in PatchWorkers, PatchWork(w) PROVE \A d \in Contacts : CopyMoves(d)
  <2>1. CASE PatchApplied(w)
    <3> DEFINE c == patch[w].c
    <3>1. c \in Contacts /\ UNCHANGED made /\ srv[c].id = patch[w].wid
          /\ ServerHolds(c, patch[w].wid, patch[w].body, patch[w].rev)
      BY <2>1, Fields DEF PatchApplied
    <3>2. /\ srv'[c].id = srv[c].id /\ srv'[c].rev = patch[w].rev
          /\ \A d \in Contacts \ {c} : srv'[d] = srv[d]
      BY <3>1 DEF ServerHolds, TypeOK
    <3>3. TakesPush(w, c)
      BY <2>1, <3>1, <3>2 DEF TakesPush
    <3>4. QED BY <3>1, <3>2, <3>3 DEF CopyMoves
  <2>2. CASE ~PatchApplied(w)
    BY <1>0, <1>4, <2>2 DEF PatchWork, PatchRead, PatchNotFound, PatchFails, PatchAck, PatchUnlink,
                            PatchClear, srvVars
  <2>3. QED BY <2>1, <2>2
<1>5. ASSUME NEW w \in PatchWorkers, PatchDone(w) PROVE \A d \in Contacts : CopyMoves(d)
  BY <1>0, <1>5 DEF PatchDone, srvVars
<1>6. ASSUME NEW u \in UploadWorkers, UploadWork(u) PROVE \A d \in Contacts : CopyMoves(d)
  <2>1. CASE Created(u)
    <3>1. CreateCopy(up[u].c, up[u].body, up[u].rev) /\ up[u].st # "idle"
      BY <2>1 DEF Created
    <3>2. up[u].c \in Contacts /\ up[u].body \in Body /\ up[u].rev \in Nat
      BY Fields
    <3>3. up[u].rev <= db[up[u].c].rev
      BY <3>1 DEF IInv, UploadsKnow, Snapshot
    <3>4. QED BY <3>1, <3>2, <3>3, CopyIsNew
  <2>2. CASE ~Created(u)
    BY <1>0, <1>6, <2>2 DEF UploadWork, WorkerEnrich, WorkerLoad, Match, Duplicate, PostFails,
                            BlindAttach, Lookup, Attach, Check, srvVars
  <2>3. QED BY <2>1, <2>2
<1>7. ASSUME NEW u \in UploadWorkers, UploadDone(u) PROVE \A d \in Contacts : CopyMoves(d)
  BY <1>0, <1>7 DEF UploadDone, srvVars
<1>8. CASE LateLands
  <2>1. PICK m \in late :
          IF srv[m.c].id = m.wid THEN ServerHolds(m.c, m.wid, m.body, m.rev)
                                 ELSE UNCHANGED <<srv, seen>>
    BY <1>8 DEF LateLands
  <2>2. m.c \in Contacts /\ UNCHANGED made
    BY <1>8 DEF TypeOK, Lates, LateLands
  <2>3. CASE srv[m.c].id = m.wid
    <3>1. /\ srv'[m.c].id = srv[m.c].id /\ srv'[m.c].rev = m.rev
          /\ \A d \in Contacts \ {m.c} : srv'[d] = srv[d]
      BY <2>1, <2>2, <2>3 DEF ServerHolds, TypeOK
    <3>2. TakesLate(m, m.c)
      BY <1>8, <3>1 DEF TakesLate
    <3>3. QED BY <2>2, <3>1, <3>2 DEF CopyMoves
  <2>4. CASE srv[m.c].id # m.wid
    BY <1>0, <2>1, <2>2, <2>4
  <2>5. QED BY <2>3, <2>4
<1>9. CASE WriteRefresh \/ RetryList \/ RetryQueue \/ Crash \/ UNCHANGED vars
  BY <1>0, <1>9 DEF WriteRefresh, RetryList, RetryQueue, Crash, vars, srvVars
<1>10. QED BY <1>1, <1>2, <1>3, <1>4, <1>5, <1>6, <1>7, <1>8, <1>9 DEF Next


\* No step takes an id back or makes a revision older.
LEMMA BoundsGrow ==
    ASSUME TypeOK, TypeOK', IInv, [Next]_vars, NEW c \in Contacts
    PROVE  /\ made[c] \in Nat /\ made'[c] \in Nat /\ made[c] <= made'[c]
           /\ db[c].rev \in Nat /\ db'[c].rev \in Nat /\ db[c].rev <= db'[c].rev
<1>1. made[c] \in Nat /\ made'[c] \in Nat /\ made[c] <= made'[c]
  BY CopyStep, SyncAssumption DEF CopyMoves, TypeOK, Ids, SyncAssumption
<1>2. db[c].rev \in Nat /\ db'[c].rev \in Nat
  BY DEF TypeOK, Rows
<1>3. db[c].rev <= db'[c].rev
  BY <1>2, RowStep DEF RowsGrow, IInv, NoRowYet
<1>4. QED BY <1>1, <1>2, <1>3

\* An id that a row gets has been handed out.
LEMMA LinksHandedOut ==
    ASSUME TypeOK, IInv, IdsHandedOut, [Next]_vars
    PROVE  \A c \in Contacts : db'[c].wid <= made[c]
<1> DEFINE Known == \A c \in Contacts : db'[c].wid <= made[c]
<1>0. ASSUME NEW c \in Contacts PROVE made[c] \in Nat /\ 0 <= made[c]
  BY SyncAssumption DEF TypeOK, Ids, SyncAssumption
<1>1. ASSUME UNCHANGED db PROVE Known
  BY <1>1 DEF IdsHandedOut
<1>2. ASSUME NEW c \in Contacts, db'[c].wid <= made[c],
             \A d \in Contacts \ {c} : db'[d] = db[d]
      PROVE  Known
  BY <1>2 DEF IdsHandedOut
<1>3. ASSUME NEW c \in Contacts, NEW body \in Body, db' = [db EXCEPT ![c] = Edited(@, body)]
      PROVE  Known
  BY <1>2, <1>3, EditedFields DEF IdsHandedOut
<1>4. ASSUME NEW c \in Contacts, Save(c) PROVE Known
  <2>1. PICK enr \in {db[c].body.enr, FALSE} :
          db' = [db EXCEPT ![c] = Edited(@, [txt |-> fresh + 1, enr |-> enr])]
    BY <1>4 DEF Save
  <2>2. fresh + 1 \in Texts
    BY <1>4, SyncAssumption DEF Save, TypeOK, Texts, SyncAssumption
  <2>3. [txt |-> fresh + 1, enr |-> enr] \in Body
    BY <2>2, Fields DEF Body
  <2>4. QED BY <1>3, <2>1, <2>3
<1>5. ASSUME NEW c \in Contacts, Enrich(c) PROVE Known
  <2>1. [db[c].body EXCEPT !.enr = TRUE] \in Body
    BY Fields DEF Body
  <2>2. db' = [db EXCEPT ![c] = Edited(@, [db[c].body EXCEPT !.enr = TRUE])]
    BY <1>5 DEF Enrich, TypeOK
  <2>3. QED BY <1>3, <2>1, <2>2
<1>6. ASSUME NEW u \in UploadWorkers, UploadWork(u) PROVE Known
  <2> DEFINE c == up[u].c
  <2>0. c \in Contacts
    BY Fields
  <2>1. CASE WorkerEnrich(u)
    <3>1. [db[c].body EXCEPT !.enr = TRUE] \in Body
      BY <2>0, Fields DEF Body
    <3>2. QED BY <1>1, <1>3, <2>0, <2>1, <3>1 DEF WorkerEnrich, TypeOK
  <2>2. CASE BlindAttach(u)
    <3>1. CASE UNCHANGED db
      BY <1>1, <3>1
    <3>2. CASE ~UNCHANGED db
      <4>1. db' = [db EXCEPT ![c].wid = srv[c].id]
        BY <2>2, <3>2 DEF BlindAttach
      <4>2. db'[c].wid = srv[c].id /\ \A d \in Contacts \ {c} : db'[d] = db[d]
        BY <2>0, <4>1, Fields, SetWid DEF Keeps
      <4>3. QED BY <1>2, <2>0, <4>2 DEF IdsHandedOut
    <3>3. QED BY <3>1, <3>2
  <2>3. CASE Attach(u)
    <3>1. up[u].rid <= made[c]
      BY <2>3 DEF Attach, UpStep, IdsHandedOut
    <3>2. \/ UNCHANGED db
          \/ db'[c].wid = up[u].rid /\ \A d \in Contacts \ {c} : db'[d] = db[d]
      BY <2>3, AttachDoes DEF Keeps
    <3>3. QED BY <1>1, <1>2, <2>0, <3>1, <3>2
  <2>4. CASE ~WorkerEnrich(u) /\ ~BlindAttach(u) /\ ~Attach(u)
    BY <1>1, <1>6, <2>4 DEF UploadWork, WorkerLoad, Match, Created, Duplicate, PostFails, Lookup,
                            Check
  <2>5. QED BY <2>1, <2>2, <2>3, <2>4
<1>7. ASSUME NEW w \in PatchWorkers, PatchWork(w) PROVE Known
  <2> DEFINE c == patch[w].c
  <2>1. c \in Contacts
    BY Fields
  <2>2. \/ UNCHANGED db
        \/ db' = [db EXCEPT ![c].dirty = FALSE]
        \/ db' = [db EXCEPT ![c].wid = 0]
    BY <1>7 DEF PatchWork, PatchRead, PatchApplied, PatchNotFound, PatchFails, PatchAck,
                PatchUnlink, PatchClear
  <2>3. CASE db' = [db EXCEPT ![c].dirty = FALSE]
    BY <1>2, <2>1, <2>3, SetDirty DEF Keeps, IdsHandedOut
  <2>4. CASE db' = [db EXCEPT ![c].wid = 0]
    <3>1. db'[c].wid = 0 /\ \A d \in Contacts \ {c} : db'[d] = db[d]
      BY <2>1, <2>4, InitialValues, SetWid DEF Keeps
    <3>2. QED BY <1>0, <1>2, <2>1, <3>1
  <2>5. QED BY <1>1, <2>2, <2>3, <2>4
<1>8. ASSUME NEW c \in Contacts, DownloadWrite(c) PROVE Known
  <2>1. page[c].id <= made[c]
    BY DEF IdsHandedOut
  <2>2. CASE c \in logged
    <3>1. db'[c].wid = page[c].id /\ \A d \in Contacts \ {c} : db'[d] = db[d]
      BY <1>8, <2>2, SetWid DEF DownloadWrite, Keeps, TypeOK, Pages
    <3>2. QED BY <1>2, <2>1, <3>1
  <2>3. CASE c \notin logged
    <3>1. db'[c].wid = page[c].id /\ \A d \in Contacts \ {c} : db'[d] = db[d]
      BY <1>8, <2>3 DEF DownloadWrite, TypeOK
    <3>2. QED BY <1>2, <2>1, <3>1
  <2>4. QED BY <2>2, <2>3
<1>9. CASE WriteRefresh
  <2>1. PICK m \in merging :
          db' = [db EXCEPT ![m.c] = [@ EXCEPT !.body = m.body, !.rev = db[m.c].rev + 1]]
    BY <1>9 DEF WriteRefresh
  <2>2. m.c \in Contacts
    BY DEF TypeOK, Merges
  <2>3. db'[m.c].wid = db[m.c].wid /\ \A d \in Contacts \ {m.c} : db'[d] = db[d]
    BY <2>1, <2>2, SetMerged
  <2>4. QED BY <1>2, <2>2, <2>3 DEF IdsHandedOut
<1>10. ASSUME NEW c \in Contacts,
              LogQSO(c) \/ ReadForRefresh(c) \/ DownloadRead(c) \/ RemoteWork(c)
              \/ \E u \in UploadWorkers : StartBatch(u, c)
       PROVE  UNCHANGED db
  BY <1>10 DEF LogQSO, ReadForRefresh, DownloadRead, RemoteWork, StartBatch, dbVars
<1>11. ASSUME \/ \E w \in PatchWorkers : PatchDone(w)
              \/ \E u \in UploadWorkers : UploadDone(u)
              \/ RetryList \/ RetryQueue \/ LateLands \/ Crash \/ UNCHANGED vars
       PROVE  UNCHANGED db
  BY <1>11 DEF PatchDone, UploadDone, RetryList, RetryQueue, LateLands, Crash, vars, dbVars
<1>12. QED
  BY <1>1, <1>4, <1>5, <1>6, <1>7, <1>8, <1>9, <1>10, <1>11 DEF Next, Operator

\* What a download has read is the id of a copy.
LEMMA PageStep ==
    ASSUME TypeOK, IdsHandedOut, [Next]_vars, NEW c \in Contacts
    PROVE  page'[c].id <= made[c]
<1>0. made[c] \in Nat /\ 0 <= made[c] /\ page[c].id <= made[c] /\ srv[c].id <= made[c]
  BY SyncAssumption DEF TypeOK, Ids, SyncAssumption, IdsHandedOut
<1>1. ASSUME NEW d \in Contacts, DownloadRead(d) \/ DownloadWrite(d) PROVE page'[c].id <= made[c]
  BY <1>0, <1>1 DEF DownloadRead, DownloadWrite, TypeOK
<1>2. CASE Crash
  BY <1>0, <1>2 DEF Crash
<1>3. CASE UNCHANGED page
  BY <1>0, <1>3
<1>4. QED
  BY <1>1, <1>2, <1>3
  DEF Next, Operator, LogQSO, Save, Enrich, ReadForRefresh, RemoteWork, StartBatch, OnlyUp,
      PatchWork, PatchRead, PatchApplied, PatchNotFound, PatchFails, PatchAck, PatchUnlink,
      PatchClear, OnlyPatch, PatchDone, UploadWork, WorkerEnrich, WorkerLoad, Match, Created,
      Duplicate, PostFails, BlindAttach, Lookup, Attach, Check, UploadDone, WriteRefresh,
      RetryList, RetryQueue, LateLands, vars

\* A worker attaches the id of a copy it found or made.
LEMMA FoundStep ==
    ASSUME TypeOK, TypeOK', IInv, IdsHandedOut, [Next]_vars, NEW v \in UploadWorkers,
           up'[v].st = "attach"
    PROVE  up'[v].rid <= made'[up'[v].c]
<1>1. ASSUME up'[v] = up[v] PROVE up'[v].rid <= made'[up'[v].c]
  <2>1. up[v].c \in Contacts /\ up[v].rid <= made[up[v].c] /\ up[v].rid \in Nat
    BY <1>1, Fields, SyncAssumption DEF IdsHandedOut, Ids, SyncAssumption
  <2>2. QED BY <1>1, <2>1, BoundsGrow
<1>2. ASSUME NEW u \in UploadWorkers, UploadWork(u) PROVE up'[v].rid <= made'[up'[v].c]
  <2>1. CASE v # u
    BY <1>1, <1>2, <2>1, UploadMove DEF OthersUp
  <2>2. CASE v = u
    <3> DEFINE c == up[u].c
    <3>0. c \in Contacts /\ made[c] \in Nat /\ srv[c].id \in Nat /\ srv[c].id <= made[c]
      BY Fields, SyncAssumption DEF TypeOK, Ids, Copies, SyncAssumption, IdsHandedOut
    <3>1. CASE Created(u)
      <4>1. made'[c] = made[c] + 1
        BY <3>0, <3>1 DEF Created, CreateCopy, TypeOK
      <4>2. up'[u].rid = made[c] + 1 /\ up'[u].c = c
        BY <2>2, <3>1, CreatedDoes DEF SameJob
      <4>3. QED BY <2>2, <3>0, <4>1, <4>2
    <3>2. CASE Match(u) \/ Lookup(u)
      <4>1. /\ \/ UpFinds(u, srv[c].id)
               \/ UpGoes(u, "bulk") \/ UpEnds(u, "unresolved")
            /\ UNCHANGED made
        BY <3>2 DEF Match, Lookup, srvVars
      <4>2. up'[u].rid = srv[c].id /\ up'[u].c = c
        BY <2>2, <4>1, UpFindsDoes, UpGoesDoes, UpEndsDoes DEF SameJob
      <4>3. QED BY <2>2, <3>0, <4>1, <4>2
    <3>3. CASE Check(u) \/ WorkerLoad(u)
      BY <2>2, <3>3, CheckDoes, LoadDoes
    <3>4. CASE ~Created(u) /\ ~Match(u) /\ ~Lookup(u) /\ ~Check(u) /\ ~WorkerLoad(u)
      <4>1. \/ \E st \in {"load", "lookup", "blind", "post", "import", "check"} : UpGoes(u, st)
            \/ \E res \in {"fail", "unresolved"} : UpEnds(u, res)
        BY <1>2, <3>4 DEF UploadWork, WorkerEnrich, Duplicate, PostFails, BlindAttach, Attach
      <4>2. QED BY <2>2, <4>1, UpGoesDoes, UpEndsDoes
    <3>5. QED BY <3>1, <3>2, <3>3, <3>4
  <2>3. QED BY <2>1, <2>2
<1>3. CASE ~ \E u \in UploadWorkers : UploadWork(u)
  BY <1>1, <1>3, OnlyWorkAttaches
<1>4. QED BY <1>2, <1>3


\* A request comes to be late only when its chain gives up on it.
LEMMA LateStep ==
    ASSUME TypeOK, [Next]_vars, NEW m \in late', m \notin late
    PROVE  /\ May("late")
           /\ \E w \in PatchWorkers :
                 /\ patch[w].st = "wire" /\ patch'[w].st = "done"
                 /\ m.c = patch[w].c /\ m.rev = patch[w].rev
<1>1. ASSUME NEW w \in PatchWorkers, PatchFails(w)
      PROVE  May("late") /\ patch[w].st = "wire" /\ patch'[w].st = "done"
             /\ m.c = patch[w].c /\ m.rev = patch[w].rev
  BY <1>1, PatchEndsDoes DEF PatchFails, PatchStep
<1>2. ASSUME ~ \E w \in PatchWorkers : PatchFails(w) PROVE late' \subseteq late
  BY <1>2
  DEF Next, Operator, LogQSO, Save, Enrich, ReadForRefresh, DownloadRead, DownloadWrite,
      RemoteWork, StartBatch, OnlyUp, PatchWork, PatchRead, PatchApplied, PatchNotFound,
      PatchAck, PatchUnlink, PatchClear, PatchDone, UploadWork, WorkerEnrich, WorkerLoad, Match,
      Created, Duplicate, PostFails, BlindAttach, Lookup, Attach, Check, UploadDone, WriteRefresh,
      RetryList, RetryQueue, LateLands, Crash, vars
<1>3. QED BY <1>1, <1>2

\* A chain puts a request on the wire by reading the row.
LEMMA WireStep ==
    ASSUME TypeOK, [Next]_vars, NEW w \in PatchWorkers, patch'[w].st = "wire"
    PROVE  patch'[w] = patch[w] \/ PatchRead(w)
<1>1. ASSUME NEW v \in PatchWorkers, PatchWork(v) PROVE patch'[w] = patch[w] \/ PatchRead(w)
  BY <1>1, PatchMove DEF OthersPatch
<1>2. ASSUME patch'[w] = patch[w] \/ patch'[w] = IdlePatch
             \/ \E c \in Contacts, ack \in Nat \cup {NoRev} : patch'[w] = Chain(c, ack)
      PROVE  patch'[w] = patch[w]
  <2>1. ASSUME NEW c \in Contacts, NEW ack \in Nat \cup {NoRev}, patch'[w] = Chain(c, ack)
        PROVE  FALSE
    <3>1. patch'[w].st = "read"
      BY <2>1 DEF Chain, IdlePatch
    <3>2. QED BY <3>1
  <2>2. QED BY <1>2, <2>1 DEF IdlePatch
<1>3. ASSUME NEW c \in Contacts, NEW ack \in Nat \cup {NoRev}, PushOrQueue(c, ack)
      PROVE  patch'[w] = patch[w]
  BY <1>2, <1>3 DEF PushOrQueue, TypeOK
<1>4. ASSUME NEW c \in Contacts, Save(c) PROVE patch'[w] = patch[w]
  <2>1. db[c].rev + 1 \in Nat
    BY DEF TypeOK, Rows
  <2>2. UNCHANGED patch \/ PushOrQueue(c, db[c].rev + 1)
    BY <1>4 DEF Save, PushEdit, coordVars
  <2>3. QED BY <1>3, <2>1, <2>2
<1>5. ASSUME NEW c \in Contacts, Enrich(c) PROVE patch'[w] = patch[w]
  BY <1>3, <1>5 DEF Enrich, PushEdit, coordVars
<1>6. ASSUME NEW u \in UploadWorkers, UploadDone(u) PROVE patch'[w] = patch[w]
  BY <1>3, <1>6, Fields DEF UploadDone, coordVars
<1>7. ASSUME NEW v \in PatchWorkers, PatchDone(v) PROVE patch'[w] = patch[w]
  BY <1>2, <1>7, Fields DEF PatchDone, TypeOK
<1>8. CASE RetryQueue
  <2>1. PICK run : patch' = [v \in PatchWorkers |->
                            IF \E c \in listed \ inFlight : run[c] = v
                            THEN Chain(CHOOSE c \in listed \ inFlight : run[c] = v, NoRev)
                            ELSE patch[v]]
    BY <1>8 DEF RetryQueue
  <2>2. patch'[w] = patch[w] \/ \E c \in listed \ inFlight : patch'[w] = Chain(c, NoRev)
    BY <2>1
  <2>3. QED BY <1>2, <2>2 DEF TypeOK
<1>9. CASE Crash
  BY <1>2, <1>9 DEF Crash
<1>10. CASE UNCHANGED patch
  BY <1>10
<1>11. ASSUME NEW u \in UploadWorkers, UploadWork(u) PROVE UNCHANGED patch
  BY <1>11 DEF UploadWork, OnlyUp, coordVars, WorkerEnrich, WorkerLoad, Match, Created,
               Duplicate, PostFails, BlindAttach, Lookup, Attach, Check
<1>12. QED
  BY <1>1, <1>4, <1>5, <1>6, <1>7, <1>8, <1>9, <1>10, <1>11
  DEF Next, Operator, LogQSO, ReadForRefresh, DownloadRead, DownloadWrite, RemoteWork, StartBatch,
      OnlyUp, WriteRefresh, RetryList, LateLands, vars, coordVars

\* Ids are handed out before they are used, after every step.
LEMMA IdsStep ==
    ASSUME TypeOK, TypeOK', IInv, IdsHandedOut, [Next]_vars
    PROVE  IdsHandedOut'
<1>1. ASSUME NEW c \in Contacts
      PROVE  srv'[c].id <= made'[c] /\ db'[c].wid <= made'[c] /\ page'[c].id <= made'[c]
  <2>1. /\ made[c] \in Nat /\ made'[c] \in Nat /\ made[c] <= made'[c]
        /\ db'[c].wid \in Nat /\ page'[c].id \in Nat /\ srv[c].id \in Nat
    BY BoundsGrow, SyncAssumption DEF TypeOK, Rows, Pages, Copies, Ids, SyncAssumption
  <2>2. db'[c].wid <= made[c] /\ page'[c].id <= made[c]
    BY LinksHandedOut, PageStep
  <2>3. srv'[c].id <= made'[c]
    BY <2>1, CopyStep DEF CopyMoves, TakesPush, TakesLate, IdsHandedOut
  <2>4. QED BY <2>1, <2>2, <2>3
<1>2. ASSUME NEW w \in PatchWorkers, patch'[w].st = "wire"
      PROVE  patch'[w].wid <= made'[patch'[w].c]
  <2> DEFINE c == patch[w].c
  <2>1. c \in Contacts /\ db[c].wid \in Nat /\ db[c].wid <= made[c] /\ patch[w].wid \in Nat
    BY Fields, SyncAssumption DEF IdsHandedOut, TypeOK, Rows, Ids, SyncAssumption
  <2>2. made[c] \in Nat /\ made'[c] \in Nat /\ made[c] <= made'[c]
    BY <2>1, BoundsGrow
  <2>3. CASE patch'[w] = patch[w]
    BY <1>2, <2>1, <2>2, <2>3 DEF IdsHandedOut
  <2>4. CASE PatchRead(w)
    BY <1>2, <2>1, <2>2, <2>4, PatchReadDoes
  <2>5. QED BY <1>2, <2>3, <2>4, WireStep
<1>3. QED BY <1>1, <1>2, FoundStep DEF IdsHandedOut

\* No revision gets ahead of its row.
LEMMA AheadStep ==
    ASSUME TypeOK, TypeOK', IInv, NoneAhead, [Next]_vars
    PROVE  NoneAhead'
<1>1. ASSUME NEW w \in PatchWorkers, patch[w].st = "wire"
      PROVE  patch[w].c \in Contacts /\ patch[w].rev \in Nat
             /\ patch[w].rev <= db[patch[w].c].rev
  BY <1>1, Fields DEF IInv, PatchesKnow, PatchKnows, Snapshot
<1>2. ASSUME NEW m \in late PROVE m.c \in Contacts /\ m.rev \in Nat /\ m.rev <= db[m.c].rev
  BY DEF TypeOK, Lates, NoneAhead
<1>3. ASSUME NEW c \in Contacts PROVE srv'[c].rev <= db'[c].rev
  <2>1. /\ db[c].rev \in Nat /\ db'[c].rev \in Nat /\ db[c].rev <= db'[c].rev
        /\ srv[c].rev \in Nat /\ srv'[c].rev \in Nat /\ srv[c].rev <= db[c].rev
    BY BoundsGrow DEF TypeOK, Copies, NoneAhead
  <2>2. srv'[c].rev <= db[c].rev
    <3>1. ASSUME NEW w \in PatchWorkers, TakesPush(w, c) PROVE srv'[c].rev <= db[c].rev
      BY <1>1, <3>1 DEF TakesPush, PatchApplied, PatchStep
    <3>2. ASSUME NEW m \in late, TakesLate(m, c) PROVE srv'[c].rev <= db[c].rev
      BY <1>2, <3>2 DEF TakesLate
    <3>3. QED BY <2>1, <3>1, <3>2, CopyStep DEF CopyMoves
  <2>3. QED BY <2>1, <2>2
<1>4. ASSUME NEW m \in late' PROVE m.rev <= db'[m.c].rev
  <2>1. m.c \in Contacts /\ m.rev \in Nat
    BY DEF TypeOK, Lates
  <2>2. m.rev <= db[m.c].rev
    BY <1>1, <1>2, LateStep
  <2>3. QED BY <2>1, <2>2, BoundsGrow
<1>5. QED BY <1>3, <1>4 DEF NoneAhead

\* What is on the wire stays the newest: one chain per contact.
LEMMA WiresStep ==
    ASSUME TypeOK, TypeOK', IInv, OneChainPerContact, IdsHandedOut, NoneAhead, WiresNewest,
           [Next]_vars
    PROVE  WiresNewest'
<1>1. SUFFICES ASSUME NEW w \in PatchWorkers, patch'[w].st = "wire" PROVE WireIsNewest(w)'
  BY DEF WiresNewest
<1> DEFINE c == patch[w].c
<1>2. c \in Contacts /\ patch[w].rev \in Nat /\ patch[w].wid \in Nat
  BY Fields, SyncAssumption DEF Ids, SyncAssumption
<1>3. CASE PatchRead(w)
  <2>1. patch'[w].c = c /\ patch'[w].rev = db[c].rev /\ UNCHANGED <<srv, late>>
    BY <1>1, <1>3, PatchReadDoes DEF PatchRead, srvVars
  <2>2. QED BY <1>2, <2>1 DEF NoneAhead, WireIsNewest
<1>4. CASE patch'[w] = patch[w]
  <2>1. WireIsNewest(w) /\ patch[w].wid <= made[c]
    BY <1>1, <1>4 DEF WiresNewest, IdsHandedOut
  <2>2. ASSUME NEW v \in PatchWorkers, patch[v].st = "wire", patch[v].c = c PROVE v = w
    BY <1>1, <1>4, <2>2 DEF OneChainPerContact
  <2>3. ASSUME srv'[c].id = patch[w].wid PROVE srv'[c].rev <= patch[w].rev
    <3>1. /\ srv[c].id \in Nat /\ srv[c].rev \in Nat /\ made[c] \in Nat
          /\ db[c].wid \in Nat
      BY <1>2, SyncAssumption DEF TypeOK, Copies, Rows, Ids, SyncAssumption
    <3>2. ASSUME NEW v \in PatchWorkers, TakesPush(v, c) PROVE srv'[c].rev <= patch[w].rev
      BY <1>2, <2>2, <3>2 DEF TakesPush, PatchApplied, PatchStep
    <3>3. ASSUME NEW m \in late, TakesLate(m, c) PROVE srv'[c].rev <= patch[w].rev
      BY <2>1, <3>3 DEF TakesLate, WireIsNewest
    <3>4. QED BY <1>2, <2>1, <2>3, <3>1, <3>2, <3>3, CopyStep DEF CopyMoves, WireIsNewest
  <2>4. ASSUME NEW m \in late', m.c = c PROVE m.rev <= patch[w].rev
    <3>1. CASE m \in late
      BY <2>1, <2>4, <3>1 DEF WireIsNewest
    <3>2. CASE m \notin late
      <4>1. PICK v \in PatchWorkers : /\ patch[v].st = "wire" /\ patch'[v].st = "done"
                                      /\ m.c = patch[v].c /\ m.rev = patch[v].rev
        BY <3>2, LateStep
      <4>2. QED BY <1>2, <2>2, <2>4, <4>1
    <3>3. QED BY <3>1, <3>2
  <2>5. QED BY <1>4, <2>3, <2>4 DEF WireIsNewest
<1>5. QED BY <1>1, <1>3, <1>4, WireStep

\* The invariant behind the order holds throughout.
LEMMA Ordered == Spec => []OInv
<1>1. Init => OInv
  BY DEF Init, OInv, IdsHandedOut, NoneAhead, WiresNewest, IdleUp, IdlePatch
<1>2. TypeOK /\ TypeOK' /\ IInv /\ OneChainPerContact /\ OInv /\ [Next]_vars => OInv'
  BY IdsStep, AheadStep, WiresStep, LateStep DEF OInv
<1>3. QED BY <1>1, <1>2, TypeCorrect, Knowledge, OneChain, PTL DEF Spec

\* One step's part of PushesInOrder.
InOrder == \A c \in Contacts :
              srv'[c].id = srv[c].id /\ srv[c].id # 0 => srv'[c].rev >= srv[c].rev

\* Only a request the client gave up on takes the server back.
LEMMA OrderStep ==
    ASSUME TypeOK, IInv, OInv, [Next]_vars
    PROVE  InOrder \/ (May("late") /\ LateLands)
<1>1. CASE LateLands
  BY <1>1 DEF LateLands, OInv
<1>2. CASE ~LateLands
  <2>1. SUFFICES ASSUME NEW c \in Contacts, srv'[c].id = srv[c].id, srv[c].id # 0
                 PROVE  srv'[c].rev >= srv[c].rev
    BY DEF InOrder
  <2>2. srv[c].rev \in Nat
    BY DEF TypeOK, Copies
  <2>3. ASSUME NEW w \in PatchWorkers, TakesPush(w, c) PROVE srv'[c].rev >= srv[c].rev
    BY <2>2, <2>3, Fields DEF TakesPush, PatchApplied, PatchStep, OInv, WiresNewest, WireIsNewest
  <2>4. QED BY <1>2, <2>1, <2>2, <2>3, CopyStep DEF CopyMoves, TakesLate
<1>3. QED BY <1>1, <1>2

\* Whatever else fails, the server takes the edits in order, unless a request
\* that the client gave up on lands later.
THEOREM OnlyLateUndoes == Spec => [][InOrder \/ (May("late") /\ LateLands)]_vars
<1>1. TypeOK /\ IInv /\ OInv /\ [Next]_vars => [InOrder \/ (May("late") /\ LateLands)]_vars
  BY OrderStep
<1>2. QED BY <1>1, TypeCorrect, Knowledge, Ordered, PTL DEF Spec

\* The server never goes back to an older revision of a contact, when a request
\* that the client gave up on is never executed.
THEOREM PushesStayInOrder ==
    ASSUME ~May("late")
    PROVE  Spec => PushesInOrder
<1>1. TypeOK /\ IInv /\ OInv /\ [Next]_vars
      => [\A c \in Contacts :
            srv'[c].id = srv[c].id /\ srv[c].id # 0 => srv'[c].rev >= srv[c].rev]_vars
  BY OrderStep DEF InOrder
<1>2. QED BY <1>1, TypeCorrect, Knowledge, Ordered, PTL DEF Spec, PushesInOrder

=============================================================================
