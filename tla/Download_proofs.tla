-------------------------- MODULE Download_proofs --------------------------
(***************************************************************************)
(* Theorems about Download: type correctness; that the cursor and the      *)
(* sync marker never pass a record that was not durably handled; that the  *)
(* number reported is that of the rows added and committed; and that only  *)
(* a purge takes the cursor back.                                          *)
(***************************************************************************)
EXTENDS Download, FiniteSetTheorems, TLAPS

LEMMA AnyKeyType == AnyKey \in Keys
  BY DownloadAssumption DEF AnyKey

LEMMA IdleType == Idle \in Ops
  BY AnyKeyType, DownloadAssumption DEF Idle, Ops, States, None, Ids

LEMMA IdOfType ==
  ASSUME TypeOK, NEW k \in Keys
  PROVE  IdOf(k) = 0 \/ (IdOf(k) \in live /\ key[IdOf(k)] = k)
<1> DEFINE newest == {r \in live : key[r] = k /\ \A s \in live : key[s] = k => s <= r}
<1>1. CASE newest = {} \/ k \in UnmatchedKeys
  BY <1>1 DEF IdOf
<1>2. CASE newest # {} /\ k \notin UnmatchedKeys
  <2>1. IdOf(k) = CHOOSE r \in newest : TRUE
    BY <1>2 DEF IdOf
  <2>2. (CHOOSE r \in newest : TRUE) \in newest
    BY <1>2
  <2> QED BY <2>1, <2>2
<1> QED BY <1>1, <1>2

LEMMA LiveType == ASSUME TypeOK PROVE live \subseteq Ids /\ 1..next \subseteq Ids
  BY DownloadAssumption DEF TypeOK, Ids

LEMMA SentType ==
  ASSUME NEW o \in Ops, NEW res \in {"done", "aborted", "error"}, NEW last \in 0..MaxId
  PROVE  /\ Sent(o, res, last) \in Ops
         /\ Sent(o, res, last).kind = o.kind
         /\ Sent(o, res, last).st = "sent"
         /\ Sent(o, res, last).res = res
         /\ Sent(o, res, last).last = last
         /\ Sent(o, res, last).todo = {}
         /\ Sent(o, res, last).from = 0
         /\ Sent(o, res, last).ckpt = None
         /\ Sent(o, res, last).safe = None
         /\ Sent(o, res, last).ids = [k \in Keys |-> 0]
<1>1. Sent(o, res, last) = [Idle EXCEPT !.kind = o.kind, !.st = "sent", !.res = res, !.last = last,
                 !.ins = o.ins, !.dup = o.dup, !.bad = o.bad, !.size = o.size]
  BY DEF Sent
<1>2. /\ o.kind \in {"none", "download", "import"}
      /\ o.ins \in Int /\ o.dup \in Nat /\ o.bad \in Nat /\ o.size \in Nat
  BY DEF Ops
<1>3. Sent(o, res, last) \in Ops
  <2> DEFINE o1 == [Idle EXCEPT !.kind = o.kind, !.st = "sent", !.res = res, !.last = last]
             o2 == [o1 EXCEPT !.ins = o.ins, !.dup = o.dup, !.bad = o.bad, !.size = o.size]
  <2>1. o1 \in Ops
    BY IdleType, <1>2 DEF Ops, States
  <2>2. o2 \in Ops
    <3> HIDE DEF o1
    <3> QED BY <2>1, <1>2 DEF Ops
  <2>3. Sent(o, res, last) = o2
    BY IdleType, <1>1 DEF Ops
  <2> QED BY <2>2, <2>3
<1>4. /\ Sent(o, res, last).kind = o.kind
      /\ Sent(o, res, last).st = "sent"
      /\ Sent(o, res, last).res = res
      /\ Sent(o, res, last).last = last
  BY IdleType, <1>1 DEF Ops
<1>5. /\ Sent(o, res, last).todo = {}
      /\ Sent(o, res, last).from = 0
      /\ Sent(o, res, last).ckpt = None
      /\ Sent(o, res, last).safe = None
      /\ Sent(o, res, last).ids = [k \in Keys |-> 0]
  BY <1>1 DEF Idle
<1> QED BY <1>3, <1>4, <1>5

LEMMA DiscardedType ==
  ASSUME NEW o \in Ops
  PROVE  /\ Discarded(o) \in Ops
         /\ Discarded(o).kind = o.kind
         /\ Discarded(o).st = o.st
         /\ Discarded(o).from = o.from
         /\ Discarded(o).last = o.last
         /\ Discarded(o).todo = o.todo
         /\ Discarded(o).file = o.file
         /\ Discarded(o).ids = o.ids
         /\ Discarded(o).safe = o.safe
         /\ Discarded(o).frozen = o.frozen
         /\ Discarded(o).gap = o.gap
         /\ Discarded(o).cut = o.cut
         /\ Discarded(o).down = o.down
         /\ Discarded(o).stop = o.stop
         /\ Discarded(o).res = o.res
         /\ Discarded(o).ckpt = o.safe
<1>1. o.ins - o.cins \in Int /\ o.safe \in {None} \cup Ids /\ 0 \in 0..ChunkSize /\ 0 \in Nat
  BY DownloadAssumption DEF Ops
<1>2. Discarded(o) \in Ops
  BY <1>1 DEF Discarded, Ops
<1> QED BY <1>2 DEF Discarded, Ops

LEMMA CommittedType ==
  ASSUME NEW o \in Ops
  PROVE  /\ Committed(o) \in Ops
         /\ Committed(o).kind = o.kind
         /\ Committed(o).st = o.st
         /\ Committed(o).from = o.from
         /\ Committed(o).last = o.last
         /\ Committed(o).todo = o.todo
         /\ Committed(o).file = o.file
         /\ Committed(o).ids = o.ids
         /\ Committed(o).ckpt = o.ckpt
         /\ Committed(o).frozen = o.frozen
         /\ Committed(o).gap = o.gap
         /\ Committed(o).cut = o.cut
         /\ Committed(o).down = o.down
         /\ Committed(o).stop = o.stop
         /\ Committed(o).res = o.res
         /\ Committed(o).safe = IF o.ckpt # None THEN o.ckpt ELSE o.safe
<1> DEFINE s == IF o.ckpt # None THEN o.ckpt ELSE o.safe
<1>1. s \in {None} \cup Ids /\ 0 \in 0..ChunkSize /\ 0 \in Nat
  BY DownloadAssumption DEF Ops
<1>2. Committed(o) = [o EXCEPT !.open = FALSE, !.safe = s, !.cins = 0, !.writes = 0]
  BY DEF Committed, Ops
<1> HIDE DEF s
<1>3. Committed(o) \in Ops
  BY <1>1, <1>2 DEF Ops
<1>4. Committed(o).safe = s
  BY <1>2 DEF Ops
<1> QED BY <1>2, <1>3, <1>4 DEF Ops, s

LEMMA LastIDType == ASSUME NEW o \in Ops PROVE LastID(o) \in 0..MaxId
  BY DownloadAssumption DEF LastID, Ops, None, Ids

LEMMA ResultType == ASSUME NEW o \in Ops PROVE Result(o) \in Ops
<1>1. LastID(o) \in 0..MaxId
  BY LastIDType
<1>2. Sent(o, "error", LastID(o)) \in Ops /\ Sent(o, "done", LastID(o)) \in Ops
  BY <1>1, SentType
<1>3. [o EXCEPT !.st = "mark", !.last = LastID(o)] \in Ops
  BY <1>1 DEF Ops, States
<1> QED BY <1>2, <1>3 DEF Result

LEMMA CommitType == ASSUME TypeOK, CommitTx
                    PROVE  /\ local' \in [Keys -> Rows] /\ tx' \in [Keys -> Rows]
                           /\ handled' \subseteq Ids /\ batch' \subseteq Ids /\ stored' \in Nat
<1> DEFINE New == {k \in Keys : tx[k] # NoRow /\ local[k] = NoRow}
<1>1. Cardinality(New) \in Nat
  <2>1. IsFiniteSet(New)
    BY DownloadAssumption, FS_Subset
  <2> QED BY <2>1, FS_CardinalityType
<1> QED BY <1>1 DEF TypeOK, CommitTx, Row, Rows, NoRow, NoWrites

LEMMA RollbackType == ASSUME TypeOK, RollbackTx
                      PROVE  /\ local' \in [Keys -> Rows] /\ tx' \in [Keys -> Rows]
                             /\ handled' \subseteq Ids /\ batch' \subseteq Ids /\ stored' \in Nat
  BY DEF TypeOK, RollbackTx, fileVars, Rows, NoRow, NoWrites

\* The variables an action of the operation leaves alone keep their types.
OpFrame == /\ op' \in Ops
           /\ local' \in [Keys -> Rows] /\ tx' \in [Keys -> Rows]
           /\ handled' \subseteq Ids /\ batch' \subseteq Ids /\ stored' \in Nat

LEMMA OpFrameType == ASSUME TypeOK, OnlyOp, OpFrame PROVE TypeOK'
  BY DEF TypeOK, OnlyOp, OpFrame, serverVars, histVars

LEMMA KeyOfType == ASSUME TypeOK, NEW r \in Ids PROVE KeyOf(r) \in Keys
  BY DEF TypeOK, KeyOf, Ops

LEMMA TakenType ==
  ASSUME TypeOK, NEW r \in Ids
  PROVE  /\ Taken(op, r) \in Ops
         /\ Taken(op, r).kind = op.kind
         /\ Taken(op, r).st = op.st
         /\ Taken(op, r).from = op.from
         /\ Taken(op, r).last = op.last
         /\ Taken(op, r).file = op.file
         /\ Taken(op, r).ids = op.ids
         /\ Taken(op, r).ckpt = op.ckpt
         /\ Taken(op, r).safe = op.safe
         /\ Taken(op, r).writes = op.writes
         /\ Taken(op, r).frozen = op.frozen
         /\ Taken(op, r).gap = op.gap
         /\ Taken(op, r).cut = op.cut
         /\ Taken(op, r).down = op.down
         /\ Taken(op, r).stop = op.stop
         /\ Taken(op, r).res = op.res
         /\ Taken(op, r).bad = op.bad
         /\ Taken(op, r).dup = op.dup
         /\ Taken(op, r).todo = op.todo \ {r}
  BY DEF TypeOK, Taken, Ops

LEMMA PassedType ==
  ASSUME NEW o \in Ops, NEW id \in 0..MaxId
  PROVE  /\ Passed(o, id) \in Ops
         /\ Passed(o, id).kind = o.kind
         /\ Passed(o, id).st = o.st
         /\ Passed(o, id).from = o.from
         /\ Passed(o, id).last = o.last
         /\ Passed(o, id).todo = o.todo
         /\ Passed(o, id).file = o.file
         /\ Passed(o, id).ids = o.ids
         /\ Passed(o, id).safe = o.safe
         /\ Passed(o, id).writes = o.writes
         /\ Passed(o, id).frozen = o.frozen
         /\ Passed(o, id).gap = o.gap
         /\ Passed(o, id).cut = o.cut
         /\ Passed(o, id).down = o.down
         /\ Passed(o, id).stop = o.stop
         /\ Passed(o, id).res = o.res
         /\ Passed(o, id).bad = o.bad
         /\ Passed(o, id).dup = o.dup
         /\ Passed(o, id).ckpt = IF id > 0 /\ ~o.frozen /\ ~o.gap THEN id ELSE o.ckpt
<1> DEFINE s == IF id > 0 /\ ~o.frozen /\ ~o.gap THEN id ELSE o.ckpt
<1>1. s \in {None} \cup Ids
  BY DownloadAssumption DEF Ops, Ids
<1>2. Passed(o, id) = [o EXCEPT !.ckpt = s]
  BY DEF Passed, Ops
<1> HIDE DEF s
<1>3. Passed(o, id) \in Ops
  BY <1>1, <1>2 DEF Ops
<1>4. Passed(o, id).ckpt = s
  BY <1>2 DEF Ops
<1> QED BY <1>2, <1>3, <1>4 DEF Ops, s

-----------------------------------------------------------------------------
(* Type correctness, one action at a time.                                 *)

\* What an action of a running operation that writes no rows leaves alone.
LEMMA QuietFrameType ==
  ASSUME TypeOK, OnlyOp, UNCHANGED <<fileVars, tx, batch>>, op' \in Ops
  PROVE  TypeOK'
  BY DEF TypeOK, OnlyOp, fileVars, serverVars, histVars

LEMMA CommitFrameType ==
  ASSUME TypeOK, OnlyOp, CommitTx, op' \in Ops
  PROVE  TypeOK'
  BY CommitType, OpFrameType DEF OpFrame

LEMMA RollbackFrameType ==
  ASSUME TypeOK, OnlyOp, RollbackTx, op' \in Ops
  PROVE  TypeOK'
  BY RollbackType, OpFrameType DEF OpFrame

LEMMA FetchType ==
  ASSUME TypeOK, FetchPage \/ FetchFails \/ FetchIds
  PROVE  TypeOK'
<1>1. op' \in Ops /\ OnlyOp /\ UNCHANGED <<fileVars, tx, batch>>
  <2>1. CASE FetchPage
    <3> DEFINE new == {r \in live : r > op.last}
    <3>0. op \in Ops /\ op.last \in 0..MaxId /\ live \subseteq Ids
      BY LiveType DEF TypeOK, Ops
    <3>1. CASE op' = Sent(op, "done", op.last)
      BY <2>1, <3>0, <3>1, SentType DEF FetchPage
    <3>2. CASE op' = [op EXCEPT !.st = "list"]
      BY <2>1, <3>0, <3>2 DEF FetchPage, Ops, States
    <3>3. CASE \E last \in new :
                op' = [op EXCEPT !.todo = @ \cup {r \in new : r <= last}, !.last = last,
                          !.st = IF \A r \in new : r <= last THEN "list" ELSE "pages"]
      <4>1. PICK last \in new :
              op' = [op EXCEPT !.todo = @ \cup {r \in new : r <= last}, !.last = last,
                        !.st = IF \A r \in new : r <= last THEN "list" ELSE "pages"]
        BY <3>3
      <4> DEFINE read == op.todo \cup {r \in new : r <= last}
                 st == IF \A r \in new : r <= last THEN "list" ELSE "pages"
      <4>2. read \in SUBSET Ids /\ last \in 0..MaxId /\ st \in States
        <5>1. op.todo \subseteq Ids /\ new \subseteq Ids
          BY <3>0 DEF Ops
        <5> QED BY <5>1 DEF Ids, States
      <4>3. op' = [op EXCEPT !.todo = read, !.last = last, !.st = st]
        BY <4>1
      <4>4. op' \in Ops
        <5> HIDE DEF read, st
        <5> QED BY <3>0, <4>2, <4>3 DEF Ops
      <4> QED BY <2>1, <4>4 DEF FetchPage
    <3> QED BY <2>1, <3>1, <3>2, <3>3 DEF FetchPage
  <2>2. CASE FetchFails
    <3>0. op \in Ops /\ op.last \in 0..MaxId
      BY DEF TypeOK, Ops
    <3>1. Sent(op, "aborted", op.last) \in Ops /\ Sent(op, "error", op.last) \in Ops
      BY <3>0, SentType
    <3> QED BY <2>2, <3>1 DEF FetchFails
  <2>3. CASE FetchIds
    <3>0. op \in Ops /\ [k \in Keys |-> IdOf(k)] \in [Keys -> 0..MaxId]
      <4>1. \A k \in Keys : IdOf(k) \in 0..MaxId
        BY IdOfType, LiveType, DownloadAssumption DEF Ids
      <4> QED BY <4>1 DEF TypeOK
    <3>1. CASE op' = [op EXCEPT !.st = "scan", !.ids = [k \in Keys |-> IdOf(k)]]
      <4>1. op' \in Ops
        BY <3>0, <3>1 DEF Ops, States
      <4> QED BY <2>3, <4>1 DEF FetchIds
    <3>2. CASE op' = [op EXCEPT !.st = "scan"]
      <4>1. op' \in Ops
        BY <3>0, <3>2 DEF Ops, States
      <4> QED BY <2>3, <4>1 DEF FetchIds
    <3> QED BY <2>3, <3>1, <3>2 DEF FetchIds
  <2> QED BY <2>1, <2>2, <2>3
<1> QED BY <1>1, QuietFrameType

LEMMA StartImportType == ASSUME TypeOK, StartImport PROVE TypeOK'
<1>1. PICK n \in 1..MaxFile, file \in [1..MaxFile -> Keys] :
        op' = [Idle EXCEPT !.kind = "import", !.st = "scan", !.todo = 1..n,
                           !.size = n,
                           !.file = [r \in Ids |-> IF r <= n THEN file[r] ELSE AnyKey]]
  BY DEF StartImport
<1>2. /\ 1..n \in SUBSET Ids /\ n \in Nat
      /\ [r \in Ids |-> IF r <= n THEN file[r] ELSE AnyKey] \in [Ids -> Keys]
  BY AnyKeyType, DownloadAssumption DEF Ids
<1>3. op' \in Ops
  BY <1>1, <1>2, IdleType DEF Ops, States
<1>4. ops' \in 0..MaxOps /\ overlap' \in BOOLEAN
  BY DownloadAssumption DEF TypeOK, StartImport
<1> QED BY <1>3, <1>4 DEF TypeOK, StartImport, serverVars

LEMMA StartDownloadType == ASSUME TypeOK, StartDownload PROVE TypeOK'
<1>1. op' \in Ops
  BY IdleType DEF TypeOK, StartDownload, Ops, States
<1>2. ops' \in 0..MaxOps /\ overlap' \in BOOLEAN
  BY DownloadAssumption DEF TypeOK, StartDownload
<1> QED BY <1>1, <1>2 DEF TypeOK, StartDownload, serverVars

LEMMA ChunkType ==
  ASSUME TypeOK, CommitFull \/ BeginFails \/ StopScan \/ EndScan \/ Finish
  PROVE  TypeOK'
<1>0. op \in Ops /\ op.last \in 0..MaxId
  BY DEF TypeOK, Ops
<1>1. Committed(op) \in Ops /\ Discarded(op) \in Ops
  BY <1>0, CommittedType, DiscardedType
<1>2. [Discarded(op) EXCEPT !.frozen = TRUE] \in Ops
  BY <1>1 DEF Ops
<1>3. CASE CommitFull
  BY <1>1, <1>2, <1>3, CommitFrameType, RollbackFrameType DEF CommitFull
<1>4. CASE BeginFails
  <2>1. (IF op.kind = "import" THEN op.bad + 1 ELSE op.bad) \in Nat
    BY <1>0 DEF Ops
  <2>2. op' \in Ops
    BY <1>0, <1>4, <2>1 DEF BeginFails, Ops, States
  <2> QED BY <1>4, <2>2, QuietFrameType DEF BeginFails
<1>5. CASE StopScan
  <2>1. Sent(Committed(op), "aborted", op.last) \in Ops /\ Sent(Discarded(op), "aborted", op.last) \in Ops
    BY <1>0, <1>1, SentType
  <2> QED BY <1>5, <2>1, CommitFrameType, RollbackFrameType DEF StopScan
<1>6. CASE EndScan
  <2>1. [op EXCEPT !.st = "final"] \in Ops /\ [op EXCEPT !.st = "final", !.cut = TRUE] \in Ops
    BY <1>0 DEF Ops, States
  <2> QED BY <1>6, <2>1, QuietFrameType DEF EndScan
<1>7. CASE Finish
  <2>1. Result(Committed(op)) \in Ops /\ Result([Discarded(op) EXCEPT !.frozen = TRUE]) \in Ops
    BY <1>1, <1>2, ResultType
  <2> QED BY <1>7, <2>1, CommitFrameType, RollbackFrameType DEF Finish
<1> QED BY <1>3, <1>4, <1>5, <1>6, <1>7

LEMMA RecordType ==
  ASSUME TypeOK, NEW r \in Ids,
         SkipInvalid(r) \/ LinkRow(r) \/ SkipDuplicate(r) \/ InsertRow(r) \/ InsertFails(r)
  PROVE  TypeOK'
<1> DEFINE k == KeyOf(r)
           t == Taken(op, r)
<1>0. k \in Keys /\ t \in Ops /\ op.ids[k] \in 0..MaxId
  BY KeyOfType, TakenType DEF TypeOK, Ops
<1>1. t.writes \in 0..ChunkSize /\ (~Full => t.writes + 1 \in 0..ChunkSize)
  BY <1>0, TakenType, DownloadAssumption DEF Full, TypeOK, Ops
<1>2. t.ins + 1 \in Int /\ t.cins + 1 \in Nat /\ t.bad + 1 \in Nat /\ t.dup + 1 \in Nat
  BY <1>0 DEF Ops
<1> HIDE DEF k, t
<1>3. CASE SkipInvalid(r)
  <2> DEFINE p == Passed(t, op.ids[k])
  <2>1. p \in Ops /\ p.bad \in Nat
    BY <1>0, PassedType DEF Ops
  <2>2. op' = [p EXCEPT !.bad = p.bad + 1]
    BY <1>3 DEF SkipInvalid, k, t
  <2> HIDE DEF p
  <2>3. op' \in Ops
    BY <2>1, <2>2 DEF Ops
  <2> QED BY <1>3, <2>3, QuietFrameType DEF SkipInvalid
<1>4. CASE LinkRow(r)
  <2> DEFINE w == [t EXCEPT !.writes = t.writes + 1]
             id == op.ids[k]
  <2>0. ~Full /\ OnlyOp
    BY <1>4 DEF LinkRow, Record
  <2>1. w \in Ops
    BY <1>0, <1>1, <2>0 DEF Ops
  <2>2. Passed(w, id) \in Ops
    BY <1>0, <2>1, PassedType
  <2>3. [Discarded(t) EXCEPT !.gap = TRUE] \in Ops /\ [t EXCEPT !.gap = TRUE] \in Ops
    <3>1. Discarded(t) \in Ops
      BY <1>0, DiscardedType
    <3> QED BY <1>0, <3>1 DEF Ops
  <2>4. CASE /\ op' = Passed(w, id) /\ tx' = [tx EXCEPT ![k] = id]
             /\ batch' = batch \cup {r} /\ UNCHANGED fileVars
    <3>1. OpFrame
      BY <1>0, <2>2, <2>4 DEF OpFrame, TypeOK, fileVars, Rows
    <3> QED BY <2>0, <3>1, OpFrameType
  <2>5. CASE op' = [Discarded(t) EXCEPT !.gap = TRUE] /\ RollbackTx
    BY <2>0, <2>3, <2>5, RollbackFrameType
  <2>6. CASE op' = [t EXCEPT !.gap = TRUE] /\ UNCHANGED <<fileVars, tx, batch>>
    BY <2>0, <2>3, <2>6, QuietFrameType
  <2> QED BY <1>4, <2>4, <2>5, <2>6 DEF LinkRow, k, t
<1>5. CASE SkipDuplicate(r)
  <2>1. op' = [t EXCEPT !.dup = t.dup + 1]
    BY <1>5 DEF SkipDuplicate, t
  <2>2. op' \in Ops
    BY <1>0, <1>2, <2>1 DEF Ops
  <2> QED BY <1>5, <2>2, QuietFrameType DEF SkipDuplicate
<1>6. CASE InsertRow(r)
  <2> DEFINE id == IF Pulling THEN op.ids[k] ELSE 0
             o == [t EXCEPT !.writes = t.writes + 1, !.ins = t.ins + 1, !.cins = t.cins + 1]
             p == Passed(o, id)
             g == p.gap \/ (Pulling /\ id = 0)
  <2>0. ~Full /\ OnlyOp /\ UNCHANGED fileVars
    BY <1>6 DEF InsertRow, Record
  <2>1. id \in 0..MaxId
    BY <1>0, DownloadAssumption
  <2>2. o \in Ops
    BY <1>0, <1>1, <1>2, <2>0 DEF Ops
  <2>3. p \in Ops
    <3> HIDE DEF o, id
    <3> QED BY <2>1, <2>2, PassedType
  <2>4. op' = [p EXCEPT !.gap = g] /\ tx' = [tx EXCEPT ![k] = id]
        /\ batch' = IF id > 0 THEN batch \cup {r} ELSE batch
    BY <1>6 DEF InsertRow, k, t
  <2> HIDE DEF p, id, o
  <2>5. g \in BOOLEAN
    BY <2>3 DEF Ops
  <2> HIDE DEF g
  <2>6. op' \in Ops
    BY <2>3, <2>4, <2>5 DEF Ops
  <2>7. OpFrame
    BY <1>0, <2>0, <2>1, <2>4, <2>6 DEF OpFrame, TypeOK, fileVars, Rows
  <2> QED BY <2>0, <2>7, OpFrameType
<1>7. CASE InsertFails(r)
  <2> DEFINE d == Discarded(t)
  <2>1. d \in Ops /\ d.bad + 1 \in Nat
    BY <1>0, DiscardedType DEF Ops
  <2>2. op' = [d EXCEPT !.frozen = TRUE, !.bad = d.bad + 1]
    BY <1>7 DEF InsertFails, t
  <2> HIDE DEF d
  <2>3. op' \in Ops
    BY <2>1, <2>2 DEF Ops
  <2> QED BY <1>7, <2>3, RollbackFrameType DEF InsertFails
<1> QED BY <1>3, <1>4, <1>5, <1>6, <1>7

LEMMA OutsideType ==
  ASSUME TypeOK,
         \/ \E k \in Keys : RemoteLog(k) \/ LocalLog(k)
         \/ \E r \in Ids : RemoteDelete(r)
         \/ OpenEditor \/ Abort \/ ConfirmPurge \/ RunPurge \/ PurgeDone
         \/ Mark \/ Deliver \/ Crash
  PROVE  TypeOK'
<1>1. CASE \E k \in Keys : RemoteLog(k)
  <2>1. PICK k \in Keys : RemoteLog(k)
    BY <1>1
  <2>2. next' \in 0..MaxId /\ key' \in [Ids -> Keys] /\ live' \subseteq 1..next'
    BY <2>1, DownloadAssumption DEF TypeOK, RemoteLog, Ids
  <2> QED BY <2>1, <2>2 DEF TypeOK, RemoteLog, fileVars, histVars
<1>2. CASE \E k \in Keys : LocalLog(k)
  <2>1. PICK k \in Keys : LocalLog(k)
    BY <1>2
  <2>2. local' \in [Keys -> Rows]
    BY <2>1, DownloadAssumption DEF TypeOK, LocalLog, Rows
  <2> QED BY <2>1, <2>2 DEF TypeOK, LocalLog, serverVars, histVars
<1>3. CASE \E r \in Ids : RemoteDelete(r)
  BY <1>3 DEF TypeOK, RemoteDelete, fileVars, histVars
<1>4. CASE OpenEditor
  BY <1>4 DEF TypeOK, OpenEditor, serverVars, fileVars
<1>5. CASE Abort
  <2>1. op' \in Ops
    BY <1>5 DEF TypeOK, Abort, Ops
  <2> QED BY <1>5, <2>1 DEF TypeOK, Abort, serverVars, fileVars, histVars
<1>6. CASE ConfirmPurge
  <2>1. 0 \in 0..MaxId /\ purge' \in [st : {"idle", "running", "done"}, own : BOOLEAN, n : 0..MaxPurges]
    BY <1>6, DownloadAssumption DEF TypeOK, ConfirmPurge
  <2> QED BY <1>6, <2>1 DEF TypeOK, ConfirmPurge, serverVars, fileVars, histVars
<1>7. CASE RunPurge
  <2>1. local' \in [Keys -> Rows] /\ handled' \subseteq Ids /\ cleared' \in BOOLEAN
    BY <1>7 DEF TypeOK, RunPurge, NoWrites, Rows
  <2> QED BY <1>7, <2>1 DEF TypeOK, RunPurge, serverVars
<1>8. CASE PurgeDone
  <2>1. cursor' \in 0..MaxId /\ known' \in 0..MaxId
    BY <1>8, DownloadAssumption DEF TypeOK, PurgeDone
  <2> QED BY <1>8, <2>1 DEF TypeOK, PurgeDone, serverVars, fileVars, histVars
<1>9. CASE Mark
  <2>1. op.last \in 0..MaxId /\ op' \in Ops
    BY <1>9, SentType DEF TypeOK, Mark, Ops
  <2> QED BY <1>9, <2>1 DEF TypeOK, Mark, serverVars, fileVars
<1>10. CASE Deliver
  <2>1. op.last \in 0..MaxId
    BY DEF TypeOK, Ops
  <2> QED BY <1>10, <2>1, IdleType DEF TypeOK, Deliver, serverVars, fileVars, histVars
<1>11. CASE Crash
  BY <1>11, IdleType DEF TypeOK, Crash, serverVars, fileVars, NoWrites, Rows
<1> QED BY <1>1, <1>2, <1>3, <1>4, <1>5, <1>6, <1>7, <1>8, <1>9, <1>10, <1>11

LEMMA TypeStep == ASSUME TypeOK, [Next]_vars PROVE TypeOK'
<1>1. CASE UNCHANGED vars
  BY <1>1 DEF TypeOK, vars
<1>2. CASE Next
  BY <1>2, OutsideType, RecordType, ChunkType, FetchType, StartImportType, StartDownloadType
     DEF Next, Step, Worker
<1> QED BY <1>1, <1>2

\* Every state of downloads, imports and purges is well typed.
THEOREM TypeCorrect == Spec => []TypeOK
<1>1. Init => TypeOK
  <2> SUFFICES ASSUME Init PROVE TypeOK
    OBVIOUS
  <2>1. op \in Ops /\ key \in [Ids -> Keys]
    BY IdleType, AnyKeyType DEF Init
  <2>2. local \in [Keys -> Rows] /\ tx \in [Keys -> Rows]
    BY DEF Init, NoWrites, Rows
  <2>3. purge \in [st : {"idle", "running", "done"}, own : BOOLEAN, n : 0..MaxPurges]
    BY DownloadAssumption DEF Init
  <2>4. next = 0 /\ live = {} /\ 0 \in 0..MaxId /\ ops \in 0..MaxOps
    BY DownloadAssumption DEF Init
  <2>5. handled = {} /\ batch = {} /\ stored \in Nat
    BY DEF Init
  <2>6. cursor = 0 /\ known = 0 /\ markedTo = 0
    BY DEF Init
  <2>7. marker \in BOOLEAN /\ cleared \in BOOLEAN /\ overlap \in BOOLEAN
    BY DEF Init
  <2> QED BY <2>1, <2>2, <2>3, <2>4, <2>5, <2>6, <2>7 DEF TypeOK
<1> QED BY <1>1, TypeStep, PTL DEF Spec

-----------------------------------------------------------------------------
(* Coverage: the records lv up to n are invalid or share their identity    *)
(* with one of hd.                                                         *)

Cov(n, lv, ky, hd) ==
    \A r \in lv : r <= n => ky[r] \in InvalidKeys \/ \E s \in hd : ky[s] = ky[r]

\* Later records and further links disturb no coverage.
LEMMA CovKept ==
  ASSUME NEW n \in Int, NEW nx \in Nat, n <= nx,
         NEW lv, NEW lv2, NEW ky, NEW ky2, NEW hd, NEW hd2,
         \A r \in 1..nx : ky2[r] = ky[r],
         lv \subseteq 1..nx, \A r \in lv2 : r \in Int /\ (r \in lv \/ r > nx),
         hd \subseteq 1..nx, hd \subseteq hd2,
         Cov(n, lv, ky, hd)
  PROVE  Cov(n, lv2, ky2, hd2)
<1> SUFFICES ASSUME NEW r \in lv2, r <= n, ky2[r] \notin InvalidKeys
             PROVE  \E s \in hd2 : ky2[s] = ky2[r]
  BY DEF Cov
<1>1. r \in lv /\ ky2[r] = ky[r]
  OBVIOUS
<1>2. PICK s \in hd : ky[s] = ky[r]
  BY <1>1 DEF Cov
<1> QED BY <1>1, <1>2

LEMMA CovMore ==
  ASSUME NEW n, NEW lv, NEW ky, NEW hd, NEW hd2, hd \subseteq hd2, Cov(n, lv, ky, hd)
  PROVE  Cov(n, lv, ky, hd2)
  BY DEF Cov

LEMMA CovZero == ASSUME NEW lv, lv \subseteq Ids, NEW ky, NEW hd PROVE Cov(0, lv, ky, hd)
  BY DEF Cov, Ids

\* The invariant in these terms.
Progress1 ==
    Fetching =>
        /\ Cov(op.from, live, key, handled)
        /\ op.safe # None => Cov(op.safe, live, key, handled)
        /\ op.ckpt # None => Cov(op.ckpt, live, key, handled \cup batch)
        /\ ~op.frozen /\ ~op.gap => Cov(op.last, live \ op.todo, key, handled \cup batch)
        /\ op.st = "final" /\ Clean(op) => op.todo = {}

Reached1 ==
    /\ Cov(known, live, key, handled)
    /\ purge.st # "done" => Cov(cursor, live, key, handled)
    /\ marker /\ ~cleared => Cov(markedTo, live, key, handled)
    /\ Progress1
    /\ op.kind = "download" /\ (op.st = "mark" \/ (op.st = "sent" /\ op.res = "done")) => Cov(op.last, live, key, handled)

LEMMA ReachedCov == Reached <=> Reached1
<1>1. \A n : Handled(n) <=> Cov(n, live, key, handled)
  BY DEF Handled, Cov
<1>2. HandledWith(op.ckpt, batch) <=> Cov(op.ckpt, live, key, handled \cup batch)
  BY DEF HandledWith, Cov
<1>3. (\A r \in live : r <= op.last =>
              \/ r \in op.todo \/ key[r] \in InvalidKeys
              \/ \E s \in handled \cup batch : key[s] = key[r])
      <=> Cov(op.last, live \ op.todo, key, handled \cup batch)
  BY DEF Cov
<1>4. Progress <=> Progress1
  BY <1>1, <1>2, <1>3 DEF Progress, Progress1
<1> QED BY <1>1, <1>4 DEF Reached, Reached1

IInv1 == Bounded /\ Unique /\ Quiet /\ (~overlap => Reached1)

LEMMA IInvCov == IInv <=> IInv1
  BY ReachedCov DEF IInv, IInv1

-----------------------------------------------------------------------------
(* How a step of an operation keeps the invariant.                         *)

\* The operation ends: what its message reports is covered.
LEMMA EndStep ==
  ASSUME TypeOK, IInv1, OnlyOp, NEW o \in Ops, NEW res \in {"done", "aborted", "error"},
         NEW n \in 0..MaxId,
         op' = Sent(o, res, n), o.kind = op.kind, op.st # "idle", n <= next \/ op.kind # "download",
         batch' = {}, handled \subseteq handled', handled' \subseteq 1..next,
         ~overlap /\ op.kind = "download" /\ res = "done" => Cov(n, live, key, handled')
  PROVE  IInv1'
<1>1. /\ op'.kind = op.kind /\ op'.st = "sent" /\ op'.res = res /\ op'.last = n
      /\ op'.from = 0 /\ op'.ckpt = None /\ op'.safe = None /\ op'.ids = [k \in Keys |-> 0]
  BY SentType
<1>2. /\ key' = key /\ next' = next /\ live' = live /\ cursor' = cursor /\ known' = known
      /\ marker' = marker /\ purge' = purge
      /\ markedTo' = markedTo /\ cleared' = cleared /\ overlap' = overlap
  BY DEF OnlyOp, serverVars, histVars
<1>3. Bounded'
  BY <1>1, <1>2 DEF IInv1, Bounded, Fetching, None, TypeOK
<1>4. Unique'
  BY <1>1, <1>2 DEF IInv1, Unique
<1>5. Quiet'
  BY <1>1, <1>2 DEF IInv1, Quiet
<1>6. Progress1'
  BY <1>1 DEF Progress1, Fetching
<1>7. ~overlap => Reached1'
  BY <1>1, <1>2, <1>6, CovMore DEF IInv1, Reached1
<1> QED BY <1>2, <1>3, <1>4, <1>5, <1>7 DEF IInv1

\* The operation goes on with its records.
LEMMA ScanStep ==
  ASSUME TypeOK, IInv1, OnlyOp, op' \in Ops,
         op.st \in {"scan", "final"}, op'.st \in {"scan", "final"},
         op'.kind = op.kind, op'.from = op.from, op'.last = op.last, op'.ids = op.ids,
         op'.todo \subseteq op.todo,
         handled \subseteq handled', handled' \subseteq 1..next, batch' \subseteq 1..next,
         op.kind # "download" => batch' = {},
         op.kind = "download" => op'.ckpt <= next /\ op'.safe <= next,
         op.kind = "download" /\ ~overlap =>
            /\ op'.safe # None => Cov(op'.safe, live, key, handled')
            /\ op'.ckpt # None => Cov(op'.ckpt, live, key, handled' \cup batch')
            /\ ~op'.frozen /\ ~op'.gap => Cov(op.last, live \ op'.todo, key, handled' \cup batch')
            /\ op'.st = "final" /\ Clean(op') => op'.todo = {}
  PROVE  IInv1'
<1>2. /\ key' = key /\ next' = next /\ live' = live /\ cursor' = cursor /\ known' = known
      /\ marker' = marker /\ purge' = purge
      /\ markedTo' = markedTo /\ cleared' = cleared /\ overlap' = overlap
  BY DEF OnlyOp, serverVars, histVars
<1>3. Bounded'
  BY <1>2 DEF IInv1, Bounded, Fetching
<1>4. Unique'
  BY <1>2 DEF IInv1, Unique
<1>5. Quiet'
  BY <1>2 DEF IInv1, Quiet
<1>6. ~overlap => Progress1'
  <2> SUFFICES ASSUME ~overlap, Fetching' PROVE Progress1'
    BY DEF Progress1
  <2>1. op.kind = "download" /\ Fetching
    BY DEF Fetching
  <2>2. Cov(op.from, live, key, handled')
    BY <2>1, CovMore DEF IInv1, Reached1, Progress1
  <2>3. Clean(op)' <=> Clean(op')
    BY DEF Clean
  <2> QED BY <1>2, <2>1, <2>2, <2>3 DEF Progress1
<1>7. ~overlap => Reached1'
  BY <1>2, <1>6, CovMore DEF IInv1, Reached1
<1> QED BY <1>2, <1>3, <1>4, <1>5, <1>7 DEF IInv1

\* While nothing failed, the checkpoint may pass the record in turn: its id is
\* the record, and all before it are covered.
LEMMA RecordInTurn ==
  ASSUME TypeOK, IInv1, ~overlap, op.kind = "download", NEW r \in Ids, Record(r),
         ~op.frozen, ~op.gap, NEW hd, handled \cup batch \subseteq hd,
         key[r] \in InvalidKeys \/ r \in hd
  PROVE  /\ Cov(r, live, key, hd)
         /\ Cov(op.last, live \ (op.todo \ {r}), key, hd)
<1>1. Fetching /\ op.st = "scan" /\ r \in op.todo /\ \A s \in op.todo : r <= s
  BY DEF Record, Fetching
<1>2. Cov(op.last, live \ op.todo, key, handled \cup batch)
  BY <1>1 DEF IInv1, Reached1, Progress1
<1>3. r <= op.last /\ op.todo \subseteq Ids /\ live \subseteq Ids /\ op.last \in 0..MaxId
  BY <1>1, LiveType DEF IInv1, Bounded, TypeOK, Ops
<1>4. \A s \in live : s <= r => s = r \/ s \in live \ op.todo
  BY <1>1, <1>3 DEF Ids
<1>5. \A s \in live : s <= r => s <= op.last
  BY <1>3 DEF Ids
<1> QED BY <1>2, <1>4, <1>5 DEF Cov

\* The list gives a record no other id than its own.
LEMMA OwnId ==
  ASSUME TypeOK, IInv1, op.kind = "download", NEW r \in Ids, Record(r), op.ids[key[r]] > 0
  PROVE  op.ids[key[r]] = r
<1>1. Fetching /\ r \in op.todo
  BY DEF Record, Fetching
<1>2. key[r] \in Keys /\ op.ids[key[r]] \in 0..MaxId
  BY DEF TypeOK, Ops
<1>3. r \in 1..next
  BY <1>1 DEF IInv1, Bounded, TypeOK, Ops
<1>4. op.ids[key[r]] \in 1..next /\ key[op.ids[key[r]]] = key[r]
  BY <1>2 DEF IInv1, Unique, TypeOK
<1> QED BY <1>3, <1>4 DEF IInv1, Unique

LEMMA RecordStep ==
  ASSUME TypeOK, TypeOK', IInv1, NEW r \in Ids,
         SkipInvalid(r) \/ LinkRow(r) \/ SkipDuplicate(r) \/ InsertRow(r) \/ InsertFails(r)
  PROVE  IInv1'
<1> DEFINE k == KeyOf(r)
           t == Taken(op, r)
           id == op.ids[k]
<1>0. k \in Keys /\ t \in Ops /\ id \in 0..MaxId /\ op \in Ops /\ op' \in Ops
  BY KeyOfType, TakenType DEF TypeOK, Ops
<1>1. Record(r) /\ OnlyOp /\ op.st = "scan"
  BY DEF SkipInvalid, LinkRow, SkipDuplicate, InsertRow, InsertFails, Record
<1>2. /\ t.kind = op.kind /\ t.st = "scan" /\ t.from = op.from /\ t.last = op.last
      /\ t.ids = op.ids /\ t.ckpt = op.ckpt /\ t.safe = op.safe
      /\ t.todo = op.todo \ {r}
  BY <1>1, TakenType
<1>3. t.frozen = op.frozen /\ t.gap = op.gap
  BY TakenType
<1>4. op.kind = "download" => k = key[r]
  BY DEF KeyOf
<1>5. op.kind = "download" =>
        /\ r \in 1..next /\ op.last <= next /\ op.ckpt <= next /\ op.safe <= next
        /\ ~overlap =>
            /\ op.safe # None => Cov(op.safe, live, key, handled)
            /\ op.ckpt # None => Cov(op.ckpt, live, key, handled \cup batch)
  BY <1>1 DEF IInv1, Bounded, Reached1, Progress1, Fetching, Record, TypeOK, Ops
<1>6. handled \subseteq 1..next /\ batch \subseteq 1..next /\ (op.kind # "download" => batch = {})
  BY DEF IInv1, Bounded, Quiet
<1>7. op.kind = "download" /\ id > 0 => id = r
  BY <1>1, <1>4, OwnId
<1> HIDE DEF k, t, id
<1> DEFINE kept(o) == /\ o \in Ops
                      /\ o.kind = op.kind /\ o.st = "scan" /\ o.from = op.from /\ o.last = op.last
                      /\ o.ids = op.ids /\ o.safe = op.safe
                      /\ o.todo = op.todo \ {r}
\* The chunk is lost: nothing but what is safe counts.
<1>8. ASSUME NEW o \in Ops, kept(o), o.ckpt = op.safe, o.frozen \/ o.gap, op' = o, RollbackTx
      PROVE  IInv1'
  <2>1. handled' = handled /\ batch' = {}
    BY <1>8 DEF RollbackTx, fileVars
  <2>2. op.kind = "download" /\ ~overlap /\ op.safe # None => Cov(op.safe, live, key, handled)
    BY <1>5
  <2>3. op'.st # "final"
    BY <1>8
  <2> QED BY <1>0, <1>1, <1>5, <1>6, <1>8, <2>1, <2>2, <2>3, ScanStep
\* The record is taken without a link.
<1>9. ASSUME NEW o \in Ops, kept(o), o.ckpt = op.ckpt, op' = o, UNCHANGED <<handled, batch>>,
             o.gap \/ op.kind # "download"
      PROVE  IInv1'
  BY <1>0, <1>1, <1>5, <1>6, <1>9, ScanStep
\* The record is invalid, or linked by the open transaction.
<1>10. ASSUME NEW o \in Ops, kept(o), op.kind = "download",
              o.ckpt = IF id > 0 /\ ~op.frozen /\ ~op.gap THEN id ELSE op.ckpt,
              o.frozen = op.frozen, o.gap = op.gap, op' = o, handled' = handled,
              \/ batch' = batch /\ key[r] \in InvalidKeys
              \/ batch' = batch \cup {r}
       PROVE  IInv1'
  <2>1. batch' \subseteq 1..next /\ batch \subseteq batch'
    BY <1>5, <1>6, <1>10
  <2>2. op'.ckpt <= next
    BY <1>0, <1>5, <1>7, <1>10
  <2>3. ~overlap /\ ~op.frozen /\ ~op.gap =>
          /\ Cov(r, live, key, handled \cup batch')
          /\ Cov(op.last, live \ op'.todo, key, handled \cup batch')
    BY <1>1, <1>10, <2>1, RecordInTurn
  <2>4. ~overlap /\ op.ckpt # None => Cov(op.ckpt, live, key, handled \cup batch')
    BY <1>5, <1>10, <2>1, CovMore
  <2>5. ~overlap /\ op'.ckpt # None => Cov(op'.ckpt, live, key, handled \cup batch')
    BY <1>7, <1>10, <2>3, <2>4
  <2>6. ~op'.frozen /\ ~op'.gap => ~op.frozen /\ ~op.gap
    BY <1>10
  <2> QED BY <1>0, <1>1, <1>5, <1>6, <1>10, <2>1, <2>2, <2>3, <2>5, <2>6, ScanStep
<1>11. CASE SkipInvalid(r)
  <2> DEFINE p == Passed(t, id)
             o == [p EXCEPT !.bad = p.bad + 1]
  <2>1. p \in Ops /\ kept(p) /\ p.frozen = op.frozen /\ p.gap = op.gap
        /\ p.ckpt = IF id > 0 /\ ~op.frozen /\ ~op.gap THEN id ELSE op.ckpt
    BY <1>0, <1>2, <1>3, PassedType
  <2>2. op' = o /\ k \in InvalidKeys /\ UNCHANGED <<handled, batch>>
    BY <1>11 DEF SkipInvalid, k, t, id, fileVars
  <2> HIDE DEF p
  <2>3. o \in Ops
    BY <1>0, <2>2
  <2>4. kept(o) /\ o.ckpt = p.ckpt
    BY <2>1, <2>3 DEF Ops
  <2>5. o.frozen = p.frozen /\ o.gap = p.gap
    BY <2>1 DEF Ops
  <2>6. CASE op.kind = "download"
    <3> HIDE DEF o
    <3> QED BY <1>4, <1>10, <2>1, <2>2, <2>3, <2>4, <2>5, <2>6
  <2>7. CASE op.kind # "download"
    <3>1. op'.st = "scan" /\ op'.kind = op.kind
      BY <2>2, <2>4
    <3> HIDE DEF o
    <3> QED BY <1>0, <1>1, <1>6, <2>2, <2>4, <2>7, <3>1, ScanStep
  <2> QED BY <2>6, <2>7
<1>12. CASE LinkRow(r)
  <2>0. op.kind = "download"
    BY <1>12 DEF LinkRow, Pulling
  <2>1. CASE /\ op' = Passed([t EXCEPT !.writes = @ + 1], id)
             /\ batch' = batch \cup {r} /\ UNCHANGED fileVars
    <3> DEFINE w == [t EXCEPT !.writes = @ + 1]
    <3>0. t.writes + 1 \in 0..ChunkSize
      BY <1>0, <1>1, TakenType, DownloadAssumption DEF Record, Full, TypeOK, Ops, t
    <3>1. w \in Ops /\ kept(w) /\ w.ckpt = op.ckpt
      BY <1>0, <1>2, <3>0 DEF Ops
    <3>2. w.frozen = op.frozen /\ w.gap = op.gap
      BY <1>0, <1>3 DEF Ops
    <3> DEFINE p == Passed(w, id)
    <3> HIDE DEF w
    <3>3. p \in Ops /\ kept(p) /\ p.frozen = op.frozen /\ p.gap = op.gap
          /\ p.ckpt = IF id > 0 /\ ~op.frozen /\ ~op.gap THEN id ELSE op.ckpt
      BY <1>0, <3>1, <3>2, PassedType
    <3>4. op' = p /\ handled' = handled /\ batch' = batch \cup {r}
      BY <2>1 DEF fileVars, w
    <3> HIDE DEF p
    <3> QED BY <1>10, <2>0, <3>3, <3>4
  <2>2. CASE op' = [Discarded(t) EXCEPT !.gap = TRUE] /\ RollbackTx
    <3> DEFINE d == Discarded(t)
               o == [d EXCEPT !.gap = TRUE]
    <3>1. d \in Ops /\ kept(d) /\ d.ckpt = op.safe
      BY <1>0, <1>2, DiscardedType
    <3> HIDE DEF d
    <3>2. o \in Ops /\ kept(o) /\ o.ckpt = op.safe
      BY <3>1 DEF Ops
    <3>3. o.gap
      BY <3>1 DEF Ops
    <3>4. op' = o
      BY <2>2 DEF d
    <3> HIDE DEF o
    <3> QED BY <1>8, <2>2, <3>2, <3>3, <3>4
  <2>3. CASE op' = [t EXCEPT !.gap = TRUE] /\ UNCHANGED <<fileVars, tx, batch>>
    <3> DEFINE o == [t EXCEPT !.gap = TRUE]
    <3>1. o \in Ops /\ kept(o) /\ o.ckpt = op.ckpt
      BY <1>0, <1>2 DEF Ops
    <3>2. o.gap
      BY <1>0 DEF Ops
    <3>3. op' = o /\ UNCHANGED <<handled, batch>>
      BY <2>3 DEF fileVars
    <3> HIDE DEF o
    <3> QED BY <1>9, <3>1, <3>2, <3>3
  <2> QED BY <1>12, <2>1, <2>2, <2>3 DEF LinkRow, k, t, id
<1>13. CASE SkipDuplicate(r)
  <2> DEFINE o == [t EXCEPT !.dup = @ + 1]
  <2>1. op' = o /\ op.kind # "download" /\ UNCHANGED <<handled, batch>>
    BY <1>13 DEF SkipDuplicate, Pulling, fileVars, t
  <2>2. o \in Ops
    BY <1>0, <2>1
  <2>3. kept(o) /\ o.ckpt = op.ckpt
    BY <1>0, <1>2, <2>2 DEF Ops
  <2> HIDE DEF o
  <2> QED BY <1>9, <2>1, <2>2, <2>3
<1>14. CASE InsertRow(r)
  <2> DEFINE i == IF Pulling THEN id ELSE 0
             w == [t EXCEPT !.writes = @ + 1, !.ins = @ + 1, !.cins = @ + 1]
             p == Passed(w, i)
             o == [p EXCEPT !.gap = p.gap \/ (Pulling /\ i = 0)]
  <2>0. t.writes + 1 \in 0..ChunkSize /\ t.ins + 1 \in Int /\ t.cins + 1 \in Nat
    BY <1>0, <1>1, TakenType, DownloadAssumption DEF Record, Full, TypeOK, Ops, t
  <2>1. w \in Ops /\ kept(w) /\ w.ckpt = op.ckpt
    BY <1>0, <1>2, <2>0 DEF Ops
  <2>2. w.frozen = op.frozen /\ w.gap = op.gap
    BY <1>0, <1>3 DEF Ops
  <2>3. i \in 0..MaxId
    BY <1>0, DownloadAssumption
  <2>4. op' = o /\ handled' = handled /\ batch' = IF i > 0 THEN batch \cup {r} ELSE batch
    BY <1>14 DEF InsertRow, fileVars, k, t, id
  <2> HIDE DEF w
  <2>5. p \in Ops /\ kept(p) /\ p.frozen = op.frozen /\ p.gap = op.gap
        /\ p.ckpt = IF i > 0 /\ ~op.frozen /\ ~op.gap THEN i ELSE op.ckpt
    BY <2>1, <2>2, <2>3, PassedType
  <2> HIDE DEF p
  <2>6. o \in Ops
    BY <1>0, <2>4
  <2>7. kept(o) /\ o.ckpt = p.ckpt
    BY <2>5, <2>6 DEF Ops
  <2>8. o.frozen = p.frozen /\ o.gap = (p.gap \/ (Pulling /\ i = 0))
    BY <2>5 DEF Ops
  <2> HIDE DEF o
  <2>9. CASE op.kind = "download" /\ i > 0
    <3>1. i = id /\ o.gap = op.gap
      BY <2>5, <2>8, <2>9, DownloadAssumption DEF Pulling, Ops
    <3> HIDE DEF i
    <3> QED BY <1>10, <2>4, <2>5, <2>6, <2>7, <2>8, <2>9, <3>1
  <2>10. CASE op.kind # "download" \/ i = 0
    <3>1. i = 0
      BY <2>10 DEF Pulling
    <3>2. o.gap \/ op.kind # "download"
      BY <2>8, <3>1 DEF Pulling
    <3>3. o.ckpt = op.ckpt /\ UNCHANGED <<handled, batch>>
      BY <2>4, <2>5, <2>7, <3>1
    <3> HIDE DEF i
    <3> QED BY <1>9, <2>4, <2>6, <2>7, <3>2, <3>3
  <2> QED BY <2>3, <2>9, <2>10
<1>15. CASE InsertFails(r)
  <2> DEFINE d == Discarded(t)
             o == [d EXCEPT !.frozen = TRUE, !.bad = @ + 1]
  <2>1. d \in Ops /\ kept(d) /\ d.ckpt = op.safe
    BY <1>0, <1>2, DiscardedType
  <2>2. op' = o /\ RollbackTx
    BY <1>15 DEF InsertFails, t
  <2> HIDE DEF d
  <2>3. o \in Ops
    BY <1>0, <2>2
  <2>4. kept(o) /\ o.ckpt = op.safe
    BY <2>1, <2>3 DEF Ops
  <2>5. o.frozen
    BY <2>1 DEF Ops
  <2> HIDE DEF o
  <2> QED BY <1>8, <2>2, <2>3, <2>4, <2>5
<1> QED BY <1>11, <1>12, <1>13, <1>14, <1>15

\* Once every record was taken without a failure, all read records are covered.
LEMMA AllTaken ==
  ASSUME IInv1, ~overlap, op.kind = "download", op.st = "final", Clean(op)
  PROVE  Cov(op.last, live, key, handled \cup batch)
<1>1. /\ op.todo = {}
      /\ Cov(op.last, live \ op.todo, key, handled \cup batch)
  BY DEF IInv1, Reached1, Progress1, Fetching, Clean
<1>2. live \ op.todo = live
  BY <1>1
<1> QED BY <1>1, <1>2

LEMMA ChunkStep ==
  ASSUME TypeOK, TypeOK', IInv1, CommitFull \/ BeginFails \/ StopScan \/ EndScan \/ Finish
  PROVE  IInv1'
<1> DEFINE c == Committed(op)
           d == Discarded(op)
           f == [Discarded(op) EXCEPT !.frozen = TRUE]
<1>0. op \in Ops /\ op' \in Ops /\ op.last \in 0..MaxId /\ op.from \in 0..MaxId
  BY DEF TypeOK, Ops
<1>1. OnlyOp /\ op.st \in {"scan", "final"}
  BY DEF CommitFull, BeginFails, StopScan, EndScan, Finish
<1>2. handled \subseteq 1..next /\ batch \subseteq 1..next /\ (op.kind # "download" => batch = {})
  BY DEF IInv1, Bounded, Quiet
<1>3. op.kind = "download" =>
        /\ op.last <= next /\ op.ckpt <= next /\ op.safe <= next /\ op.from <= next
        /\ ~overlap =>
            /\ Cov(op.from, live, key, handled)
            /\ op.safe # None => Cov(op.safe, live, key, handled)
            /\ op.ckpt # None => Cov(op.ckpt, live, key, handled \cup batch)
            /\ ~op.frozen /\ ~op.gap => Cov(op.last, live \ op.todo, key, handled \cup batch)
            /\ op.st = "final" /\ Clean(op) => op.todo = {}
  BY <1>1 DEF IInv1, Bounded, Reached1, Progress1, Fetching
<1>4. c \in Ops /\ c.kind = op.kind /\ c.st = op.st /\ c.from = op.from /\ c.last = op.last
      /\ c.ids = op.ids /\ c.todo = op.todo
      /\ c.ckpt = op.ckpt /\ c.safe = IF op.ckpt # None THEN op.ckpt ELSE op.safe
  BY <1>0, CommittedType
<1>5. c.frozen = op.frozen /\ c.gap = op.gap /\ c.cut = op.cut
  BY <1>0, CommittedType
<1>6. d \in Ops /\ d.kind = op.kind /\ d.st = op.st /\ d.from = op.from /\ d.last = op.last
      /\ d.ids = op.ids /\ d.todo = op.todo
      /\ d.ckpt = op.safe /\ d.safe = op.safe
  BY <1>0, DiscardedType
<1>7. f \in Ops /\ f.kind = op.kind /\ f.st = op.st /\ f.from = op.from /\ f.last = op.last
      /\ f.ids = op.ids /\ f.todo = op.todo
      /\ f.ckpt = op.safe /\ f.safe = op.safe
  <2> HIDE DEF d
  <2>1. f = [d EXCEPT !.frozen = TRUE]
    BY DEF d
  <2> QED BY <1>6, <2>1 DEF Ops
<1>8. f.frozen
  BY <1>6 DEF Ops
<1> HIDE DEF c, d, f
\* What a commit and a rollback leave of the chunk.
<1>9. CommitTx => handled' = handled \cup batch /\ batch' = {}
  BY DEF CommitTx
<1>10. RollbackTx => handled' = handled /\ batch' = {}
  BY DEF RollbackTx, fileVars
<1>11. CASE CommitFull
  <2>1. op.st = "scan"
    BY <1>11 DEF CommitFull
  <2>2. CASE op' = c /\ CommitTx
    <3>1. handled' = handled \cup batch /\ batch' = {} /\ handled' \cup batch' = handled \cup batch
      BY <1>9, <2>2
    <3>2. op'.safe # None => op'.ckpt = op'.safe \/ (op.ckpt = None /\ op'.safe = op.safe)
      BY <1>4, <2>2
    <3>3. op.kind = "download" /\ ~overlap /\ op.safe # None => Cov(op.safe, live, key, handled')
      BY <1>3, <3>1, CovMore
    <3>4. op.kind = "download" /\ ~overlap =>
            /\ op'.safe # None => Cov(op'.safe, live, key, handled')
            /\ op'.ckpt # None => Cov(op'.ckpt, live, key, handled' \cup batch')
            /\ ~op'.frozen /\ ~op'.gap => Cov(op.last, live \ op'.todo, key, handled' \cup batch')
      BY <1>3, <1>4, <1>5, <2>2, <3>1, <3>3
    <3> QED BY <1>0, <1>1, <1>2, <1>3, <1>4, <2>1, <2>2, <3>1, <3>4, ScanStep
  <2>3. CASE op' = f /\ RollbackTx
    BY <1>0, <1>1, <1>2, <1>3, <1>7, <1>8, <1>10, <2>1, <2>3, ScanStep
  <2> QED BY <1>11, <2>2, <2>3 DEF CommitFull, c, f
<1>12. CASE BeginFails
  <2>1. op'.frozen /\ UNCHANGED <<handled, batch>> /\ op.st = "scan"
    BY <1>0, <1>12 DEF BeginFails, fileVars, Ops
  <2>2. /\ op'.st = "final" /\ op'.kind = op.kind /\ op'.from = op.from /\ op'.last = op.last
        /\ op'.ids = op.ids /\ op'.todo = op.todo
        /\ op'.ckpt = op.ckpt /\ op'.safe = op.safe
    BY <1>0, <1>12 DEF BeginFails, Ops
  <2>3. ~Clean(op')
    BY <2>1 DEF Clean
  <2> QED BY <1>0, <1>1, <1>2, <1>3, <2>1, <2>2, <2>3, ScanStep
<1>13. CASE StopScan
  <2>1. CASE op' = Sent(c, "aborted", op.last) /\ CommitTx
    <3>1. handled' \subseteq 1..next /\ handled \subseteq handled' /\ batch' = {}
      BY <1>2, <1>9, <2>1
    <3> QED BY <1>0, <1>1, <1>3, <1>4, <2>1, <3>1, EndStep
  <2>2. CASE op' = Sent(d, "aborted", op.last) /\ RollbackTx
    <3>1. handled' \subseteq 1..next /\ handled \subseteq handled' /\ batch' = {}
      BY <1>2, <1>10, <2>2
    <3> QED BY <1>0, <1>1, <1>3, <1>6, <2>2, <3>1, EndStep
  <2> QED BY <1>13, <2>1, <2>2 DEF StopScan, c, d
<1>14. CASE EndScan
  <2>1. UNCHANGED <<handled, batch>>
    BY <1>14 DEF EndScan, fileVars
  <2>2. /\ op'.st = "final" /\ op'.kind = op.kind /\ op'.from = op.from /\ op'.last = op.last
        /\ op'.ids = op.ids /\ op'.todo = op.todo
        /\ op'.ckpt = op.ckpt /\ op'.safe = op.safe
    BY <1>0, <1>14 DEF EndScan, Ops
  <2>3. op'.frozen = op.frozen /\ op'.gap = op.gap
    BY <1>0, <1>14 DEF EndScan, Ops
  <2>4. Clean(op') => op.todo = {}
    BY <1>0, <1>14 DEF EndScan, Ops, Clean
  <2> QED BY <1>0, <1>1, <1>2, <1>3, <2>1, <2>2, <2>3, <2>4, ScanStep
<1>15. CASE Finish
  <2>0. op.st = "final" /\ OnlyOp
    BY <1>15 DEF Finish
  <2>1. CASE op' = Result(c) /\ CommitTx
    <3> DEFINE n == LastID(c)
    <3>0. n \in 0..MaxId
      BY <1>4, LastIDType
    <3>1. n = IF op.ckpt # None THEN op.ckpt ELSE IF Clean(c) THEN op.last ELSE op.from
      BY <1>4 DEF LastID
    <3>2. Clean(c) <=> Clean(op)
      BY <1>5 DEF Clean
    <3>3. handled' = handled \cup batch /\ batch' = {} /\ handled' \subseteq 1..next
      BY <1>2, <1>9, <2>1
    <3>4. op.kind = "download" /\ ~overlap => Cov(n, live, key, handled')
      <4>1. op.kind = "download" /\ ~overlap => Cov(op.from, live, key, handled')
        BY <1>3, <3>3, CovMore
      <4>2. op.kind = "download" /\ ~overlap /\ Clean(op) => Cov(op.last, live, key, handled')
        BY <2>0, <3>3, AllTaken
      <4> QED BY <1>3, <3>1, <3>2, <3>3, <4>1, <4>2
    <3>5. op.kind = "download" => n <= next
      BY <1>3, <3>1
    <3> HIDE DEF n
    <3>6. CASE op.kind = "download" /\ Clean(c)
      <4>1. op' = [c EXCEPT !.st = "mark", !.last = n]
        BY <1>4, <2>1, <3>6 DEF Result, n
      <4>2. /\ op'.kind = "download" /\ op'.st = "mark" /\ op'.last = n /\ op'.from = op.from
            /\ op'.ids = op.ids /\ op'.ckpt = c.ckpt /\ op'.safe = c.safe
        BY <1>4, <3>6, <4>1 DEF Ops
      <4>3. /\ key' = key /\ next' = next /\ live' = live /\ cursor' = cursor /\ known' = known
            /\ marker' = marker /\ purge' = purge
            /\ markedTo' = markedTo /\ cleared' = cleared /\ overlap' = overlap
        BY <2>0 DEF OnlyOp, serverVars, histVars
      <4>4. c.ckpt <= next /\ c.safe <= next
        BY <1>3, <1>4, <3>6
      <4>5. Bounded'
        BY <1>3, <3>3, <3>5, <3>6, <4>2, <4>3, <4>4 DEF IInv1, Bounded, Fetching
      <4>6. Unique'
        BY <4>2, <4>3 DEF IInv1, Unique
      <4>7. Quiet'
        BY <2>0, <3>3, <4>2, <4>3 DEF IInv1, Quiet
      <4>8. ~overlap => Reached1'
        <5>1. Progress1'
          BY <4>2 DEF Progress1, Fetching
        <5> QED BY <3>3, <3>4, <3>6, <4>2, <4>3, <5>1, CovMore DEF IInv1, Reached1
      <4> QED BY <4>3, <4>5, <4>6, <4>7, <4>8 DEF IInv1
    <3>7. CASE ~(op.kind = "download" /\ Clean(c))
      <4>1. PICK res \in {"done", "error"} : op' = Sent(c, res, n)
        BY <1>4, <2>1, <3>7 DEF Result, n
      <4> QED BY <1>1, <1>4, <2>0, <3>0, <3>3, <3>4, <3>5, <4>1, EndStep
    <3> QED BY <3>6, <3>7
  <2>2. CASE op' = Result(f) /\ RollbackTx
    <3> DEFINE n == LastID(f)
    <3>0. n \in 0..MaxId
      BY <1>7, LastIDType
    <3>1. ~Clean(f)
      BY <1>8 DEF Clean
    <3>2. n = IF op.safe # None THEN op.safe ELSE op.from
      BY <1>7, <3>1 DEF LastID
    <3>3. PICK res \in {"done", "error"} : op' = Sent(f, res, n)
      BY <2>2, <3>1 DEF Result
    <3> HIDE DEF n
    <3>4. handled' = handled /\ batch' = {} /\ handled' \subseteq 1..next
      BY <1>2, <1>10, <2>2
    <3>5. op.kind = "download" => n <= next /\ (~overlap => Cov(n, live, key, handled'))
      BY <1>3, <3>2, <3>4
    <3> QED BY <1>1, <1>7, <2>0, <3>0, <3>3, <3>4, <3>5, EndStep
  <2> QED BY <1>15, <2>1, <2>2 DEF Finish, c, f
<1> QED BY <1>11, <1>12, <1>13, <1>14, <1>15

LEMMA FetchStep ==
  ASSUME TypeOK, TypeOK', IInv1, FetchPage \/ FetchFails \/ FetchIds
  PROVE  IInv1'
<1>0. op \in Ops /\ op' \in Ops /\ op.last \in 0..MaxId /\ live \subseteq Ids /\ next \in 0..MaxId
      /\ live \subseteq 1..next
  BY LiveType DEF TypeOK, Ops
<1>1. OnlyOp /\ UNCHANGED <<handled, batch>> /\ op.st \in {"pages", "list"}
  BY DEF FetchPage, FetchFails, FetchIds, fileVars
<1>2. /\ key' = key /\ next' = next /\ live' = live /\ cursor' = cursor /\ known' = known
      /\ marker' = marker /\ purge' = purge
      /\ markedTo' = markedTo /\ cleared' = cleared /\ overlap' = overlap
  BY <1>1 DEF OnlyOp, serverVars, histVars
<1>3. batch = {} /\ handled \subseteq 1..next /\ op.ckpt = None /\ op.safe = None
      /\ ~op.frozen /\ ~op.gap
  BY <1>1 DEF IInv1, Bounded, Quiet
<1>4. op.kind = "download" =>
        /\ op.last <= next /\ op.from <= next /\ op.todo \subseteq 1..op.last
        /\ ~overlap => /\ Cov(op.from, live, key, handled)
                       /\ Cov(op.last, live \ op.todo, key, handled)
  <2>1. handled \cup batch = handled
    BY <1>3
  <2> QED BY <1>1, <1>3, <2>1 DEF IInv1, Bounded, Reached1, Progress1, Fetching
\* The operation goes on: what it has read so far is covered or on its list.
<1>5. ASSUME op'.st \in {"pages", "list", "scan"}, op'.kind = op.kind, op'.from = op.from,
             op'.ckpt = None, op'.safe = None, ~op'.frozen, ~op'.gap,
             \A k \in Keys : op'.ids[k] # 0 => op'.ids[k] <= next /\ key[op'.ids[k]] = k,
             op.kind = "download" =>
                /\ op'.last <= next /\ op'.todo \subseteq 1..op'.last
                /\ ~overlap => Cov(op'.last, live \ op'.todo, key, handled)
      PROVE  IInv1'
  <2>1. Bounded'
    BY <1>0, <1>1, <1>2, <1>4, <1>5 DEF IInv1, Bounded, Fetching, None
  <2>2. Unique'
    BY <1>2, <1>5 DEF IInv1, Unique
  <2>3. Quiet'
    BY <1>1, <1>2, <1>3, <1>5 DEF IInv1, Quiet
  <2>4. ~overlap => Progress1'
    <3>1. handled' \cup batch' = handled
      BY <1>1, <1>3
    <3>2. Fetching' => op.kind = "download"
      BY <1>5 DEF Fetching
    <3> QED BY <1>1, <1>2, <1>4, <1>5, <3>1, <3>2 DEF Progress1
  <2>5. ~overlap => Reached1'
    BY <1>1, <1>2, <1>5, <2>4 DEF IInv1, Reached1
  <2> QED BY <1>2, <2>1, <2>2, <2>3, <2>5 DEF IInv1
\* The operation ends.
<1>6. ASSUME NEW res \in {"done", "aborted", "error"}, op' = Sent(op, res, op.last),
             res = "done" => op.todo = {}
      PROVE  IInv1'
  <2>1. op.todo = {} => live \ op.todo = live
    OBVIOUS
  <2>2. batch' = {} /\ handled' = handled
    BY <1>1, <1>3
  <2>3. ~overlap /\ op.kind = "download" /\ res = "done" => Cov(op.last, live, key, handled')
    BY <1>4, <1>6, <2>1, <2>2
  <2>4. op.last <= next \/ op.kind # "download"
    BY <1>4
  <2>5. op.st # "idle" /\ handled \subseteq handled' /\ handled' \subseteq 1..next
    BY <1>1, <1>3, <2>2
  <2> QED BY <1>0, <1>1, <1>6, <2>2, <2>3, <2>4, <2>5, EndStep
<1>7. CASE FetchPage
  <2> DEFINE new == {r \in live : r > op.last}
  <2>0. op.st = "pages"
    BY <1>7 DEF FetchPage
  <2>1. CASE new = {} /\ op.todo = {} /\ op' = Sent(op, "done", op.last)
    BY <1>6, <2>1
  <2>2. CASE op' = [op EXCEPT !.st = "list"]
    <3>1. /\ op'.st = "list" /\ op'.kind = op.kind /\ op'.from = op.from /\ op'.ids = op.ids
          /\ op'.ckpt = None /\ op'.safe = None /\ op'.last = op.last /\ op'.todo = op.todo
      BY <1>0, <1>3, <2>2 DEF Ops
    <3>2. ~op'.frozen /\ ~op'.gap
      BY <1>0, <1>3, <2>2 DEF Ops
    <3>3. \A k \in Keys : op'.ids[k] # 0 => op'.ids[k] <= next /\ key[op'.ids[k]] = k
      BY <3>1 DEF IInv1, Unique
    <3> QED BY <1>4, <1>5, <3>1, <3>2, <3>3
  <2>3. CASE \E last \in new :
                op' = [op EXCEPT !.todo = @ \cup {r \in new : r <= last}, !.last = last,
                          !.st = IF \A r \in new : r <= last THEN "list" ELSE "pages"]
    <3>1. PICK last \in new :
              op' = [op EXCEPT !.todo = @ \cup {r \in new : r <= last}, !.last = last,
                        !.st = IF \A r \in new : r <= last THEN "list" ELSE "pages"]
      BY <2>3
    <3> DEFINE read == op.todo \cup {r \in new : r <= last}
               st == IF \A r \in new : r <= last THEN "list" ELSE "pages"
    <3>2. op' = [op EXCEPT !.todo = read, !.last = last, !.st = st] /\ st \in {"list", "pages"}
      BY <3>1
    <3>3. op.kind = "download" => read \subseteq 1..last
      <4>1. last \in Ids /\ last > op.last /\ new \subseteq Ids
        BY <1>0
      <4> QED BY <1>0, <1>4, <4>1 DEF Ids
    <3>4. last <= next /\ last \in 1..next
      BY <1>0
    <3>5. op.kind = "download" /\ ~overlap => Cov(last, live \ read, key, handled)
      <4> SUFFICES ASSUME op.kind = "download", ~overlap,
                          NEW r \in live \ read, r <= last
                   PROVE  key[r] \in InvalidKeys \/ \E s \in handled : key[s] = key[r]
        BY DEF Cov
      <4>1. r \in Int /\ r <= op.last /\ r \in live \ op.todo
        BY <1>0 DEF Ids
      <4> QED BY <1>4, <4>1 DEF Cov
    <3> HIDE DEF read, st
    <3>6. /\ op'.st \in {"list", "pages"} /\ op'.kind = op.kind /\ op'.from = op.from /\ op'.ids = op.ids
          /\ op'.ckpt = None /\ op'.safe = None /\ op'.last = last /\ op'.todo = read
      BY <1>0, <1>3, <3>2 DEF Ops
    <3>7. ~op'.frozen /\ ~op'.gap
      BY <1>0, <1>3, <3>2 DEF Ops
    <3>8. \A k \in Keys : op'.ids[k] # 0 => op'.ids[k] <= next /\ key[op'.ids[k]] = k
      BY <3>6 DEF IInv1, Unique
    <3> QED BY <1>5, <3>3, <3>4, <3>5, <3>6, <3>7, <3>8
  <2> QED BY <1>7, <2>1, <2>2, <2>3 DEF FetchPage
<1>8. CASE FetchFails
  <2>1. PICK res \in {"aborted", "error"} : op' = Sent(op, res, op.last)
    BY <1>8 DEF FetchFails
  <2> QED BY <1>6, <2>1
<1>9. CASE FetchIds
  <2>1. /\ op'.st = "scan" /\ op'.kind = op.kind /\ op'.from = op.from
        /\ op'.ckpt = None /\ op'.safe = None /\ op'.last = op.last /\ op'.todo = op.todo
    BY <1>0, <1>3, <1>9 DEF FetchIds, Ops
  <2>2. ~op'.frozen /\ ~op'.gap
    BY <1>0, <1>3, <1>9 DEF FetchIds, Ops
  <2>3. op'.ids = op.ids \/ op'.ids = [k \in Keys |-> IdOf(k)]
    BY <1>0, <1>9 DEF FetchIds, Ops
  <2>4. \A k \in Keys : op'.ids[k] # 0 => op'.ids[k] <= next /\ key[op'.ids[k]] = k
    <3>1. CASE op'.ids = op.ids
      BY <3>1 DEF IInv1, Unique
    <3>2. CASE op'.ids = [k \in Keys |-> IdOf(k)]
      <4> SUFFICES ASSUME NEW k \in Keys, op'.ids[k] # 0
                   PROVE  op'.ids[k] <= next /\ key[op'.ids[k]] = k
        OBVIOUS
      <4>1. op'.ids[k] = IdOf(k)
        BY <3>2
      <4>2. IdOf(k) \in live /\ key[IdOf(k)] = k
        BY <4>1, IdOfType
      <4>3. \A n \in live : n <= next
        <5> SUFFICES ASSUME NEW n \in live PROVE n <= next
          OBVIOUS
        <5>1. n \in 1..next
          BY <1>0
        <5> QED BY <5>1, <1>0, DownloadAssumption
      <4>4. IdOf(k) <= next
        BY <4>2, <4>3
      <4> QED BY <4>1, <4>2, <4>4
    <3> QED BY <2>3, <3>1, <3>2
  <2> QED BY <1>4, <1>5, <2>1, <2>2, <2>4
<1> QED BY <1>7, <1>8, <1>9

LEMMA StartStep ==
  ASSUME TypeOK, TypeOK', IInv1, StartDownload \/ StartImport
  PROVE  IInv1'
<1>0. op' \in Ops /\ 1..next \subseteq Ids /\ op.st = "idle"
  BY LiveType DEF TypeOK, StartDownload, StartImport
<1>1. /\ key' = key /\ next' = next /\ live' = live /\ cursor' = cursor /\ known' = known
      /\ marker' = marker /\ purge' = purge /\ handled' = handled /\ batch' = batch
      /\ markedTo' = markedTo /\ cleared' = cleared
      /\ overlap' = (overlap \/ purge.st = "running")
  BY DEF StartDownload, StartImport, serverVars
<1>2. batch = {}
  BY <1>0 DEF IInv1, Quiet
<1>3. overlap \in BOOLEAN /\ overlap' \in BOOLEAN
  BY DEF TypeOK
<1>4. op'.st \in {"pages", "scan"} /\ op'.ids = [k \in Keys |-> 0]
  BY DEF StartDownload, StartImport, Idle
<1>5. CASE StartDownload
  <2>1. /\ op'.kind = "download" /\ op'.st = "pages" /\ op'.from = known /\ op'.last = known
        /\ op'.todo = {} /\ op'.ckpt = None /\ op'.safe = None
    BY <1>5 DEF StartDownload, Idle
  <2>2. ~op'.frozen /\ ~op'.gap
    BY <1>5 DEF StartDownload, Idle
  <2>3. Bounded'
    BY <1>1, <2>1 DEF IInv1, Bounded, TypeOK, None
  <2>4. Unique'
    BY <1>1, <1>4 DEF IInv1, Unique
  <2>5. Quiet'
    BY <1>1, <1>2, <2>1, <2>2 DEF IInv1, Quiet
  <2>6. ~overlap' => Reached1'
    <3> SUFFICES ASSUME ~overlap' PROVE Reached1'
      OBVIOUS
    <3>1. ~overlap
      BY <1>1
    <3>2. handled' \cup batch' = handled /\ live' \ op'.todo = live
      BY <1>1, <1>2, <2>1
    <3>3. Cov(known, live, key, handled)
      BY <3>1 DEF IInv1, Reached1
    <3>4. Progress1'
      BY <1>1, <2>1, <3>2, <3>3 DEF Progress1
    <3> QED BY <1>1, <2>1, <3>1, <3>4 DEF IInv1, Reached1
  <2> QED BY <2>3, <2>4, <2>5, <2>6 DEF IInv1
<1>6. CASE StartImport
  <2>1. op'.kind = "import" /\ op'.st = "scan"
    BY <1>6 DEF StartImport, Idle
  <2>2. Bounded'
    BY <1>1, <2>1 DEF IInv1, Bounded, Fetching
  <2>3. Unique'
    BY <1>1, <1>4 DEF IInv1, Unique
  <2>4. Quiet'
    BY <1>1, <1>2, <2>1 DEF IInv1, Quiet
  <2>5. Progress1'
    BY <2>1 DEF Progress1, Fetching
  <2>6. ~overlap' => Reached1'
    BY <1>1, <2>1, <2>5 DEF IInv1, Reached1
  <2> QED BY <2>2, <2>3, <2>4, <2>6 DEF IInv1
<1> QED BY <1>5, <1>6

\* The server's steps: new records come after everything read so far.
LEMMA RemoteStep ==
  ASSUME TypeOK, TypeOK', IInv1, ~Uses("duplicates"),
         (\E k \in Keys : RemoteLog(k)) \/ (\E r \in Ids : RemoteDelete(r))
  PROVE  IInv1'
<1>1. /\ op' = op /\ cursor' = cursor /\ known' = known /\ marker' = marker /\ purge' = purge
      /\ handled' = handled /\ batch' = batch
      /\ markedTo' = markedTo /\ cleared' = cleared /\ overlap' = overlap
  BY DEF RemoteLog, RemoteDelete, fileVars, histVars
<1>2. /\ next \in Nat /\ next' \in Nat /\ next <= next' /\ live \subseteq 1..next
      /\ \A r \in 1..next : key'[r] = key[r]
      /\ \A r \in live' : r \in Int /\ (r \in live \/ r > next)
  <2>1. CASE \E k \in Keys : RemoteLog(k)
    <3>1. PICK k \in Keys : RemoteLog(k)
      BY <2>1
    <3>2. next \in 0..MaxId /\ 1..next \subseteq Ids
      BY DownloadAssumption DEF TypeOK, Ids
    <3>3. \A r \in 1..next : key'[r] = key[r]
      BY <3>1, <3>2 DEF RemoteLog, TypeOK
    <3> QED BY <3>1, <3>2, <3>3, DownloadAssumption DEF RemoteLog, TypeOK
  <2>2. CASE \E r \in Ids : RemoteDelete(r)
    BY <2>2, DownloadAssumption DEF RemoteDelete, TypeOK
  <2> QED BY <2>1, <2>2
<1>3. Unique'
  <2>1. CASE \E k \in Keys : RemoteLog(k)
    <3>1. PICK k \in Keys : RemoteLog(k)
      BY <2>1
    <3>2. next' = next + 1 /\ key'[next + 1] = k /\ \A r \in 1..next : key[r] # k
      BY <3>1, DownloadAssumption DEF RemoteLog, TypeOK, Ids
    <3>3. \A r, s \in 1..next' : key'[r] = key'[s] => r = s
      <4>1. \A r \in 1..next' : r \in 1..next \/ r = next + 1
        BY <1>2, <3>2
      <4> QED BY <1>2, <3>2, <4>1 DEF IInv1, Unique
    <3>4. \A q \in Keys : op'.ids[q] # 0 => op'.ids[q] <= next' /\ key'[op'.ids[q]] = q
      <4> SUFFICES ASSUME NEW q \in Keys, op.ids[q] # 0
                   PROVE  op.ids[q] <= next' /\ key'[op.ids[q]] = q
        BY <1>1
      <4>1. op.ids[q] \in 0..MaxId
        BY DEF TypeOK, Ops
      <4>2. op.ids[q] \in 1..next /\ key[op.ids[q]] = q
        BY <1>2, <4>1, DownloadAssumption DEF IInv1, Unique
      <4> QED BY <1>2, <4>2
    <3> QED BY <3>3, <3>4 DEF Unique
  <2>2. CASE \E r \in Ids : RemoteDelete(r)
    BY <1>1, <2>2 DEF RemoteDelete, IInv1, Unique
  <2> QED BY <2>1, <2>2
<1>4. Bounded'
  <2>1. 1..next \subseteq 1..next'
    BY <1>2
  <2>2. cursor \in Int /\ known \in Int /\ markedTo \in Int
    BY DownloadAssumption DEF TypeOK
  <2>3. op.last \in Int /\ op.from \in Int
    BY DownloadAssumption DEF TypeOK, Ops
  <2>4. op.ckpt \in Int /\ op.safe \in Int
    <3>1. op.ckpt \in {None} \cup Ids /\ op.safe \in {None} \cup Ids
      BY DEF TypeOK, Ops
    <3> QED BY <3>1 DEF None, Ids
  <2> QED BY <1>1, <1>2, <2>1, <2>2, <2>3, <2>4 DEF IInv1, Bounded, Fetching
<1>5. Quiet'
  BY <1>1 DEF IInv1, Quiet
\* What was covered up to n stays so, with or without the records on the list.
<1>6. ASSUME NEW n \in Int, n <= next, NEW out, NEW hd, hd \subseteq 1..next,
             Cov(n, live \ out, key, hd)
      PROVE  Cov(n, live' \ out, key', hd)
  <2>1. live \ out \subseteq 1..next
    BY <1>2
  <2>2. \A r \in live' \ out : r \in Int /\ (r \in live \ out \/ r > next)
    BY <1>2
  <2> QED BY <1>2, <1>6, <2>1, <2>2, CovKept
<1>7. ASSUME NEW n \in Int, n <= next, NEW hd, hd \subseteq 1..next, Cov(n, live, key, hd)
      PROVE  Cov(n, live', key', hd)
  BY <1>2, <1>7, CovKept
<1>8. /\ cursor \in Int /\ known \in Int /\ markedTo \in Int /\ op.last \in Int /\ op.from \in Int
  BY DownloadAssumption DEF TypeOK, Ops
<1>9. op.ckpt \in Int /\ op.safe \in Int
  <2>1. op.ckpt \in {None} \cup Ids /\ op.safe \in {None} \cup Ids
    BY DEF TypeOK, Ops
  <2> QED BY <2>1 DEF None, Ids
<1>10. /\ handled \subseteq 1..next /\ handled \cup batch \subseteq 1..next
       /\ cursor <= next /\ known <= next /\ markedTo <= next
       /\ op.kind = "download" => op.last <= next /\ op.from <= next /\ op.ckpt <= next /\ op.safe <= next
  BY DEF IInv1, Bounded
<1>11. ~overlap => Progress1'
  <2> SUFFICES ASSUME ~overlap, Fetching PROVE Progress1'
    BY <1>1 DEF Progress1, Fetching
  <2>1. Progress1 /\ op.kind = "download"
    BY DEF IInv1, Reached1, Fetching
  <2>2. Cov(op.from, live', key', handled)
    BY <1>7, <1>8, <1>10, <2>1 DEF Progress1
  <2>3. op.safe # None => Cov(op.safe, live', key', handled)
    BY <1>7, <1>9, <1>10, <2>1 DEF Progress1
  <2>4. op.ckpt # None => Cov(op.ckpt, live', key', handled \cup batch)
    BY <1>7, <1>9, <1>10, <2>1 DEF Progress1
  <2>5. ~op.frozen /\ ~op.gap => Cov(op.last, live' \ op.todo, key', handled \cup batch)
    BY <1>6, <1>8, <1>10, <2>1 DEF Progress1
  <2>6. op.st = "final" /\ Clean(op) => op.todo = {}
    BY <2>1 DEF Progress1
  <2> QED BY <1>1, <2>2, <2>3, <2>4, <2>5, <2>6 DEF Progress1
<1>12. ~overlap => Reached1'
  <2> SUFFICES ASSUME ~overlap PROVE Reached1'
    OBVIOUS
  <2>1. Reached1
    BY DEF IInv1
  <2>2. Cov(known, live', key', handled)
    BY <1>7, <1>8, <1>10, <2>1 DEF Reached1
  <2>3. purge.st # "done" => Cov(cursor, live', key', handled)
    BY <1>7, <1>8, <1>10, <2>1 DEF Reached1
  <2>4. marker /\ ~cleared => Cov(markedTo, live', key', handled)
    BY <1>7, <1>8, <1>10, <2>1 DEF Reached1
  <2>5. op.kind = "download" /\ (op.st = "mark" \/ (op.st = "sent" /\ op.res = "done"))
            => Cov(op.last, live', key', handled)
    BY <1>7, <1>8, <1>10, <2>1 DEF Reached1
  <2> QED BY <1>1, <1>11, <2>2, <2>3, <2>4, <2>5 DEF Reached1
<1> QED BY <1>1, <1>3, <1>4, <1>5, <1>12 DEF IInv1

\* The owner loop, the purge and the operator.
LEMMA LocalStep ==
  ASSUME TypeOK, TypeOK', IInv1,
         \/ \E k \in Keys : LocalLog(k)
         \/ OpenEditor \/ Abort \/ ConfirmPurge \/ RunPurge \/ PurgeDone
         \/ Mark \/ Deliver \/ Crash
  PROVE  IInv1'
<1>0. live \subseteq Ids /\ next \in Nat /\ overlap \in BOOLEAN /\ overlap' \in BOOLEAN
  BY LiveType, DownloadAssumption DEF TypeOK
<1>1. Cov(0, live, key, handled) /\ Cov(0, live, key, {})
  BY <1>0, CovZero
<1>2. CASE \E k \in Keys : LocalLog(k)
  <2>1. /\ UNCHANGED <<serverVars, cursor, known, marker, op, purge>>
        /\ UNCHANGED <<handled, batch, markedTo, cleared, overlap>>
    BY <1>2 DEF LocalLog, histVars
  <2> QED BY <2>1 DEF IInv1, Bounded, Unique, Quiet, Reached1, Progress1, Fetching, Clean, serverVars
<1>3. CASE OpenEditor
  <2>1. UNCHANGED <<key, next, live, cursor, marker, op, handled, batch, markedTo, cleared>>
    BY <1>3 DEF OpenEditor, serverVars, fileVars
  <2>2. known' = cursor /\ op.st = "idle" /\ purge'.st = purge.st
        /\ overlap' = (overlap \/ purge.st # "idle")
    BY <1>3 DEF OpenEditor, TypeOK
  <2>3. Bounded' /\ Unique'
    BY <2>1, <2>2 DEF IInv1, Bounded, Unique, Fetching
  <2>4. Quiet'
    BY <2>1, <2>2 DEF IInv1, Quiet
  <2>5. Progress1'
    BY <2>1, <2>2 DEF Progress1, Fetching
  <2>6. ~overlap' => Reached1'
    BY <1>0, <2>1, <2>2, <2>5 DEF IInv1, Reached1
  <2> QED BY <2>3, <2>4, <2>6 DEF IInv1
<1>4. CASE Abort
  <2>1. UNCHANGED <<key, next, live, cursor, known, marker, purge, handled, batch, markedTo, cleared, overlap>>
    BY <1>4 DEF Abort, serverVars, fileVars, histVars
  <2>2. /\ op'.kind = op.kind /\ op'.st = op.st /\ op'.from = op.from /\ op'.last = op.last
        /\ op'.ids = op.ids /\ op'.ckpt = op.ckpt /\ op'.safe = op.safe /\ op'.todo = op.todo
        /\ op'.res = op.res
    BY <1>4 DEF Abort, TypeOK, Ops
  <2>3. op'.frozen = op.frozen /\ op'.gap = op.gap /\ op'.cut = op.cut
    BY <1>4 DEF Abort, TypeOK, Ops
  <2>4. Bounded' /\ Unique' /\ Quiet'
    BY <2>1, <2>2, <2>3 DEF IInv1, Bounded, Unique, Quiet, Fetching
  <2>5. Progress1 => Progress1'
    BY <2>1, <2>2, <2>3 DEF Progress1, Fetching, Clean
  <2>6. ~overlap => Reached1'
    BY <2>1, <2>2, <2>5 DEF IInv1, Reached1
  <2> QED BY <2>1, <2>4, <2>6 DEF IInv1
<1>5. CASE ConfirmPurge
  <2>1. UNCHANGED <<key, next, live, cursor, marker, op, handled, batch, markedTo, cleared, overlap>>
    BY <1>5 DEF ConfirmPurge, serverVars, fileVars, histVars
  <2>2. known' = 0 /\ op.st = "idle" /\ purge.st = "idle" /\ purge'.st = "running"
    BY <1>5 DEF ConfirmPurge
  <2>3. Bounded' /\ Unique' /\ Quiet'
    BY <1>0, <2>1, <2>2 DEF IInv1, Bounded, Unique, Quiet, Fetching
  <2>4. Progress1'
    BY <2>1, <2>2 DEF Progress1, Fetching
  <2>5. ~overlap => Reached1'
    BY <1>1, <2>1, <2>2, <2>4 DEF IInv1, Reached1
  <2> QED BY <2>1, <2>3, <2>5 DEF IInv1
<1>6. CASE RunPurge
  <2>1. UNCHANGED <<key, next, live, cursor, known, marker, op, batch, markedTo, overlap>>
    BY <1>6 DEF RunPurge, serverVars
  <2>2. purge.st = "running" /\ purge'.st = "done"
    BY <1>6 DEF RunPurge, TypeOK
  <2>3. \/ handled' = {} /\ cleared' = TRUE
        \/ handled' = handled /\ cleared' = cleared
    BY <1>6 DEF RunPurge
  <2>4. ~overlap => known = 0 /\ op.st = "idle"
    BY <2>2 DEF IInv1, Quiet
  <2>5. Bounded' /\ Unique' /\ Quiet'
    BY <2>1, <2>2, <2>3 DEF IInv1, Bounded, Unique, Quiet, Fetching
  <2>6. ~overlap => Progress1'
    BY <2>1, <2>4 DEF Progress1, Fetching
  <2>7. ~overlap => Reached1'
    BY <1>1, <2>1, <2>2, <2>3, <2>4, <2>6 DEF IInv1, Reached1
  <2> QED BY <2>1, <2>5, <2>7 DEF IInv1
<1>7. CASE PurgeDone
  <2>1. UNCHANGED <<key, next, live, marker, op, handled, batch, markedTo, cleared, overlap>>
    BY <1>7 DEF PurgeDone, serverVars, fileVars, histVars
  <2>2. cursor' = 0 /\ (known' = 0 \/ known' = known) /\ purge'.st = "idle"
    BY <1>7 DEF PurgeDone, TypeOK
  <2>3. Bounded' /\ Unique' /\ Quiet'
    BY <1>0, <2>1, <2>2 DEF IInv1, Bounded, Unique, Quiet, Fetching
  <2>4. Progress1 => Progress1'
    BY <2>1 DEF Progress1, Fetching, Clean
  <2>5. ~overlap => Reached1'
    BY <1>1, <2>1, <2>2, <2>4 DEF IInv1, Reached1
  <2> QED BY <2>1, <2>3, <2>5 DEF IInv1
<1>8. CASE Mark
  <2>1. UNCHANGED <<key, next, live, cursor, known, purge, handled, batch, overlap>> /\ op.st = "mark"
    BY <1>8 DEF Mark, serverVars, fileVars
  <2>2. op.kind = "download" /\ batch = {}
    BY <2>1 DEF IInv1, Quiet
  <2>3. op \in Ops /\ op.last \in 0..MaxId /\ op.last <= next
    BY <2>2 DEF IInv1, Bounded, TypeOK, Ops
  <2>4. op' = Sent(op, "done", op.last)
    BY <1>8 DEF Mark
  <2>5. /\ op'.kind = "download" /\ op'.st = "sent" /\ op'.last = op.last /\ op'.from = 0
        /\ op'.ckpt = None /\ op'.safe = None /\ op'.ids = [k \in Keys |-> 0]
    BY <2>2, <2>3, <2>4, SentType
  <2>6. \/ marker' = TRUE /\ markedTo' = op.last /\ cleared' = FALSE
        \/ marker' = marker /\ markedTo' = markedTo /\ cleared' = cleared
    BY <1>8 DEF Mark
  <2>7. Unique'
    BY <2>1, <2>5 DEF IInv1, Unique
  <2>11. Bounded'
    <3>1. markedTo' <= next /\ 0 <= next /\ None <= next
      BY <1>0, <2>3, <2>6 DEF IInv1, Bounded, None
    <3>2. op'.last <= next' /\ op'.from <= next' /\ op'.ckpt <= next' /\ op'.safe <= next'
      BY <2>1, <2>3, <2>5, <3>1
    <3>3. ~Fetching'
      BY <2>5 DEF Fetching
    <3>4. handled' \subseteq 1..next' /\ batch' \subseteq 1..next' /\ cursor' <= next' /\ known' <= next'
      BY <2>1 DEF IInv1, Bounded
    <3> QED BY <2>1, <3>1, <3>2, <3>3, <3>4 DEF Bounded
  <2>8. Quiet'
    BY <2>1, <2>2, <2>5 DEF IInv1, Quiet
  <2>9. Progress1'
    BY <2>5 DEF Progress1, Fetching
  <2>10. ~overlap => Reached1'
    <3> SUFFICES ASSUME ~overlap PROVE Reached1'
      BY <2>1
    <3>1. Reached1
      BY DEF IInv1
    <3>2. Cov(op.last, live, key, handled)
      BY <2>1, <2>2, <3>1 DEF Reached1
    <3>3. marker' /\ ~cleared' => Cov(markedTo', live, key, handled)
      BY <2>6, <3>1, <3>2 DEF Reached1
    <3> QED BY <2>1, <2>5, <2>9, <3>1, <3>2, <3>3 DEF Reached1
  <2> QED BY <2>1, <2>7, <2>8, <2>10, <2>11 DEF IInv1
<1>9. CASE Deliver
  <2>1. UNCHANGED <<key, next, live, marker, purge, handled, batch, markedTo, cleared, overlap>> /\ op.st = "sent"
    BY <1>9 DEF Deliver, serverVars, fileVars, histVars
  <2>2. /\ op'.kind = "none" /\ op'.st = "idle" /\ op'.ids = [k \in Keys |-> 0]
    BY <1>9 DEF Deliver, Idle
  <2>3. \/ op.kind = "download" /\ op.res = "done" /\ cursor' = op.last /\ known' = op.last
        \/ cursor' = cursor /\ known' = known
    BY <1>9 DEF Deliver, Pulling
  <2>4. Bounded' /\ Unique'
    BY <2>1, <2>2, <2>3 DEF IInv1, Bounded, Unique, Fetching
  <2>5. Quiet'
    BY <2>1, <2>2 DEF IInv1, Quiet
  <2>6. Progress1'
    BY <2>2 DEF Progress1, Fetching
  <2>7. ~overlap => Reached1'
    BY <2>1, <2>2, <2>3, <2>6 DEF IInv1, Reached1
  <2> QED BY <2>1, <2>4, <2>5, <2>7 DEF IInv1
<1>10. CASE Crash
  <2>1. UNCHANGED <<key, next, live, cursor, marker, handled, markedTo, cleared>>
    BY <1>10 DEF Crash, serverVars, fileVars
  <2>2. /\ op'.kind = "none" /\ op'.st = "idle" /\ op'.ids = [k \in Keys |-> 0]
    BY <1>10 DEF Crash, Idle
  <2>3. known' = cursor /\ batch' = {} /\ purge'.st = "idle"
        /\ overlap' = (overlap \/ purge.st = "done")
    BY <1>10 DEF Crash, TypeOK
  <2>4. Bounded' /\ Unique' /\ Quiet'
    BY <2>1, <2>2, <2>3 DEF IInv1, Bounded, Unique, Quiet, Fetching
  <2>5. Progress1'
    BY <2>2 DEF Progress1, Fetching
  <2>6. ~overlap' => Reached1'
    BY <1>0, <2>1, <2>2, <2>3, <2>5 DEF IInv1, Reached1
  <2> QED BY <2>4, <2>6 DEF IInv1
<1> QED BY <1>2, <1>3, <1>4, <1>5, <1>6, <1>7, <1>8, <1>9, <1>10

-----------------------------------------------------------------------------
(* The theorems.  A server that holds one identity under two ids is        *)
(* excluded: the list then gives the older record the newer id.            *)

LEMMA InvStep ==
  ASSUME TypeOK, IInv1, [Next]_vars, ~Uses("duplicates") PROVE IInv1'
<1>0. TypeOK'
  BY TypeStep
<1>1. CASE UNCHANGED vars
  BY <1>1 DEF vars, IInv1, Bounded, Unique, Quiet, Reached1, Progress1, Fetching, Clean
<1>2. CASE Next
  BY <1>0, <1>2, RecordStep, ChunkStep, FetchStep, StartStep, RemoteStep, LocalStep
     DEF Next, Step, Worker
<1> QED BY <1>1, <1>2

LEMMA InvInit == Init => IInv1
<1> SUFFICES ASSUME Init PROVE IInv1
  OBVIOUS
<1>1. op = Idle /\ key = [r \in Ids |-> AnyKey] /\ next = 0 /\ live = {} /\ batch = {} /\ handled = {}
      /\ cursor = 0 /\ known = 0 /\ markedTo = 0 /\ purge.st = "idle"
  BY DEF Init
<1>2. op.kind = "none" /\ op.st = "idle" /\ op.ids = [k \in Keys |-> 0]
  BY <1>1 DEF Idle
<1>3. Bounded /\ Unique /\ Quiet
  BY <1>1, <1>2 DEF Bounded, Unique, Quiet, Fetching
<1>4. Progress1
  BY <1>2 DEF Progress1, Fetching
<1>5. Reached1
  BY <1>1, <1>2, <1>4 DEF Reached1, Cov
<1> QED BY <1>3, <1>5 DEF IInv1

\* While the server holds every contact once, the cursor never passes a record
\* that was not durably handled, for any contacts, chunk size, faults and bounds.
THEOREM CursorHonest == ~Uses("duplicates") => (Spec => []NothingSkipped)
<1> SUFFICES ASSUME ~Uses("duplicates") PROVE Spec => []NothingSkipped
  OBVIOUS
<1>1. TypeOK /\ IInv1 /\ [Next]_vars => IInv1'
  BY InvStep
<1>2. IInv1 => NothingSkipped
  BY ReachedCov DEF IInv1, NothingSkipped, Reached
<1> QED BY <1>1, <1>2, InvInit, TypeCorrect, PTL DEF Spec

\* And the sync marker is only left over records that are all here.
THEOREM MarkerHonest == ~Uses("duplicates") => (Spec => []MarkerTruthful)
<1> SUFFICES ASSUME ~Uses("duplicates") PROVE Spec => []MarkerTruthful
  OBVIOUS
<1>1. TypeOK /\ IInv1 /\ [Next]_vars => IInv1'
  BY InvStep
<1>2. IInv1 => MarkerTruthful
  BY ReachedCov DEF IInv1, MarkerTruthful, Reached
<1> QED BY <1>1, <1>2, InvInit, TypeCorrect, PTL DEF Spec

-----------------------------------------------------------------------------
(* The number on the result screen.                                        *)

\* The rows the open transaction adds.
NewKeys == {k \in Keys : tx[k] # NoRow /\ local[k] = NoRow}

\* The count runs ahead of the committed rows by what the transaction adds.
Counts == op.cins = Cardinality(NewKeys) /\ op.ins = stored + op.cins

CountInv ==
    /\ op.st \notin {"scan", "final"} => tx = NoWrites
    /\ op.st # "idle" => Counts

\* How a step moves the count: not at all, back to the committed rows, or on.
LeavesCount == op'.ins = op.ins /\ op'.cins = op.cins /\ UNCHANGED <<tx, local, stored>>
SettlesCount ==
    /\ op'.cins = 0
    /\ \/ op'.ins = op.ins /\ CommitTx
       \/ op'.ins = op.ins - op.cins /\ RollbackTx

\* Without writes no row is new.
LEMMA NothingNew ==
  ASSUME tx = NoWrites
  PROVE  NewKeys = {} /\ Cardinality(NewKeys) = 0
<1>1. NewKeys = {}
  BY DEF NewKeys, NoWrites
<1> QED BY <1>1, FS_EmptySet

\* The count of what is new is a number.
LEMMA NewIsFinite == IsFiniteSet(NewKeys) /\ Cardinality(NewKeys) \in Nat
<1>1. NewKeys \in SUBSET Keys
  BY DEF NewKeys
<1>2. IsFiniteSet(NewKeys)
  BY <1>1, DownloadAssumption, FS_Subset
<1> QED BY <1>2, FS_CardinalityType

\* After a commit or a rollback the count is that of the committed rows.
LEMMA SettledCount ==
  ASSUME TypeOK, TypeOK', Counts, SettlesCount
  PROVE  Counts' /\ tx' = NoWrites
<1>1. tx' = NoWrites
  BY DEF SettlesCount, CommitTx, RollbackTx
<1>2. NewKeys' = {}
  BY <1>1 DEF NewKeys, NoWrites
<1>3. op.ins \in Int /\ op.cins \in Nat /\ stored \in Nat
  BY DEF TypeOK, Ops
<1>4. CASE op'.ins = op.ins /\ CommitTx
  <2>1. stored' = stored + op.cins
    BY <1>4 DEF CommitTx, Counts, NewKeys
  <2> QED BY <1>1, <1>2, <1>3, <1>4, <2>1, FS_EmptySet DEF Counts, SettlesCount
<1>5. CASE op'.ins = op.ins - op.cins /\ RollbackTx
  <2>1. stored' = stored
    BY <1>5 DEF RollbackTx, fileVars
  <2> QED BY <1>1, <1>2, <1>3, <1>5, <2>1, FS_EmptySet DEF Counts, SettlesCount
<1> QED BY <1>4, <1>5 DEF SettlesCount

\* The counts of a message, of a lost and of a committed chunk.
LEMMA SentCounts ==
  ASSUME NEW o \in Ops, NEW res, NEW last
  PROVE  /\ Sent(o, res, last).ins = o.ins /\ Sent(o, res, last).cins = 0
         /\ Sent(o, res, last).st = "sent"
  BY IdleType DEF Sent, Ops, Idle

\* A lost chunk takes its rows off the count.
LEMMA DiscardedCounts ==
  ASSUME NEW o \in Ops
  PROVE  Discarded(o).ins = o.ins - o.cins /\ Discarded(o).cins = 0
  BY DEF Discarded, Ops

\* A committed one keeps them.
LEMMA CommittedCounts ==
  ASSUME NEW o \in Ops
  PROVE  Committed(o).ins = o.ins /\ Committed(o).cins = 0
<1> DEFINE s == IF o.ckpt # None THEN o.ckpt ELSE o.safe
<1>1. Committed(o) = [o EXCEPT !.open = FALSE, !.safe = s, !.cins = 0, !.writes = 0]
  BY DEF Committed, Ops
<1> HIDE DEF s
<1> QED BY <1>1 DEF Ops

\* How the worker ends does not change the count.
LEMMA ResultCounts ==
  ASSUME NEW o \in Ops
  PROVE  /\ Result(o).ins = o.ins /\ (o.cins = 0 => Result(o).cins = 0)
         /\ Result(o).st \in {"mark", "sent"}
<1>1. CASE o.kind = "download" /\ Clean(o)
  <2>1. Result(o) = [o EXCEPT !.st = "mark", !.last = LastID(o)]
    BY <1>1 DEF Result
  <2> QED BY <2>1 DEF Ops
<1>2. CASE ~(o.kind = "download" /\ Clean(o))
  BY <1>2, SentCounts DEF Result
<1> QED BY <1>1, <1>2

\* Nor does the checkpoint.
LEMMA PassedCounts ==
  ASSUME NEW o \in Ops, NEW id
  PROVE  Passed(o, id).ins = o.ins /\ Passed(o, id).cins = o.cins
<1> DEFINE s == IF id > 0 /\ ~o.frozen /\ ~o.gap THEN id ELSE o.ckpt
<1>1. Passed(o, id) = [o EXCEPT !.ckpt = s]
  BY DEF Passed, Ops
<1> HIDE DEF s
<1> QED BY <1>1 DEF Ops

\* A chunk that ends settles the count.
LEMMA ChunkCounts ==
  ASSUME TypeOK, CommitFull \/ BeginFails \/ StopScan \/ EndScan \/ Finish
  PROVE  /\ op.st \in {"scan", "final"}
         /\ SettlesCount \/ (LeavesCount /\ op'.st = "final")
<1> DEFINE c == Committed(op)
           d == Discarded(op)
           f == [Discarded(op) EXCEPT !.frozen = TRUE]
<1>0. op \in Ops /\ c \in Ops /\ d \in Ops
  BY CommittedType, DiscardedType DEF TypeOK
<1>1. c.ins = op.ins /\ c.cins = 0 /\ d.ins = op.ins - op.cins /\ d.cins = 0
  BY <1>0, CommittedCounts, DiscardedCounts
<1>2. f \in Ops /\ f.ins = op.ins - op.cins /\ f.cins = 0
  <2> HIDE DEF d
  <2>1. f = [d EXCEPT !.frozen = TRUE]
    BY DEF d
  <2> QED BY <1>0, <1>1, <2>1 DEF Ops
<1> HIDE DEF c, d, f
<1>3. CASE CommitFull
  BY <1>1, <1>2, <1>3 DEF CommitFull, SettlesCount, c, f
<1>4. CASE BeginFails
  BY <1>0, <1>4 DEF BeginFails, LeavesCount, fileVars, Ops
<1>5. CASE StopScan
  <2>1. \/ op' = Sent(c, "aborted", op.last) /\ CommitTx
        \/ op' = Sent(d, "aborted", op.last) /\ RollbackTx
    BY <1>5 DEF StopScan, c, d
  <2> QED BY <1>0, <1>1, <1>5, <2>1, SentCounts DEF StopScan, SettlesCount
<1>6. CASE EndScan
  BY <1>0, <1>6 DEF EndScan, LeavesCount, fileVars, Ops
<1>7. CASE Finish
  <2>1. op.st = "final" /\ ((op' = Result(c) /\ CommitTx) \/ (op' = Result(f) /\ RollbackTx))
    BY <1>7 DEF Finish, c, d, f
  <2>2. CASE op' = Result(c) /\ CommitTx
    <3>1. op'.ins = op.ins /\ op'.cins = 0
      BY <1>0, <1>1, <2>2, ResultCounts
    <3> QED BY <2>1, <2>2, <3>1 DEF SettlesCount
  <2>3. CASE op' = Result(f) /\ RollbackTx
    <3>1. op'.ins = op.ins - op.cins /\ op'.cins = 0
      BY <1>2, <2>3, ResultCounts
    <3> QED BY <2>1, <2>3, <3>1 DEF SettlesCount
  <2> QED BY <2>1, <2>2, <2>3
<1> QED BY <1>3, <1>4, <1>5, <1>6, <1>7

\* A record that adds a row.
LEMMA InsertCounts ==
  ASSUME TypeOK, NEW r \in Ids, InsertRow(r), Counts
  PROVE  Counts' /\ op'.st = "scan"
<1> DEFINE k == KeyOf(r)
           t == Taken(op, r)
           id == IF Pulling THEN op.ids[KeyOf(r)] ELSE 0
           w == [t EXCEPT !.writes = t.writes + 1, !.ins = t.ins + 1, !.cins = t.cins + 1]
           p == Passed(w, id)
           g == p.gap \/ (Pulling /\ id = 0)
<1>0. /\ k \in Keys /\ t \in Ops /\ t.st = op.st /\ id \in 0..MaxId
      /\ op.ins \in Int /\ op.cins \in Nat /\ stored \in Nat
  BY KeyOfType, TakenType, DownloadAssumption DEF TypeOK, Ops
<1>1. /\ Row(k) = NoRow /\ op' = [p EXCEPT !.gap = g] /\ tx' = [tx EXCEPT ![k] = id]
      /\ UNCHANGED fileVars /\ op.st = "scan" /\ ~Full
  BY DEF InsertRow, Record
<1>2. t.ins = op.ins /\ t.cins = op.cins /\ t.writes = op.writes
  BY DEF Taken, TypeOK, Ops
<1>3. t.writes + 1 \in 0..ChunkSize /\ t.ins + 1 \in Int /\ t.cins + 1 \in Nat
  BY <1>0, <1>1, <1>2, DownloadAssumption DEF Full, TypeOK, Ops
<1> HIDE DEF t, id
<1>4. w \in Ops /\ w.ins = op.ins + 1 /\ w.cins = op.cins + 1 /\ w.st = "scan"
  BY <1>0, <1>1, <1>2, <1>3 DEF Ops
<1> HIDE DEF w
<1>5. p \in Ops /\ p.ins = op.ins + 1 /\ p.cins = op.cins + 1 /\ p.st = "scan"
  BY <1>0, <1>4, PassedCounts, PassedType
<1> HIDE DEF p, g
<1>6. op'.ins = op.ins + 1 /\ op'.cins = op.cins + 1 /\ op'.st = "scan"
  BY <1>1, <1>5 DEF Ops
<1>7. k \notin NewKeys /\ NewKeys' = NewKeys \cup {k}
  <2>1. tx[k] = NoRow /\ local[k] = NoRow /\ id # NoRow
    BY <1>0, <1>1 DEF Row, NoRow
  <2> QED BY <1>0, <1>1, <2>1 DEF NewKeys, fileVars, TypeOK
<1>8. Cardinality(NewKeys') = Cardinality(NewKeys) + 1
  BY <1>7, NewIsFinite, FS_AddElement
<1> QED BY <1>0, <1>1, <1>6, <1>8 DEF Counts, fileVars

\* A record that adds none.
LEMMA OtherCounts ==
  ASSUME TypeOK, NEW r \in Ids, Counts,
         SkipInvalid(r) \/ LinkRow(r) \/ SkipDuplicate(r) \/ InsertFails(r)
  PROVE  op'.st = "scan" /\ (SettlesCount \/ Counts')
<1> DEFINE k == KeyOf(r)
           t == Taken(op, r)
           d == Discarded(t)
<1>0. k \in Keys /\ t \in Ops /\ d \in Ops /\ t.st = op.st /\ op.ids[k] \in 0..MaxId
  BY KeyOfType, TakenType, DiscardedType DEF TypeOK, Ops
<1>1. op.st = "scan" /\ ~Full
  BY DEF SkipInvalid, LinkRow, SkipDuplicate, InsertFails, Record
<1>2. t.ins = op.ins /\ t.cins = op.cins /\ t.writes = op.writes
  BY DEF Taken, TypeOK, Ops
<1>3. d.ins = op.ins - op.cins /\ d.cins = 0 /\ d.st = "scan"
  BY <1>0, <1>1, <1>2, DiscardedCounts, DiscardedType
<1> HIDE DEF t, d
<1>4. LeavesCount => Counts'
  BY DEF LeavesCount, Counts, NewKeys
<1>5. CASE SkipInvalid(r)
  <2> DEFINE p == Passed(t, op.ids[k])
  <2>1. p \in Ops /\ p.ins = op.ins /\ p.cins = op.cins /\ p.st = "scan"
    BY <1>0, <1>1, <1>2, PassedType, PassedCounts
  <2>2. op' = [p EXCEPT !.bad = p.bad + 1] /\ UNCHANGED <<fileVars, tx>>
    BY <1>5 DEF SkipInvalid, t
  <2> HIDE DEF p
  <2> QED BY <1>4, <2>1, <2>2 DEF Ops, LeavesCount, fileVars
<1>6. CASE SkipDuplicate(r)
  <2>1. op' = [t EXCEPT !.dup = t.dup + 1] /\ UNCHANGED <<fileVars, tx>>
    BY <1>6 DEF SkipDuplicate, t
  <2> QED BY <1>0, <1>1, <1>2, <1>4, <2>1 DEF Ops, LeavesCount, fileVars
<1>7. CASE InsertFails(r)
  <2>1. op' = [d EXCEPT !.frozen = TRUE, !.bad = d.bad + 1] /\ RollbackTx
    BY <1>7 DEF InsertFails, t, d
  <2> QED BY <1>0, <1>3, <2>1 DEF Ops, SettlesCount
<1>8. CASE LinkRow(r)
  <2>1. CASE op' = [d EXCEPT !.gap = TRUE] /\ RollbackTx
    BY <1>0, <1>3, <2>1 DEF Ops, SettlesCount
  <2>2. CASE op' = [t EXCEPT !.gap = TRUE] /\ UNCHANGED <<fileVars, tx, batch>>
    BY <1>0, <1>1, <1>2, <1>4, <2>2 DEF Ops, LeavesCount, fileVars
  <2>3. CASE /\ Row(k) # NoRow /\ op.ids[k] > 0
             /\ op' = Passed([t EXCEPT !.writes = t.writes + 1], op.ids[k])
             /\ tx' = [tx EXCEPT ![k] = op.ids[k]] /\ UNCHANGED fileVars
    <3> DEFINE w == [t EXCEPT !.writes = t.writes + 1]
    <3>1. t.writes + 1 \in 0..ChunkSize
      BY <1>1, <1>2, DownloadAssumption DEF Full, TypeOK, Ops
    <3>2. w \in Ops /\ w.ins = op.ins /\ w.cins = op.cins /\ w.st = "scan"
      BY <1>0, <1>1, <1>2, <3>1 DEF Ops
    <3> HIDE DEF w
    <3>3. op'.ins = op.ins /\ op'.cins = op.cins /\ op'.st = "scan"
      <4>1. op' = Passed(w, op.ids[k])
        BY <2>3 DEF w
      <4> QED BY <1>0, <3>2, <4>1, PassedType, PassedCounts
    <3>4. NewKeys' = NewKeys
      <4>1. op.ids[k] # NoRow
        BY <1>0, <2>3 DEF NoRow
      <4> QED BY <1>0, <2>3, <4>1 DEF NewKeys, Row, fileVars, TypeOK
    <3> QED BY <2>3, <3>3, <3>4 DEF Counts, fileVars
  <2> QED BY <1>8, <2>1, <2>2, <2>3 DEF LinkRow, t, d
<1> QED BY <1>5, <1>6, <1>7, <1>8

\* A step that leaves the running operation's count alone.
LEMMA CountKept ==
  ASSUME CountInv, LeavesCount, op'.st = op.st PROVE CountInv'
  BY DEF CountInv, LeavesCount, Counts, NewKeys

\* Every step keeps the count in line with the committed rows and the open
\* transaction.
LEMMA CountStep ==
  ASSUME TypeOK, TypeOK', CountInv, [Next]_vars PROVE CountInv'
<1>0. op \in Ops /\ op.ins \in Int /\ op.cins \in Nat /\ stored \in Nat
  BY DEF TypeOK, Ops
<1>1. ASSUME op' = op, UNCHANGED <<tx, local, stored>> PROVE CountInv'
  BY <1>1, CountKept DEF LeavesCount
<1>2. ASSUME tx = NoWrites, UNCHANGED <<tx, op, stored>> PROVE CountInv'
  <2>1. NewKeys' = NewKeys
    BY <1>2 DEF NewKeys, NoWrites
  <2> QED BY <1>2, <2>1 DEF CountInv, Counts
<1>3. ASSUME NEW k \in Keys, RemoteLog(k) \/ LocalLog(k) PROVE CountInv'
  BY <1>1, <1>2, <1>3 DEF RemoteLog, LocalLog, fileVars
<1>4. ASSUME NEW r \in Ids, Step(r) PROVE CountInv'
  <2>1. CASE RemoteDelete(r)
    BY <1>1, <2>1 DEF RemoteDelete, fileVars
  <2>2. CASE ~RemoteDelete(r)
    <3>1. Counts
      BY <1>4, <2>2 DEF Step, SkipInvalid, LinkRow, SkipDuplicate, InsertRow, InsertFails, Record,
                        CountInv
    <3>2. op'.st = "scan" /\ Counts'
      BY <1>4, <2>2, <3>1, InsertCounts, OtherCounts, SettledCount DEF Step
    <3> QED BY <3>2 DEF CountInv
  <2> QED BY <2>1, <2>2
<1>5. CASE FetchPage \/ FetchFails \/ FetchIds
  <2>1. op.st \in {"pages", "list"} /\ UNCHANGED <<fileVars, tx>>
    BY <1>5 DEF FetchPage, FetchFails, FetchIds
  <2>2. op'.ins = op.ins /\ (op'.cins = op.cins \/ op'.cins = 0)
    <3>1. CASE \/ op' = Sent(op, "done", op.last) \/ op' = Sent(op, "aborted", op.last)
               \/ op' = Sent(op, "error", op.last)
      BY <1>0, <3>1, SentCounts
    <3>2. ASSUME NEW todo, NEW last, NEW st, op' = [op EXCEPT !.todo = todo, !.last = last, !.st = st]
          PROVE  op'.ins = op.ins /\ op'.cins = op.cins
      BY <1>0, <3>2 DEF Ops
    <3>3. ASSUME NEW st, NEW ids,
                 \/ op' = [op EXCEPT !.st = st]
                 \/ op' = [op EXCEPT !.st = st, !.ids = ids]
          PROVE  op'.ins = op.ins /\ op'.cins = op.cins
      BY <1>0, <3>3 DEF Ops
    <3>4. CASE FetchPage
      <4> DEFINE new == {r \in live : r > op.last}
      <4>1. CASE \E last \in new :
                op' = [op EXCEPT !.todo = op.todo \cup {r \in new : r <= last}, !.last = last,
                          !.st = IF \A r \in new : r <= last THEN "list" ELSE "pages"]
        BY <3>2, <4>1
      <4>2. CASE op' = [op EXCEPT !.st = "list"]
        BY <3>3, <4>2
      <4> QED BY <3>1, <3>4, <4>1, <4>2 DEF FetchPage
    <3>5. CASE FetchFails
      BY <3>1, <3>5 DEF FetchFails
    <3>6. CASE FetchIds
      BY <3>3, <3>6 DEF FetchIds
    <3> QED BY <1>5, <3>4, <3>5, <3>6
  <2>3. tx = NoWrites /\ tx' = NoWrites /\ op.cins = 0 /\ op.ins = stored
    BY <1>0, <2>1, NothingNew DEF CountInv, Counts
  <2>4. Cardinality(NewKeys') = 0
    BY <2>3, FS_EmptySet DEF NewKeys, NoWrites
  <2> QED BY <1>0, <2>1, <2>2, <2>3, <2>4 DEF CountInv, Counts, fileVars
<1>6. CASE CommitFull \/ BeginFails \/ StopScan \/ EndScan \/ Finish
  <2>1. op.st \in {"scan", "final"} /\ (SettlesCount \/ (LeavesCount /\ op'.st = "final"))
    BY <1>6, ChunkCounts
  <2>2. Counts
    BY <2>1 DEF CountInv
  <2>3. CASE SettlesCount
    BY <2>2, <2>3, SettledCount DEF CountInv
  <2>4. CASE LeavesCount /\ op'.st = "final"
    BY <2>2, <2>4 DEF CountInv, Counts, LeavesCount, NewKeys
  <2> QED BY <2>1, <2>3, <2>4
<1>7. CASE Mark
  <2>1. op' = Sent(op, "done", op.last) /\ op.st = "mark" /\ UNCHANGED <<tx, local, stored>>
    BY <1>7 DEF Mark, fileVars
  <2>2. op'.ins = op.ins /\ op'.cins = 0
    BY <1>0, <2>1, SentCounts
  <2>3. tx = NoWrites /\ op.cins = 0 /\ op.ins = stored
    BY <1>0, <2>1, NothingNew DEF CountInv, Counts
  <2>4. Cardinality(NewKeys') = 0
    BY <2>1, <2>3, FS_EmptySet DEF NewKeys, NoWrites
  <2> QED BY <2>1, <2>2, <2>3, <2>4, <1>0 DEF CountInv, Counts
<1>8. CASE Deliver \/ Crash
  <2>1. op'.st = "idle" /\ tx' = NoWrites
    BY <1>8 DEF Deliver, Crash, Idle, CountInv
  <2> QED BY <2>1 DEF CountInv
<1>9. CASE StartDownload \/ StartImport
  <2>1. op.st = "idle" /\ UNCHANGED tx /\ stored' = 0
    BY <1>9 DEF StartDownload, StartImport
  <2>2. op'.ins = 0 /\ op'.cins = 0
    <3>1. Idle.ins = 0 /\ Idle.cins = 0
      BY DEF Idle
    <3> QED BY <1>9, <3>1, IdleType DEF StartDownload, StartImport, Ops
  <2>3. tx' = NoWrites
    BY <2>1 DEF CountInv
  <2>4. Cardinality(NewKeys') = 0
    BY <2>3, FS_EmptySet DEF NewKeys, NoWrites
  <2> QED BY <2>1, <2>2, <2>3, <2>4 DEF CountInv, Counts
<1>10. CASE Abort
  <2>1. op'.ins = op.ins /\ op'.cins = op.cins /\ op'.st = op.st
    BY <1>0, <1>10 DEF Abort, Ops
  <2> QED BY <1>10, <2>1, CountKept DEF Abort, LeavesCount, fileVars
<1>11. CASE RunPurge
  BY <1>2, <1>11 DEF RunPurge
<1>12. CASE OpenEditor \/ ConfirmPurge \/ PurgeDone
  BY <1>1, <1>12 DEF OpenEditor, ConfirmPurge, PurgeDone, fileVars
<1>13. CASE UNCHANGED vars
  BY <1>1, <1>13 DEF vars
<1> QED
  BY <1>3, <1>4, <1>5, <1>6, <1>7, <1>8, <1>9, <1>10, <1>11, <1>12, <1>13 DEF Next, Worker

\* The number the operator is shown is that of the rows added and committed,
\* whichever chunks are lost and whenever the operation is aborted.
THEOREM CountHonest == Spec => []HonestCount
<1>1. Init => CountInv
  BY DEF Init, CountInv, Idle
<1>2. TypeOK /\ TypeOK' /\ CountInv /\ [Next]_vars => CountInv'
  BY CountStep
<1>3. TypeOK /\ CountInv => HonestCount
  BY NothingNew DEF CountInv, Counts, HonestCount, TypeOK, Ops
<1> QED BY <1>1, <1>2, <1>3, TypeCorrect, PTL DEF Spec

-----------------------------------------------------------------------------
(* The cursor.                                                             *)

\* Alone, the editor's copy of the cursor is the cursor, and a download has only
\* read what lies beyond it.
Beyond(o) ==
    /\ o.from <= o.last
    /\ \A r \in o.todo : o.from < r
    /\ o.ckpt # None => o.from <= o.ckpt
    /\ o.safe # None => o.from <= o.safe

BackInv ==
    /\ Fetching => Beyond(op)
    /\ ~overlap => purge.own
    /\ ~overlap /\ purge.st = "idle" =>
          /\ known = cursor
          /\ Fetching => cursor <= op.from
          /\ op.kind = "download" /\ (op.st = "mark" \/ (op.st = "sent" /\ op.res = "done"))
                => cursor <= op.last

\* A step of a running download moves on from where it began.
MovesOn ==
    /\ op'.kind = op.kind
    /\ \/ op'.st \in {"pages", "list", "scan", "final"} /\ op'.from = op.from /\ Beyond(op')
       \/ op'.st \in {"mark", "sent"} /\ (op'.res = "done" \/ op'.st = "mark" => op.from <= op'.last)

\* The next cursor is no earlier than the start of the download.
LEMMA NextCursor ==
  ASSUME NEW o \in Ops, o.kind = "download", Beyond(o)
  PROVE  o.from <= LastID(o) /\ Result(o).kind = "download" /\ Result(o).st \in {"mark", "sent"}
         /\ Result(o).last = LastID(o)
<1>1. o.from <= LastID(o)
  BY DEF Beyond, LastID, Ops
<1>2. LastID(o) \in 0..MaxId
  BY LastIDType
<1>3. CASE Clean(o)
  <2>1. Result(o) = [o EXCEPT !.st = "mark", !.last = LastID(o)]
    BY <1>3 DEF Result
  <2> QED BY <1>1, <1>2, <2>1 DEF Ops
<1>4. CASE ~Clean(o)
  <2>1. Result(o) = Sent(o, "error", LastID(o)) \/ Result(o) = Sent(o, "done", LastID(o))
    BY <1>4 DEF Result
  <2> QED BY <1>1, <1>2, <2>1, SentType
<1> QED BY <1>3, <1>4

\* Fetching keeps the start, and reads only what lies beyond it.
LEMMA FetchMovesOn ==
  ASSUME TypeOK, op.kind = "download", Beyond(op), FetchPage \/ FetchFails \/ FetchIds
  PROVE  MovesOn
<1>0. op \in Ops /\ op.last \in 0..MaxId /\ op.from \in 0..MaxId /\ live \subseteq Ids
  BY LiveType DEF TypeOK, Ops
<1>1. ASSUME \/ op' = Sent(op, "done", op.last)
             \/ op' = Sent(op, "aborted", op.last)
             \/ op' = Sent(op, "error", op.last)
      PROVE  MovesOn
  <2>1. op'.kind = op.kind /\ op'.st = "sent" /\ op'.last = op.last
    <3>1. CASE op' = Sent(op, "done", op.last)
      <4>1. op \in Ops /\ op.last \in 0..MaxId
        BY <1>0
      <4> QED BY <4>1, <3>1, SentType
    <3>2. CASE op' = Sent(op, "aborted", op.last)
      <4>1. op \in Ops /\ op.last \in 0..MaxId
        BY <1>0
      <4> QED BY <4>1, <3>2, SentType
    <3>3. CASE op' = Sent(op, "error", op.last)
      <4>1. op \in Ops /\ op.last \in 0..MaxId
        BY <1>0
      <4> QED BY <4>1, <3>3, SentType
    <3> QED BY <1>1, <3>1, <3>2, <3>3
  <2>2. op.from <= op.last
    BY DEF Beyond
  <2> QED BY <2>1, <2>2 DEF MovesOn
<1>2. ASSUME NEW st \in {"list", "scan"}, NEW ids,
             op' = [op EXCEPT !.st = st] \/ op' = [op EXCEPT !.st = st, !.ids = ids]
      PROVE  MovesOn
  <2>1. op'.st = st /\ op'.kind = op.kind /\ op'.from = op.from /\ op'.last = op.last
        /\ op'.todo = op.todo /\ op'.ckpt = op.ckpt /\ op'.safe = op.safe
    BY <1>0, <1>2 DEF Ops
  <2> QED BY <2>1 DEF MovesOn, Beyond
<1>3. CASE FetchPage
  <2> DEFINE new == {r \in live : r > op.last}
  <2>1. CASE \E last \in new :
                op' = [op EXCEPT !.todo = op.todo \cup {r \in new : r <= last}, !.last = last,
                          !.st = IF \A r \in new : r <= last THEN "list" ELSE "pages"]
    <3>1. PICK last \in new :
            op' = [op EXCEPT !.todo = op.todo \cup {r \in new : r <= last}, !.last = last,
                      !.st = IF \A r \in new : r <= last THEN "list" ELSE "pages"]
      BY <2>1
    <3> DEFINE todo == op.todo \cup {r \in new : r <= last}
               st == IF \A r \in new : r <= last THEN "list" ELSE "pages"
    <3>2. op.from <= last /\ (\A r \in todo : op.from < r) /\ st \in {"pages", "list"}
      BY <1>0 DEF Beyond, Ids, Ops
    <3> HIDE DEF todo, st
    <3>3. op'.st = st /\ op'.kind = op.kind /\ op'.from = op.from /\ op'.last = last
          /\ op'.todo = todo /\ op'.ckpt = op.ckpt /\ op'.safe = op.safe
      <4>1. op' = [op EXCEPT !.todo = todo, !.last = last, !.st = st]
        BY <3>1 DEF todo, st
      <4> QED BY <1>0, <4>1 DEF Ops
    <3> QED BY <3>2, <3>3 DEF MovesOn, Beyond
  <2>2. CASE op' = [op EXCEPT !.st = "list"]
    BY <1>2, <2>2
  <2>3. CASE op' = Sent(op, "done", op.last)
    BY <1>1, <2>3
  <2> QED BY <1>3, <2>1, <2>2, <2>3 DEF FetchPage
<1>4. CASE FetchFails
  BY <1>1, <1>4 DEF FetchFails
<1>5. CASE FetchIds
  BY <1>2, <1>5 DEF FetchIds
<1> QED BY <1>3, <1>4, <1>5

\* So does settling a chunk, and ending the download with it.
LEMMA ChunkMovesOn ==
  ASSUME TypeOK, op.kind = "download", Beyond(op),
         CommitFull \/ BeginFails \/ StopScan \/ EndScan \/ Finish
  PROVE  MovesOn
<1> DEFINE c == Committed(op)
           d == Discarded(op)
           f == [Discarded(op) EXCEPT !.frozen = TRUE]
<1>0. op \in Ops /\ op.last \in 0..MaxId /\ op.st \in {"scan", "final"}
  BY DEF TypeOK, Ops, CommitFull, BeginFails, StopScan, EndScan, Finish
<1>1. c \in Ops /\ c.kind = "download" /\ c.st = op.st /\ c.from = op.from /\ Beyond(c)
  BY <1>0, CommittedType DEF Beyond
<1>2. d \in Ops /\ d.kind = "download" /\ d.st = op.st /\ d.from = op.from /\ Beyond(d)
  BY <1>0, DiscardedType DEF Beyond
<1> HIDE DEF c, d
<1>3. f \in Ops /\ f.kind = "download" /\ f.st = op.st /\ f.from = op.from /\ Beyond(f)
  <2>1. f = [d EXCEPT !.frozen = TRUE]
    BY DEF d
  <2> QED BY <1>2, <2>1 DEF Ops, Beyond
<1> HIDE DEF f
<1>4. CASE CommitFull
  BY <1>0, <1>1, <1>3, <1>4 DEF CommitFull, MovesOn, c, f
<1>5. CASE BeginFails \/ EndScan
  <2>1. op'.st \in {"scan", "final"} /\ op'.kind = op.kind /\ op'.from = op.from
        /\ op'.last = op.last /\ op'.todo = op.todo /\ op'.ckpt = op.ckpt /\ op'.safe = op.safe
    BY <1>0, <1>5 DEF BeginFails, EndScan, Ops
  <2> QED BY <2>1 DEF MovesOn, Beyond
<1>6. CASE StopScan
  <2>1. op' = Sent(c, "aborted", op.last) \/ op' = Sent(d, "aborted", op.last)
    BY <1>6 DEF StopScan, c, d
  <2>2. ASSUME NEW o \in Ops, o.kind = "download", op' = Sent(o, "aborted", op.last)
        PROVE  op'.kind = "download" /\ op'.st = "sent" /\ op'.res = "aborted"
    <3> DEFINE m == Sent(o, "aborted", op.last)
    <3>1. m.kind = o.kind /\ m.st = "sent" /\ m.res = "aborted"
      BY <1>0, SentType
    <3>2. op' = m
      BY <2>2
    <3> HIDE DEF m
    <3> QED BY <2>2, <3>1, <3>2
  <2>3. op'.kind = "download" /\ op'.st = "sent" /\ op'.res = "aborted"
    BY <1>1, <1>2, <2>1, <2>2
  <2> QED BY <2>3 DEF MovesOn
<1>7. CASE Finish
  <2>1. op' = Result(c) \/ op' = Result(f)
    BY <1>7 DEF Finish, c, f
  <2> QED BY <1>1, <1>3, <2>1, NextCursor DEF MovesOn
<1> QED BY <1>4, <1>5, <1>6, <1>7

\* A record passes the checkpoint with its own id, which was fetched from beyond
\* the start.
LEMMA RecordMovesOn ==
  ASSUME TypeOK, IInv1, op.kind = "download", Beyond(op), NEW r \in Ids,
         SkipInvalid(r) \/ LinkRow(r) \/ SkipDuplicate(r) \/ InsertRow(r) \/ InsertFails(r)
  PROVE  MovesOn
<1> DEFINE k == KeyOf(r)
           t == Taken(op, r)
           id == op.ids[k]
           d == Discarded(t)
           on(o) == o \in Ops /\ o.kind = "download" /\ o.st = "scan" /\ o.from = op.from /\ Beyond(o)
<1>0. k = key[r] /\ id \in 0..MaxId /\ op \in Ops /\ t \in Ops
  BY KeyOfType, TakenType DEF TypeOK, Ops, KeyOf
<1>1. Record(r) /\ op.st = "scan"
  BY DEF SkipInvalid, LinkRow, SkipDuplicate, InsertRow, InsertFails, Record
<1>2. on(t) /\ t.last = op.last
  BY <1>0, <1>1, TakenType DEF Beyond
<1>3. id > 0 => op.from <= id
  <2>1. id > 0 => id = r
    BY <1>0, <1>1, OwnId
  <2>2. op.from < r /\ op.from \in 0..MaxId /\ r \in Nat
    BY <1>0, <1>1 DEF Record, Beyond, Ops, Ids
  <2> QED BY <2>1, <2>2
<1>4. on(d)
  BY <1>2, DiscardedType DEF Beyond
<1>5. ASSUME NEW o \in Ops, on(o), NEW i \in {0, id} PROVE on(Passed(o, i))
  <2> DEFINE p == Passed(o, i)
  <2>1. i \in 0..MaxId
    BY <1>0, DownloadAssumption
  <2>2. p \in Ops /\ p.kind = o.kind /\ p.st = o.st /\ p.from = o.from /\ p.last = o.last
        /\ p.todo = o.todo /\ p.safe = o.safe /\ (p.ckpt = o.ckpt \/ (p.ckpt = i /\ i > 0))
    BY <1>5, <2>1, PassedType
  <2> HIDE DEF p
  <2>3. p.ckpt = i /\ i > 0 => op.from <= p.ckpt
    BY <1>3, <1>5
  <2>4. Beyond(p)
    BY <1>5, <2>2, <2>3 DEF Beyond
  <2> QED BY <1>5, <2>2, <2>4 DEF p
<1>6. ASSUME NEW o, on(o), op' = o PROVE MovesOn
  BY <1>6 DEF MovesOn
<1> HIDE DEF k, t, id, d
<1>7. CASE SkipInvalid(r)
  <2> DEFINE p == Passed(t, id)
  <2>1. on(p) /\ op' = [p EXCEPT !.bad = p.bad + 1]
    BY <1>2, <1>5, <1>7 DEF SkipInvalid, k, t, id
  <2> HIDE DEF p
  <2>2. op'.kind = "download" /\ op'.st = "scan" /\ op'.from = op.from /\ Beyond(op')
    BY <2>1 DEF Ops, Beyond
  <2> QED BY <2>2 DEF MovesOn
<1>8. CASE LinkRow(r)
  <2> DEFINE w == [t EXCEPT !.writes = t.writes + 1]
  <2>1. CASE op' = [d EXCEPT !.gap = TRUE]
    <3>1. op'.kind = "download" /\ op'.st = "scan" /\ op'.from = op.from /\ Beyond(op')
      BY <1>4, <2>1 DEF Ops, Beyond
    <3> QED BY <3>1 DEF MovesOn
  <2>2. CASE op' = [t EXCEPT !.gap = TRUE]
    <3>1. op'.kind = "download" /\ op'.st = "scan" /\ op'.from = op.from /\ Beyond(op')
      BY <1>2, <2>2 DEF Ops, Beyond
    <3> QED BY <3>1 DEF MovesOn
  <2>3. CASE op' = Passed(w, id)
    <3>0. t.writes + 1 \in 0..ChunkSize
      BY <1>0, <1>1, TakenType, DownloadAssumption DEF Record, Full, TypeOK, Ops, t
    <3>1. on(w)
      BY <1>2, <3>0 DEF Ops, Beyond
    <3> HIDE DEF w
    <3> QED BY <1>5, <1>6, <2>3, <3>1
  <2> QED BY <1>8, <2>1, <2>2, <2>3 DEF LinkRow, k, t, id, d
<1>9. CASE SkipDuplicate(r)
  BY <1>9 DEF SkipDuplicate, Pulling
<1>10. CASE InsertRow(r)
  <2> DEFINE w == [t EXCEPT !.writes = t.writes + 1, !.ins = t.ins + 1, !.cins = t.cins + 1]
             p == Passed(w, id)
             g == p.gap \/ (Pulling /\ id = 0)
  <2>0. t.writes + 1 \in 0..ChunkSize /\ t.ins + 1 \in Int /\ t.cins + 1 \in Nat
    BY <1>0, <1>1, TakenType, DownloadAssumption DEF Record, Full, TypeOK, Ops, t
  <2>1. on(w)
    BY <1>2, <2>0 DEF Ops, Beyond
  <2>2. op' = [p EXCEPT !.gap = g]
    BY <1>10 DEF InsertRow, Pulling, k, t, id
  <2> HIDE DEF w
  <2>3. on(p)
    BY <1>5, <2>1
  <2> HIDE DEF p, g
  <2>4. op'.kind = "download" /\ op'.st = "scan" /\ op'.from = op.from /\ Beyond(op')
    BY <2>2, <2>3 DEF Ops, Beyond
  <2> QED BY <2>4 DEF MovesOn
<1>11. CASE InsertFails(r)
  <2>1. op' = [d EXCEPT !.frozen = TRUE, !.bad = d.bad + 1]
    BY <1>11 DEF InsertFails, t, d
  <2>2. op'.kind = "download" /\ op'.st = "scan" /\ op'.from = op.from /\ Beyond(op')
    BY <1>4, <2>1 DEF Ops, Beyond
  <2> QED BY <2>2 DEF MovesOn
<1> QED BY <1>7, <1>8, <1>9, <1>10, <1>11

\* The worker never turns one kind of operation into the other.
LEMMA KindKept ==
  ASSUME TypeOK,
         \/ FetchPage \/ FetchFails \/ FetchIds \/ CommitFull \/ BeginFails
         \/ StopScan \/ EndScan \/ Finish \/ Mark \/ Abort
         \/ \E r \in Ids : SkipInvalid(r) \/ LinkRow(r) \/ SkipDuplicate(r) \/ InsertRow(r) \/ InsertFails(r)
  PROVE  op'.kind = op.kind
<1> DEFINE c == Committed(op)
           d == Discarded(op)
           f == [Discarded(op) EXCEPT !.frozen = TRUE]
           Of(o) == o \in Ops /\ o.kind = op.kind
<1>0. Of(op) /\ op.last \in 0..MaxId
  BY DEF TypeOK, Ops
<1>1. Of(c) /\ Of(d)
  BY <1>0, CommittedType, DiscardedType
<1>2. Of(f)
  <2>1. f = [d EXCEPT !.frozen = TRUE]
    BY DEF d
  <2> HIDE DEF d
  <2> QED BY <1>1, <2>1 DEF Ops
<1>3. ASSUME NEW o, Of(o), op' = o PROVE op'.kind = op.kind
  BY <1>3
<1>4. ASSUME NEW o, Of(o),
             \/ op' = Sent(o, "done", op.last) \/ op' = Sent(o, "aborted", op.last)
             \/ op' = Sent(o, "error", op.last)
      PROVE  op'.kind = op.kind
  <2>1. o \in Ops /\ o.kind = op.kind /\ op.last \in 0..MaxId
    BY <1>0, <1>4
  <2>2. CASE op' = Sent(o, "done", op.last)
    BY <2>1, <2>2, SentType
  <2>3. CASE op' = Sent(o, "aborted", op.last)
    BY <2>1, <2>3, SentType
  <2>4. CASE op' = Sent(o, "error", op.last)
    BY <2>1, <2>4, SentType
  <2> QED BY <1>4, <2>2, <2>3, <2>4
<1>5. ASSUME NEW o, Of(o), op' = Result(o) PROVE op'.kind = op.kind
  <2>1. LastID(o) \in 0..MaxId
    BY <1>5, LastIDType
  <2>2. CASE op' = [o EXCEPT !.st = "mark", !.last = LastID(o)]
    BY <1>5, <2>2 DEF Ops
  <2>3. CASE op' = Sent(o, "error", LastID(o)) \/ op' = Sent(o, "done", LastID(o))
    BY <1>5, <2>1, <2>3, SentType
  <2> QED BY <1>5, <2>2, <2>3 DEF Result
<1>6. ASSUME NEW st, NEW ids, NEW todo, NEW last, NEW cut, NEW stop, NEW bad,
             \/ op' = [op EXCEPT !.todo = todo, !.last = last, !.st = st]
             \/ op' = [op EXCEPT !.st = st]
             \/ op' = [op EXCEPT !.st = st, !.ids = ids]
             \/ op' = [op EXCEPT !.st = st, !.cut = cut]
             \/ op' = [op EXCEPT !.stop = stop]
             \/ op' = [op EXCEPT !.st = st, !.frozen = cut, !.down = stop, !.bad = bad]
      PROVE  op'.kind = op.kind
  BY <1>0, <1>6 DEF Ops
<1> HIDE DEF c, d, f, Of
<1>7. CASE FetchPage
  <2> DEFINE new == {r \in live : r > op.last}
  <2>1. CASE \E last \in new :
            op' = [op EXCEPT !.todo = op.todo \cup {r \in new : r <= last}, !.last = last,
                      !.st = IF \A r \in new : r <= last THEN "list" ELSE "pages"]
    BY <1>6, <2>1
  <2>2. CASE op' = [op EXCEPT !.st = "list"]
    BY <1>6, <2>2
  <2>3. CASE op' = Sent(op, "done", op.last)
    BY <1>0, <1>4, <2>3
  <2> QED BY <1>7, <2>1, <2>2, <2>3 DEF FetchPage
<1>8. CASE FetchFails \/ Mark
  BY <1>0, <1>4, <1>8 DEF FetchFails, Mark
<1>9. CASE FetchIds
  BY <1>6, <1>9 DEF FetchIds
<1>10. CASE BeginFails \/ EndScan \/ Abort
  <2>1. CASE BeginFails
    <3> DEFINE bad == IF op.kind = "import" THEN op.bad + 1 ELSE op.bad
    <3>1. op' = [op EXCEPT !.st = "final", !.frozen = TRUE, !.down = TRUE, !.bad = bad]
      BY <2>1 DEF BeginFails
    <3> HIDE DEF bad
    <3> QED BY <1>6, <3>1
  <2>2. CASE EndScan
    BY <1>6, <2>2 DEF EndScan
  <2>3. CASE Abort
    BY <1>6, <2>3 DEF Abort
  <2> QED BY <1>10, <2>1, <2>2, <2>3
<1>11. CASE CommitFull
  BY <1>1, <1>2, <1>3, <1>11 DEF CommitFull, c, f
<1>12. CASE StopScan
  BY <1>1, <1>4, <1>12 DEF StopScan, c, d
<1>13. CASE Finish
  BY <1>1, <1>2, <1>5, <1>13 DEF Finish, c, f
<1>14. ASSUME NEW r \in Ids,
              SkipInvalid(r) \/ LinkRow(r) \/ SkipDuplicate(r) \/ InsertRow(r) \/ InsertFails(r)
       PROVE  op'.kind = op.kind
  <2> DEFINE t == Taken(op, r)
             u == Discarded(t)
             id == op.ids[KeyOf(r)]
  <2>1. t \in Ops /\ t.kind = op.kind /\ u \in Ops /\ u.kind = op.kind /\ t.writes = op.writes
    BY TakenType, DiscardedType
  <2>2. id \in 0..MaxId /\ 0 \in 0..MaxId
    BY KeyOfType, DownloadAssumption DEF TypeOK, Ops
  <2>3. ~Full => t.writes + 1 \in 0..ChunkSize
    BY <2>1, DownloadAssumption DEF Full, TypeOK, Ops
  <2> HIDE DEF t, u, id
  <2>4. ASSUME NEW o \in Ops, o.kind = op.kind, NEW i \in 0..MaxId, NEW b, NEW g,
               \/ op' = Passed(o, i) \/ op' = [Passed(o, i) EXCEPT !.bad = b]
               \/ op' = [Passed(o, i) EXCEPT !.gap = g]
        PROVE  op'.kind = op.kind
    <3> DEFINE p == Passed(o, i)
    <3>1. p \in Ops /\ p.kind = op.kind
      BY <2>4, PassedType
    <3>2. op' = p \/ op' = [p EXCEPT !.bad = b] \/ op' = [p EXCEPT !.gap = g]
      BY <2>4
    <3> HIDE DEF p
    <3> QED BY <3>1, <3>2 DEF Ops
  <2>5. ASSUME NEW o \in Ops, o.kind = op.kind, NEW b, NEW g, NEW n,
               \/ op' = [o EXCEPT !.gap = g] \/ op' = [o EXCEPT !.dup = n]
               \/ op' = [o EXCEPT !.frozen = g, !.bad = b]
        PROVE  op'.kind = op.kind
    BY <2>5 DEF Ops
  <2>6. CASE SkipInvalid(r)
    BY <2>1, <2>2, <2>4, <2>6 DEF SkipInvalid, t, id
  <2>7. CASE SkipDuplicate(r)
    BY <2>1, <2>5, <2>7 DEF SkipDuplicate, t
  <2>8. CASE InsertFails(r)
    BY <2>1, <2>5, <2>8 DEF InsertFails, t, u
  <2>9. CASE LinkRow(r)
    <3> DEFINE w == [t EXCEPT !.writes = t.writes + 1]
    <3>1. w \in Ops /\ w.kind = op.kind
      BY <2>1, <2>3, <2>9 DEF LinkRow, Record, Ops
    <3>2. op' = Passed(w, id) \/ op' = [u EXCEPT !.gap = TRUE] \/ op' = [t EXCEPT !.gap = TRUE]
      BY <2>9 DEF LinkRow, t, u, id
    <3> HIDE DEF w
    <3> QED BY <2>1, <2>2, <2>4, <2>5, <3>1, <3>2
  <2>10. CASE InsertRow(r)
    <3> DEFINE w == [t EXCEPT !.writes = t.writes + 1, !.ins = t.ins + 1, !.cins = t.cins + 1]
               i == IF Pulling THEN id ELSE 0
    <3>0. ~Full /\ t.ins + 1 \in Int /\ t.cins + 1 \in Nat
      <4>1. ~Full
        BY <2>10 DEF InsertRow, Record
      <4>2. t.ins + 1 \in Int /\ t.cins + 1 \in Nat
        BY <2>1 DEF Ops
      <4> QED BY <4>1, <4>2
    <3>1. w \in Ops /\ w.kind = op.kind
      BY <2>1, <2>3, <3>0 DEF Ops
    <3>2. i \in 0..MaxId
      BY <2>2
    <3>3. op' = [Passed(w, i) EXCEPT !.gap = Passed(w, i).gap \/ (Pulling /\ i = 0)]
      BY <2>10 DEF InsertRow, t, id
    <3> HIDE DEF w, i
    <3> DEFINE g == Passed(w, i).gap \/ (Pulling /\ i = 0)
    <3>4. op' = [Passed(w, i) EXCEPT !.gap = g]
      BY <3>3
    <3> HIDE DEF g
    <3> QED BY <2>4, <3>1, <3>2, <3>4
  <2> QED BY <1>14, <2>6, <2>7, <2>8, <2>9, <2>10
<1> QED BY <1>7, <1>8, <1>9, <1>10, <1>11, <1>12, <1>13, <1>14

\* A step of a download that leaves the cursor and the editor alone.
LEMMA BackMoves ==
  ASSUME TypeOK, TypeOK', BackInv, Fetching, MovesOn, UNCHANGED <<cursor, known, purge, overlap>>
  PROVE  BackInv'
<1>1. op.kind = "download" /\ op'.kind = "download"
  BY DEF Fetching, MovesOn
<1>2. cursor \in Int /\ op.from \in Int /\ op'.from \in Int /\ op'.last \in Int
  BY DEF TypeOK, Ops
<1>3. CASE op'.st \in {"pages", "list", "scan", "final"} /\ op'.from = op.from /\ Beyond(op')
  BY <1>1, <1>3 DEF BackInv, Fetching, Beyond
<1>4. CASE /\ op'.st \in {"mark", "sent"}
           /\ op'.res = "done" \/ op'.st = "mark" => op.from <= op'.last
  BY <1>1, <1>2, <1>4 DEF BackInv, Fetching
<1> QED BY <1>3, <1>4 DEF MovesOn

\* Nor does anything that happens beside a download move its cursor.
LEMMA BackRest ==
  ASSUME BackInv, UNCHANGED <<cursor, known, purge, overlap>>,
         op'.kind # "download" \/ UNCHANGED op
  PROVE  BackInv'
  BY DEF BackInv, Fetching, Beyond

\* Every step keeps the start of a download at or beyond the cursor, so none but
\* a purge takes the cursor back.
LEMMA BackStep ==
  ASSUME TypeOK, TypeOK', IInv1, BackInv, [Next]_vars
  PROVE  BackInv' /\ (cursor' >= cursor \/ purge.st # "idle" \/ overlap)
<1>0. /\ cursor \in Int /\ known \in Int /\ op \in Ops /\ op.last \in Int /\ op.from \in Int
      /\ purge \in [st : {"idle", "running", "done"}, own : BOOLEAN, n : 0..MaxPurges]
  BY DEF TypeOK, Ops
<1>1. ASSUME OnlyOp, MovesOn, Fetching PROVE BackInv' /\ cursor' >= cursor
  BY <1>0, <1>1, BackMoves DEF OnlyOp, histVars
<1>2. ASSUME UNCHANGED <<cursor, known, purge, overlap>>, op'.kind # "download" \/ UNCHANGED op
      PROVE  BackInv' /\ cursor' >= cursor
  BY <1>0, <1>2, BackRest
<1>3. CASE FetchPage \/ FetchFails \/ FetchIds
  <2>1. OnlyOp /\ op.st \in {"pages", "list"}
    BY <1>3 DEF FetchPage, FetchFails, FetchIds
  <2>2. CASE op.kind = "download"
    BY <1>1, <1>3, <2>1, <2>2, FetchMovesOn DEF BackInv, Fetching
  <2>3. CASE op.kind # "download"
    BY <1>2, <1>3, <2>1, <2>3, KindKept DEF OnlyOp, histVars
  <2> QED BY <2>2, <2>3
<1>4. CASE CommitFull \/ BeginFails \/ StopScan \/ EndScan \/ Finish
  <2>1. OnlyOp /\ op.st \in {"scan", "final"}
    BY <1>4 DEF CommitFull, BeginFails, StopScan, EndScan, Finish
  <2>2. CASE op.kind = "download"
    BY <1>1, <1>4, <2>1, <2>2, ChunkMovesOn DEF BackInv, Fetching
  <2>3. CASE op.kind # "download"
    BY <1>2, <1>4, <2>1, <2>3, KindKept DEF OnlyOp, histVars
  <2> QED BY <2>2, <2>3
<1>5. ASSUME NEW r \in Ids,
             SkipInvalid(r) \/ LinkRow(r) \/ SkipDuplicate(r) \/ InsertRow(r) \/ InsertFails(r)
      PROVE  BackInv' /\ cursor' >= cursor
  <2>1. OnlyOp /\ op.st = "scan"
    BY <1>5 DEF SkipInvalid, LinkRow, SkipDuplicate, InsertRow, InsertFails, Record
  <2>2. CASE op.kind = "download"
    BY <1>1, <1>5, <2>1, <2>2, RecordMovesOn DEF BackInv, Fetching
  <2>3. CASE op.kind # "download"
    BY <1>2, <1>5, <2>1, <2>3, KindKept DEF OnlyOp, histVars
  <2> QED BY <2>2, <2>3
<1>6. ASSUME \/ \E k \in Keys : RemoteLog(k) \/ LocalLog(k)
             \/ \E r \in Ids : RemoteDelete(r)
             \/ UNCHANGED vars
      PROVE  BackInv' /\ cursor' >= cursor
  <2>1. UNCHANGED <<cursor, known, purge, overlap, op>>
    BY <1>6 DEF RemoteLog, LocalLog, RemoteDelete, vars, histVars
  <2> QED BY <1>2, <2>1
<1>7. CASE Mark
  <2>1. op.st = "mark" /\ UNCHANGED <<cursor, known, purge, overlap>> /\ cursor' >= cursor
    BY <1>0, <1>7 DEF Mark
  <2>2. op'.st = "sent" /\ op'.last = op.last /\ op'.kind = op.kind
    <3>1. op \in Ops /\ op.last \in 0..MaxId
      BY DEF TypeOK, Ops
    <3>2. op' = Sent(op, "done", op.last)
      BY <1>7 DEF Mark
    <3> QED BY <3>1, <3>2, SentType
  <2> QED BY <2>1, <2>2 DEF BackInv, Fetching
<1>8. CASE Abort
  <2>1. /\ op'.kind = op.kind /\ op'.st = op.st /\ op'.from = op.from /\ op'.last = op.last
        /\ op'.todo = op.todo /\ op'.ckpt = op.ckpt /\ op'.safe = op.safe
        /\ op.st \in {"pages", "list", "scan"}
    BY <1>0, <1>8 DEF Abort, Ops
  <2>2. UNCHANGED <<cursor, known, purge, overlap>> /\ cursor' >= cursor
    BY <1>0, <1>8 DEF Abort, histVars
  <2> QED BY <2>1, <2>2 DEF BackInv, Fetching, Beyond
<1>9. CASE StartDownload
  <2>1. op' = [Idle EXCEPT !.kind = "download", !.st = "pages", !.from = known, !.last = known]
    BY <1>9 DEF StartDownload
  <2>2. /\ op'.kind = "download" /\ op'.st = "pages" /\ op'.from = known /\ op'.last = known
        /\ op'.todo = {} /\ op'.ckpt = None /\ op'.safe = None
    BY <2>1 DEF Idle
  <2>3. UNCHANGED <<cursor, known, purge>> /\ (overlap => overlap') /\ cursor' >= cursor
    <3>1. UNCHANGED <<cursor, known, purge>> /\ (overlap => overlap')
      BY <1>9 DEF StartDownload
    <3> QED BY <1>0, <3>1
  <2>4. Beyond(op')
    BY <1>0, <2>2 DEF Beyond
  <2> QED BY <1>0, <2>2, <2>3, <2>4 DEF BackInv, Fetching
<1>10. CASE StartImport
  <2>1. op'.kind = "import"
    BY <1>10 DEF StartImport, Idle
  <2>2. UNCHANGED <<cursor, known, purge>> /\ (overlap => overlap') /\ cursor' >= cursor
    <3>1. UNCHANGED <<cursor, known, purge>> /\ (overlap => overlap')
      BY <1>10 DEF StartImport
    <3> QED BY <1>0, <3>1
  <2> QED BY <2>1, <2>2 DEF BackInv, Fetching
<1>11. CASE OpenEditor
  <2>1. op.st = "idle" /\ op' = op /\ known' = cursor /\ cursor' = cursor
        /\ purge' = [purge EXCEPT !.own = purge.own /\ purge.st = "idle"]
        /\ overlap' = (overlap \/ purge.st # "idle")
    BY <1>11 DEF OpenEditor
  <2>2. purge'.st = purge.st /\ purge'.own = (purge.own /\ purge.st = "idle")
    BY <1>0, <2>1
  <2>3. ~overlap' => ~overlap /\ purge.st = "idle"
    BY <2>1
  <2>4. ~overlap' => purge'.own
    BY <2>2, <2>3 DEF BackInv
  <2>5. op'.st = "idle" /\ known' = cursor' /\ cursor' >= cursor
    BY <1>0, <2>1
  <2> QED BY <2>4, <2>5 DEF BackInv, Fetching
<1>12. CASE ConfirmPurge
  <2>1. op.st = "idle" /\ UNCHANGED <<op, cursor, overlap>> /\ purge'.own /\ purge'.st = "running"
    BY <1>12 DEF ConfirmPurge, histVars
  <2> QED BY <1>0, <2>1 DEF BackInv, Fetching
<1>13. CASE RunPurge
  <2>1. UNCHANGED <<op, cursor, known, overlap>> /\ purge'.own = purge.own /\ purge'.st = "done"
    BY <1>0, <1>13 DEF RunPurge
  <2> QED BY <1>0, <2>1 DEF BackInv, Fetching, Beyond
<1>14. CASE PurgeDone
  <2>1. /\ purge.st = "done" /\ op' = op /\ overlap' = overlap /\ cursor' = 0
        /\ known' = IF purge.own THEN 0 ELSE known
        /\ purge'.own = TRUE /\ purge'.st = "idle"
    BY <1>0, <1>14 DEF PurgeDone, histVars
  <2>2. op.from \in Nat /\ op.last \in Nat
    BY DEF TypeOK, Ops
  <2> QED BY <2>1, <2>2 DEF BackInv, Fetching, Beyond
<1>15. CASE Deliver
  <2>1. op.st = "sent" /\ op'.kind = "none" /\ op'.st = "idle" /\ UNCHANGED <<purge, overlap>>
    BY <1>15 DEF Deliver, Idle, histVars
  <2>2. CASE op.kind = "download" /\ op.res = "done"
    <3>1. cursor' = op.last /\ known' = op.last
      BY <1>15, <2>2 DEF Deliver, Pulling
    <3> QED BY <1>0, <2>1, <2>2, <3>1 DEF BackInv, Fetching
  <2>3. CASE ~(op.kind = "download" /\ op.res = "done")
    <3>1. UNCHANGED <<cursor, known>>
      BY <1>15, <2>3 DEF Deliver, Pulling
    <3> QED BY <1>0, <2>1, <3>1 DEF BackInv, Fetching
  <2> QED BY <2>2, <2>3
<1>16. CASE Crash
  <2>1. op'.kind = "none" /\ op'.st = "idle" /\ cursor' = cursor /\ known' = cursor
        /\ purge'.st = "idle" /\ purge'.own = TRUE
    BY <1>0, <1>16 DEF Crash, Idle
  <2> QED BY <1>0, <2>1 DEF BackInv, Fetching
<1> QED
  BY <1>3, <1>4, <1>5, <1>6, <1>7, <1>8, <1>9, <1>10, <1>11, <1>12, <1>13, <1>14, <1>15, <1>16
     DEF Next, Step, Worker

\* Only a purge takes the cursor back: whatever fails, the next download starts
\* no earlier than this one did.
THEOREM CursorStays == ~Uses("duplicates") => (Spec => CursorNeverBack)
<1> SUFFICES ASSUME ~Uses("duplicates") PROVE Spec => CursorNeverBack
  OBVIOUS
<1>1. Init => BackInv
  BY DEF Init, BackInv, Idle, Fetching
<1>2. TypeOK /\ IInv1 /\ [Next]_vars => IInv1'
  BY InvStep
<1>3. TypeOK /\ TypeOK' /\ IInv1 /\ BackInv /\ [Next]_vars =>
        BackInv' /\ (cursor' >= cursor \/ purge.st # "idle" \/ overlap)
  BY BackStep
<1>4. (cursor' >= cursor \/ purge.st # "idle" \/ overlap) =>
        [cursor' >= cursor \/ purge.st # "idle" \/ overlap]_vars
  OBVIOUS
<1> QED BY <1>1, <1>2, <1>3, <1>4, InvInit, TypeCorrect, PTL DEF Spec, CursorNeverBack
=============================================================================
