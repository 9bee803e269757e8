----------------------------- MODULE WorkedIndex -----------------------------
(***************************************************************************)
(* The materialized worked index of CQOps (store/worked_index.go): counts, *)
(* confirmations, source masks and first/last stamps per base call, grid   *)
(* and DXCC level, and the completeness counters.  Every statement that    *)
(* writes the qsos table moves the index by a delta in its transaction; a  *)
(* rebuild computes it from the rows.  A transaction is one action, and    *)
(* one that fails changes nothing.                                         *)
(***************************************************************************)
EXTENDS Integers, FiniteSets, FiniteSetsExt

CONSTANTS
    Ids, NoRow,
    None,       \* the empty string of a column
    Forms,      \* the contacts that are entered, imported or downloaded
    BaseOf,     \* DeriveBaseCall
    EntityOf,   \* the Big CTY prefix table: an entity or None
    Fills,      \* what a callbook answers: a grid or None, an entity or None
    Idle        \* no backfill pass is running

VARIABLES
    rows,   \* the qsos table
    idx,    \* worked_call, worked_grid, worked_dxcc: aggregates by key
    cover,  \* worked_index_meta: the completeness counters
    pass    \* the rows and entities a DXCC backfill pass has resolved

indexVars == <<rows, idx, cover, pass>>

LoggedIn(log) == {i \in Ids : log[i] # NoRow}

-----------------------------------------------------------------------------
(* What a row contributes. *)

contributionOf(r) == [r EXCEPT !.call = BaseOf[r.call]]

Levels(r) ==
    IF r.dxcc = None THEN {}
    ELSE {<<"dxcc", r.dxcc, b, m>> : b \in {None, r.band}, m \in {None, r.mode}}

KeysOf(r) ==
    {<<"call", BaseOf[r.call]>>}
        \cup (IF r.grid = None THEN {} ELSE {<<"grid", r.grid>>})
        \cup Levels(r)

\* Only worked_dxcc has a source mask.
MaskOf(k, S) == IF k[1] = "dxcc" THEN S ELSE {}

Group(log, k) == {i \in LoggedIn(log) : k \in KeysOf(log[i])}

First(log, k) == Min({log[i].stamp : i \in Group(log, k)})
Last(log, k) == Max({log[i].stamp : i \in Group(log, k)})
Sources(log, k) == MaskOf(k, {log[i].src : i \in Group(log, k)})

Summary(log, k) ==
    [n |-> Cardinality(Group(log, k)),
     conf |-> Cardinality({i \in Group(log, k) : log[i].conf}),
     mask |-> Sources(log, k), first |-> First(log, k), last |-> Last(log, k)]

rebuildWorkedIndex(log) ==
    [k \in UNION {KeysOf(log[i]) : i \in LoggedIn(log)} |-> Summary(log, k)]

Lacking(log, c) == Cardinality({i \in LoggedIn(log) : log[i][c] = None})

scanCoverage(log) ==
    [qsos |-> Cardinality(LoggedIn(log)), noDXCC |-> Lacking(log, "dxcc"),
     noBand |-> Lacking(log, "band")]

-----------------------------------------------------------------------------
(* The deltas. *)

Confirms(r) == IF r.conf THEN 1 ELSE 0

Single(k, r) == [n |-> 1, conf |-> Confirms(r), mask |-> MaskOf(k, {r.src}),
                 first |-> r.stamp, last |-> r.stamp]

Joined(a, k, r) ==
    [n |-> a.n + 1, conf |-> a.conf + Confirms(r), mask |-> a.mask \cup MaskOf(k, {r.src}),
     first |-> Min({a.first, r.stamp}), last |-> Max({a.last, r.stamp})]

\* An upsert for each of the keys K that row r joins.
Added(ix, K, r) ==
    [k \in DOMAIN ix \cup K |->
        IF k \notin K THEN ix[k] ELSE IF k \in DOMAIN ix THEN Joined(ix[k], k, r) ELSE Single(k, r)]

\* Mutant: the edges and the mask of a surviving aggregate are not recomputed.
LeftKeepsEdges(a, k, r, log) == [a EXCEPT !.n = @ - 1, !.conf = Max({0, @ - Confirms(r)})]

\* An aggregate that outlives a removal takes edges and mask from the table.
Left(a, k, r, log) ==
    [n |-> a.n - 1, conf |-> Max({0, a.conf - Confirms(r)}), mask |-> Sources(log, k),
     first |-> First(log, k), last |-> Last(log, k)]

\* Row r has left its keys; log is the table without it.
Removed(ix, r, log) ==
    LET stays == {k \in DOMAIN ix : k \in KeysOf(r) => ix[k].n > 1}
    IN [k \in stays |-> IF k \in KeysOf(r) THEN Left(ix[k], k, r, log) ELSE ix[k]]

Moved(n, by, moves) == IF moves THEN Max({0, n + by}) ELSE n

applyCoverageDelta(c, r, by) ==
    [qsos |-> Moved(c.qsos, by, TRUE), noDXCC |-> Moved(c.noDXCC, by, r.dxcc = None),
     noBand |-> Moved(c.noBand, by, r.band = None)]

\* Mutant: a locator that was filled in or changed is not noticed.
SameButGrid(old, new) == contributionOf(old) = contributionOf([new EXCEPT !.grid = old.grid])

\* An edit that changes no contribution leaves the index alone.
SameContribution(old, new) == contributionOf(old) = contributionOf(new)

\* reindexQSO: the old row stops counting, the stored new one starts.
Reindexed(old, new, log) ==
    IF SameContribution(old, new) THEN UNCHANGED <<idx, cover>>
    ELSE /\ idx' = Added(Removed(idx, old, log), KeysOf(new), new)
         /\ cover' = applyCoverageDelta(applyCoverageDelta(cover, old, -1), new, 1)

-----------------------------------------------------------------------------
(* The writes of the qsos table. *)

\* A migrated, empty database.
IndexInit ==
    /\ rows = [i \in Ids |-> NoRow] /\ idx = rebuildWorkedIndex(rows)
    /\ cover = scanCoverage(rows) /\ pass = Idle

Insert(i, f) ==
    /\ rows[i] = NoRow
    /\ rows' = [rows EXCEPT ![i] = f]
    /\ idx' = Added(idx, KeysOf(f), f)
    /\ cover' = applyCoverageDelta(cover, f, 1)
    /\ UNCHANGED pass

\* The entity a saved row gets: a fresh one, none when the old one belonged to
\* another call, or the stored one.
EntityAfter(old, f) ==
    IF f.dxcc # None THEN f.dxcc ELSE IF f.call # old.call THEN None ELSE old.dxcc

\* The editor's form carries no entity and no confirmation; a merged remote
\* record may.
Update(i, f) ==
    /\ rows[i] # NoRow
    /\ LET new == [f EXCEPT !.dxcc = EntityAfter(rows[i], f), !.conf = f.conf \/ rows[i].conf]
       IN /\ rows' = [rows EXCEPT ![i] = new]
          /\ Reindexed(rows[i], new, rows')
    /\ UNCHANGED pass

\* Callbook data only fills what is empty.
Filled(r, grid, dxcc) ==
    [r EXCEPT !.grid = IF @ = None THEN grid ELSE @, !.dxcc = IF @ = None THEN dxcc ELSE @]

Enrich(i, a) ==
    /\ rows[i] # NoRow
    /\ LET new == Filled(rows[i], a.grid, a.dxcc)
       IN /\ rows' = [rows EXCEPT ![i] = new]
          /\ Reindexed(rows[i], new, rows')
    /\ UNCHANGED pass

Delete(i) ==
    /\ rows[i] # NoRow
    /\ rows' = [rows EXCEPT ![i] = NoRow]
    /\ idx' = Removed(idx, rows[i], rows')
    /\ cover' = applyCoverageDelta(cover, rows[i], -1)
    /\ UNCHANGED pass

Purge ==
    /\ rows' = [i \in Ids |-> NoRow]
    /\ idx' = rebuildWorkedIndex(rows') /\ cover' = scanCoverage(rows')
    /\ UNCHANGED pass

\* A pass resolves the calls of (a batch of) the rows without an entity.
BackfillRead ==
    /\ pass = Idle
    /\ \E S \in SUBSET {i \in LoggedIn(rows) : rows[i].dxcc = None /\ EntityOf[rows[i].call] # None} :
          pass' = [i \in S |-> EntityOf[rows[i].call]]
    /\ UNCHANGED <<rows, idx, cover>>

\* backfillDXCCIndex: only the DXCC levels and one counter move.
Backfilled(c, gained) == [c EXCEPT !.noDXCC = Max({0, @ - Cardinality(gained)})]

BackfilledIndex(ix, gained, log) ==
    FoldSet(LAMBDA i, acc : Added(acc, Levels(log[i]), log[i]), ix, gained)

\* The pass writes where the entity is still missing, whatever the call is now.
BackfillWrite ==
    /\ pass # Idle
    /\ LET gained == {i \in DOMAIN pass : rows[i] # NoRow /\ rows[i].dxcc = None}
       IN /\ rows' = [i \in Ids |-> IF i \in gained THEN [rows[i] EXCEPT !.dxcc = pass[i]] ELSE rows[i]]
          /\ idx' = BackfilledIndex(idx, gained, rows')
          /\ cover' = Backfilled(cover, gained)
    /\ pass' = Idle

\* RebuildWorkedIndex, when the rules of the index changed.
Rebuild ==
    /\ idx' = rebuildWorkedIndex(rows) /\ cover' = scanCoverage(rows)
    /\ UNCHANGED <<rows, pass>>

\* The pass dies with the program; the database stays.
Restart == pass # Idle /\ pass' = Idle /\ UNCHANGED <<rows, idx, cover>>

IndexNext ==
    \/ \E i \in Ids : \/ \E f \in Forms : Insert(i, f) \/ Update(i, f)
                      \/ \E a \in Fills : Enrich(i, a)
                      \/ Delete(i)
    \/ Purge \/ BackfillRead \/ BackfillWrite \/ Rebuild \/ Restart

IndexSpec == IndexInit /\ [][IndexNext]_indexVars

-----------------------------------------------------------------------------
(* Properties. *)

Aggregates == [n : Nat, conf : Nat, mask : SUBSET {f.src : f \in Forms},
               first : {f.stamp : f \in Forms}, last : {f.stamp : f \in Forms}]

\* Every aggregate is well formed and every counter a number.
IndexTypeOK ==
    /\ DOMAIN rows = Ids
    /\ \A k \in DOMAIN idx : idx[k] \in Aggregates /\ idx[k].n > 0
    /\ cover \in [qsos : Nat, noDXCC : Nat, noBand : Nat]

\* The comment of worked_index.go: the tables are summaries of qsos, so the
\* incremental index is at every moment the one a rebuild would write.
IndexIsRebuild == idx = rebuildWorkedIndex(rows)

\* Coverage answers from the counters what a scan of the log would.
CoverageIsScan == cover = scanCoverage(rows)

\* The index never drifts from the log.
IndexTruthful == IndexIsRebuild /\ CoverageIsScan

\* The verdicts the panel computes from an aggregate and the counters.
Calls == {<<"call", BaseOf[c]>> : c \in DOMAIN BaseOf}
Grids == {<<"grid", f.grid>> : f \in {g \in Forms : g.grid # None}}
Entities == {<<"dxcc", EntityOf[c], None, None>> : c \in {d \in DOMAIN EntityOf : EntityOf[d] # None}}
Asked == Calls \cup Grids \cup Entities

DXCCComplete == cover.noDXCC = 0

Verdict(worked, complete) == IF worked THEN "worked" ELSE IF complete THEN "new" ELSE "unknown"

Answers == [s \in Asked |-> Verdict(s \in DOMAIN idx, s[1] # "dxcc" \/ DXCCComplete)]

IsWith(s, r) == s \in KeysOf(r)
MayHideEntity(s, r) == s[1] = "dxcc" /\ r.dxcc = None

Panel == INSTANCE WorkedLog WITH log <- rows, verdicts <- Answers, Subjects <- Asked,
                                 Matches <- IsWith, MayHide <- MayHideEntity

\* The index implements the promise of WorkedLog: the panel never says "worked"
\* of a station without a contact, nor "new" where a contact may hide.
PanelIsHonest == Panel!LogSpec
==============================================================================
