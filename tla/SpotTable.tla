------------------------------ MODULE SpotTable ------------------------------
(***************************************************************************)
(* The DX cluster's spots on the screen.  Workers store them in the logbook's*)
(* database, one per call; the table is built from a filtered copy, kept with *)
(* the filters it was made for, and the next frame rebuilds it when needed.   *)
(* The spot under the cursor is remembered, for the form and the radio.       *)
(***************************************************************************)
EXTENDS Integers, Sequences, FiniteSets, Functions

CONSTANTS
    Spots,          \* [call, band, freq, mode] records
    NoSpot,         \* no spot, and no logbook
    Books,
    MaxBatches

VARIABLES
    stored,         \* dxc_spots of each database, newest first
    book,
    flying,         \* a drained batch: being stored, or stored and to be announced
    batches,
    filter,         \* bandFilter and modeFilter, "" when off
    settling,       \* under 180 ms have passed since the last filter key
    cached,         \* cachedSpots, nil or with cachedBandFilter and cachedModeFilter
    sortedBand,     \* cachedSortBand
    ready,          \* tableReady
    shown, cursor,  \* the rows of the table
    selected        \* selectedCall, selectedSpot

spotVars == <<stored, book, flying, batches, filter, settling, cached, sortedBand, ready, shown, cursor, selected>>

CallsOf(s) == {s[i].call : i \in DOMAIN s}
Everyone == {s.call : s \in Spots}
Bands == {s.band : s \in Spots} \cup {""}
Modes == {s.mode : s \in Spots} \cup {""}
NoCache == [made |-> FALSE, rows |-> <<>>, by |-> [band |-> "", mode |-> ""], of |-> NoSpot]
Nothing == [stage |-> "none", of |-> NoSpot, spot |-> NoSpot]
MaxRows == Cardinality(Everyone)

SpotTypeOK ==
    /\ \A b \in Books : stored[b] \in Seq(Spots) /\ Cardinality(CallsOf(stored[b])) = Len(stored[b])
    /\ book \in Books
    /\ flying \in [stage : {"none", "store", "announce"}, of : Books \cup {NoSpot}, spot : Spots \cup {NoSpot}]
    /\ batches \in 0..MaxBatches /\ settling \in BOOLEAN /\ ready \in BOOLEAN
    /\ filter \in [band : Bands, mode : Modes] /\ sortedBand \in Bands
    /\ cached.rows \in Seq(Spots) /\ cached.by \in [band : Bands, mode : Modes] /\ cached.of \in Books \cup {NoSpot}
    /\ shown \in Seq(Spots) /\ cursor \in 0..MaxRows /\ selected \in Spots \cup {NoSpot}

SpotInit ==
    /\ stored = [b \in Books |-> <<>>]
    /\ book \in Books /\ flying = Nothing /\ batches = 0
    /\ filter = [band |-> "", mode |-> ""] /\ settling = FALSE
    /\ cached = NoCache /\ sortedBand = "" /\ ready = FALSE /\ shown = <<>> /\ cursor = 0
    /\ selected = NoSpot

-----------------------------------------------------------------------------

\* The rows of a database that pass the filters f.
Matches(rows, f) == SelectSeq(rows, LAMBDA s : f.band \in {"", s.band} /\ f.mode \in {"", s.mode})

\* A band is sorted once, when it becomes the filter: sort.Slice leaves spots on one
\* frequency in any order.
Sorts(sorted) == filter.band # "" /\ filter.band # sorted
Falls(rows) == \A i, j \in DOMAIN rows : i < j => rows[i].freq >= rows[j].freq
ByFrequency(rows) == {s \in {[i \in DOMAIN rows |-> rows[p[i]]] : p \in Bijection(DOMAIN rows, DOMAIN rows)} : Falls(s)}

\* dxcFilteredSpots, on a cache c and the band it was sorted for.
Valid(c) == c.made /\ c.by = filter
Requeried(sorted) ==
    LET rows == Matches(stored[book], filter)
    IN  [made : {TRUE}, rows : IF Sorts(sorted) THEN ByFrequency(rows) ELSE {rows}, by : {filter}, of : {book}]
Filtered(c, sorted) ==
    IF Valid(c) THEN cached' = c /\ sortedBand' = sorted
                ELSE cached' \in Requeried(sorted) /\ sortedBand' = filter.band

\* drainDXCSpots: the worker gets the database of the logbook of now.
Drain(s) ==
    /\ flying.stage = "none" /\ batches < MaxBatches
    /\ flying' = [stage |-> "store", of |-> book, spot |-> s] /\ batches' = batches + 1
    /\ UNCHANGED <<stored, book, filter, settling, cached, sortedBand, ready, shown, cursor, selected>>

\* InsertDXCSpots replaces the call's spot; a database closed meanwhile drops it.
Works ==
    /\ flying.stage = "store"
    /\ \/ /\ stored' = [stored EXCEPT ![flying.of] =
                 <<flying.spot>> \o SelectSeq(@, LAMBDA s : s.call # flying.spot.call)]
          /\ flying' = [flying EXCEPT !.stage = "announce"]
       \/ /\ flying.of # book /\ flying' = Nothing /\ UNCHANGED stored
    /\ UNCHANGED <<book, batches, filter, settling, cached, sortedBand, ready, shown, cursor, selected>>

\* PurgeOldDXCSpots, after a batch; the table is not told.
Purge ==
    /\ flying.stage = "announce" /\ Len(stored[flying.of]) > 1
    /\ stored' = [stored EXCEPT ![flying.of] = SubSeq(@, 1, Len(@) - 1)]
    /\ UNCHANGED <<book, flying, batches, filter, settling, cached, sortedBand, ready, shown, cursor, selected>>

\* handleDXCSpotsStored
Announced ==
    /\ flying.stage = "announce" /\ flying' = Nothing
    /\ ready' = FALSE
    /\ Filtered(NoCache, "")
    /\ UNCHANGED <<stored, book, batches, filter, settling, shown, cursor, selected>>

\* The filter keys: the old rows stay for a moment, and cannot be chosen from.
FilterKey(f) ==
    /\ f # filter /\ filter' = f
    /\ ready' = FALSE /\ settling' = TRUE
    /\ UNCHANGED <<stored, book, flying, batches, cached, sortedBand, shown, cursor, selected>>
Settles ==
    /\ settling /\ settling' = FALSE
    /\ UNCHANGED <<stored, book, flying, batches, filter, cached, sortedBand, ready, shown, cursor, selected>>

\* Opening the screen, and a contact that is logged, have the table rebuilt.
Open ==
    /\ ready /\ ready' = FALSE
    /\ UNCHANGED <<stored, book, flying, batches, filter, settling, cached, sortedBand, shown, cursor, selected>>

\* dxcView, buildDXCTable: the cursor goes to the call that was selected.
Build ==
    /\ ~ready /\ ~settling
    /\ Filtered(cached, sortedBand)
    /\ shown' = cached'.rows /\ ready' = TRUE
    /\ cursor' = LET same == {i \in DOMAIN shown' : selected # NoSpot /\ shown'[i].call = selected.call}
                 IN  IF shown' = <<>> THEN 0 ELSE IF same = {} THEN 1 ELSE CHOOSE i \in same : TRUE
    /\ selected' = IF shown' = <<>> THEN NoSpot ELSE shown'[cursor']
    /\ UNCHANGED <<stored, book, flying, batches, filter, settling>>

\* updateDXCSelectedCall: the whole spot is remembered.
MoveCursor(i) ==
    /\ ready /\ i \in DOMAIN shown /\ i # cursor
    /\ cursor' = i
    /\ selected' = IF i \in DOMAIN cached.rows THEN cached.rows[i] ELSE NoSpot
    /\ UNCHANGED <<stored, book, flying, batches, filter, settling, cached, sortedBand, ready, shown>>

\* The caches of the table are left as they are.
Switch(b) ==
    /\ b # book /\ book' = b
    /\ UNCHANGED <<stored, flying, batches, filter, settling, cached, sortedBand, ready, shown, cursor, selected>>

SpotNext ==
    \/ \E s \in Spots : Drain(s)
    \/ \E f \in [band : Bands, mode : Modes] : FilterKey(f)
    \/ \E i \in 1..MaxRows : MoveCursor(i)
    \/ \E b \in Books : Switch(b)
    \/ Works \/ Purge \/ Announced \/ Settles \/ Open \/ Build

SpotSpec == SpotInit /\ [][SpotNext]_spotVars

-----------------------------------------------------------------------------

\* dxcSpotAtCursor: what Enter puts into the form, and Space on the radio, is the
\* spot on the highlighted row, call and frequency.
SelectedIsHighlighted == ready => selected = (IF shown = <<>> THEN NoSpot ELSE shown[cursor])

\* A rebuild keeps the call the operator had selected, if it is still listed.
SelectionFollowsCall ==
    ~ready /\ ready' /\ selected # NoSpot /\ selected.call \in CallsOf(shown') => selected'.call = selected.call

\* A table that is up to date lists the stored spots that pass its filters; only
\* what a purge removed may stay until the next batch.
NoSpotIsMissed ==
    ready /\ flying.stage = "none" /\ cached.of = book => Range(Matches(stored[book], filter)) \subseteq Range(shown)

\* dxcFilteredSpots: with a band selected the highest frequency is on top.
\* Violated: another filter key queries again and does not sort again.
BandIsSorted == ready /\ filter.band # "" => Falls(shown)

\* The screen shows the spots of the open logbook.  Violated: a switch keeps the cache.
ShowsThisLogbook == ready => cached.of = book
=============================================================================
