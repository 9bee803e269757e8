# CQOps: formal models

CQOps is an offline-first logger for radio amateurs: a terminal program (Go,
Bubble Tea) that writes every contact (QSO) to a local SQLite logbook and keeps
it in step with a Wavelog server, a callbook, the radio and a dozen other
sources. This directory holds TLA+ models of the parts whose correctness
depends on the order in which concurrent things happen, the TLC instances that
check them, and TLAPS proofs about them.

Paths below are relative to `src/internal/`.

## 1. The system

One goroutine, the *owner loop*, runs the user interface: `Model.Update`
handles one message at a time and is the only one that touches UI state, the
per-contact coordinator and the configuration. Everything slow runs as a
`tea.Cmd`, a goroutine that ends with one message. The goroutines share two
things with the loop: the SQLite database, statement by statement, and the
Wavelog server, request by request. Most of the difficulty of the program is
in that sentence; the rest is in the few long-lived goroutines (DX cluster,
APRS, GPS, WSJT-X, dashboard) that the loop starts, stops and replaces.

| component | state | hard behaviour | what makes it correct | module |
|---|---|---|---|---|
| Wavelog synchronisation (`tui/logbook_editor_sync.go`, `wavelog_integration.go`, `store/queries_wavelog.go`) | `wavelog_id`, `wavelog_dirty`, `wavelog_dirty_rev`; coordinator; workers | edits during requests, lost and late answers, crashes, two statements where one is meant | a clean row is on the server; a pending row has someone to push it; one PATCH per contact, in order | `WavelogSync` |
| Database leases (`app/app.go`) | `DB`, `dbHolders` | leases travel from workers to messages to chains | a used handle is open; a replaced one is closed | `DBLease` |
| Download, import, export (`tui/logbook_editor_update.go`, `wavelog/wavelog.go`) | cursor, chunk, progress channel | failures inside a chunk; one reader of a channel that may be full or closed | the cursor never passes a record that is not stored; the end is shown once | `Download`, `DownloadPump` |
| Editor session (`tui/logbook_editor.go`) | page, cursor, form, `gen`, `editSession`, `editRev` | late results of earlier sessions | typed input survives; the cursor is on a contact that exists | `EditorList`, `EditorForm`, `ContactDelete` |
| QSO store, worked index (`store/queries_qso.go`, `worked_index.go`) | rows, aggregates, coverage | two ways to compute the same tables | they agree; "new" is said only when nothing can hide | `WorkedIndex`, `WorkedLog` |
| Migrations (`store/migrations.go`) | schema, `user_version` | a crash between two statements | the next start completes the migration | `Migrations` |
| QSO form and callbook (`tui/callbook_integration.go`, `callbook/`, `qrzcom/`, `qrzru/`, `hamqth/`) | form fields, lookups, session keys | answers after the form moved on; contradicting sources; shared keys | an answer goes to the contact it was asked for | `FormLookup`, `Callbook` |
| Logging (`tui/qso_form_update.go`, `qso_lifecycle.go`, `model.go`) | duplicate verdict, contest tag and exchange, recent contacts | writers behind the form, reloads out of order, contests changed under a filled form | what is warned of, sent and listed is that of the open log and the active contest | `DupeCheck`, `ContestEntry`, `RecentTable` |
| Screens (`tui/model.go`, `update_keys.go`, `update_screens.go`) | screen, overlays, models of screens | keys and messages take different ways; models outlive their screen | a screen has its model, a running operation its Abort | `ScreenRouting` |
| WSJT-X (`wsjtx/`, `tui/wsjtx_integration.go`) | UDP reader, event loop, queue and its file | replacing a listener under load; crashes | a contact is logged once | `WSJTX` |
| Rig and rotor (`tui/rig_poll.go`, `rig/`, `tui/dxc_tune.go`) | clients, polls, tune commands | stale and stuck polls; answers without a tag | what is shown is the chosen radio | `RigControl`, `RigLine` |
| DX cluster (`dxc/`, `tui/dxc_integration.go`, `dxc_table.go`) | client, attempts, spots | a connect that ends after a reset; Stop waits for goroutines | one connection, known to its owner; the selected spot is the highlighted one | `DXCluster`, `SpotTable` |
| APRS (`app/app.go`, `aprs/`) | client, cache, pruner, beacon | debounced restarts, background stops | workers end before their resources close | `APRSLink` |
| GPS (`gps/`) | last position, fix in three places | silence, unplugging | a dead fix is forgotten | `GPSLink` |
| PSK Reporter, solar (`tui/psk_reporter.go`, `solar/`) | caches | fetches across logbook switches, retries | shown data belong to their key; the server is spared | `PSKReporter`, `SolarPanel` |
| Reference data (`ref/`, `tui/integration_menu.go`) | a database file, two flags | rebuild against switching off and on | no handle leaks; the tab gets unblocked | `RefData` |
| Dashboard (`dashboard/`, `tui/httpsrv_integration.go`) | state, hub, listener | slow browsers, restarts, cached totals | the board comes to show the open logbook | `DashboardFeed`, `DashboardServer`, `HybridListener` |
| Configuration, secrets, lock (`config/`, `secrets/`, `app/lock.go`, menus) | two files, one lock | refused saves, crashes between files, racing starts | copies agree; no credential is lost; one owner | `Catalog`, `ConfigStore`, `InstanceLock` |
| Health checks (`tui/health_checks.go`) | online flags, retries | overlapping checks | an offline server is asked again | `Connectivity` |
| Menus and forms (`tui/menu_focus.go`, `station_form.go`, `wizard.go`) | focused row, station list | hidden rows, late verdicts | one visible focus; a list belongs to its form | `SettingsForms` |
| Rendering, ADIF, geography, logging, command line | - | none: pure or sequential | - | - |

`PROJECT.json` lists every component with what is modelled of it, and the
hazards at the lines where they bite.

## 2. Modules

| module | models | an action is |
|---|---|---|
| `WavelogSync`, `WavelogSync_proofs` | how a contact and its remote copy are kept in step | one database statement, one exchange with the server, or one message on the owner loop |
| `DBLease`, `DBLease_proofs` | who keeps a logbook database open | one critical section of `dbMu` with what the loop does around it |
| `Download`, `Download_proofs` | downloads, imports and purges: chunks, checkpoint, cursor, sync marker | one request, one record, one commit, or one message on the owner loop |
| `DownloadPump` | the channel between such an operation and the editor | a send, a receive, a message on the owner loop |
| link modules: `DXCluster`, `APRSLink`, `RigControl`, `RigLine`, `GPSLink`, `WSJTX`, `RefData`, `Links_proofs` | goroutines and connections the owner loop starts and replaces | a step of a goroutine between two points where others see it, a tick, a message |
| store modules: `WorkedLog`, `WorkedIndex`, `WorkedIndex_proofs`, `Migrations`, `Catalog`, `ConfigStore`, `InstanceLock`, `Store_proofs` | what is kept on disk | one transaction, one statement, one menu operation with its save, one system call |
| desk modules: `EditorList`, `EditorForm`, `FormLookup`, `Callbook`, `SpotTable`, `SettingsForms`, `PSKReporter`, `Connectivity`, `SolarPanel`, `DashboardFeed`, `DashboardServer`, `HybridListener`, `DupeCheck`, `RecentTable`, `ContestEntry`, `ScreenRouting`, `ContactDelete`, `Panels_proofs`, `Contacts_proofs` | what the operator and the browsers see | one key or message on the owner loop, one step of a worker |
| `MCLinks`, `MCStore`, `MCWork`, `MCDesk` | instances of them (section 3) | |

`PROJECT.json` maps each definition to the lines it stands for.

### WavelogSync

The row of a contact is `db[c] = [wid, dirty, rev, body]`: `wavelog_id`,
`wavelog_dirty`, `wavelog_dirty_rev` and the data. Of the data two things are
kept: `txt`, what the operator types, a fresh number per edit, and `enr`,
whether the blanks a callbook fills are filled. `srv[c]` is the live remote copy
with its id and the revision it was pushed at; `made` are the ids handed out.

`inFlight` and `queued` are the coordinator (`contactSyncCoord`); a PATCH chain
is a worker in `patch`, which walks `read` (the row is read fresh), `wire` (the
request), `ack` or `gone`/`clear` (the local bookkeeping) and `done` (a message
waiting for the owner loop). An upload is a worker in `up` on one of the paths
of `postQSOSingle`, `uploadBatchLeased` or the WSJT-X worker: `match` and `bulk`
(a backlog), `post` (JSON create), `import` and `blind` (ADIF fallback and its
unchecked id), `lookup` (id by identity), `attach` and `check` (the two
statements of `SetWavelogIDChecked`), `done`.

`merging` is a remote refresh between its read and its write: the owner loop is
inside a handler, so no other handler runs (`LoopFree`), but workers do. The link
it looks at first is that of the form's copy: `unlinked` are the contacts whose
row has lost its link to a PATCH that found the copy gone, while the form may
still hold it.
`listed` is the retry's list on its way to the loop, `page` what a download has
read. `late` are requests the client gave up on and the server executes later.

Three variables are history, read by properties and never by a guard: `seen`
(what the server has held), `blind` (the row was linked without knowing that
the server took this revision) and `owed` (why a pending row has nobody pushing
it: the operator was told, or one of three gaps described in section 5).

Left out: the shared-club rule that makes synced contacts read-only (it only
removes behaviour), deletes, the messages shown to the operator, and the fields
Wavelog matches duplicates by, which edits do not touch here. Contacts interact
only through the coordinator and the workers, so one contact is enough for the
data properties and two or three for the coordinator.

### DBLease

`table` is `dbHolders` with the set of open handles; `Acquire`, `Release` and
`Retire` are the three critical sections of `dbMu`, as functions from table to
table. A `job` is a background operation with a lease: a scan (download, import,
export, delete, purge, maintenance) releases it itself; an upload or a retry
list hands it to the owner loop with its result. `chain` is the coordinator's
`inFlight` map with the handle each chain leases: keyed by logbook and contact,
not by handle, which is why a chain begun under an older handle of the same
logbook can meet a result of a newer one. `safe` remembers whether the chain
got its lease on an open handle.

### Download

`op` is the running worker of `runDownload` or `runImport` with its local
variables under their meaning: `ckpt` and `safe` are `checkpointID` and
`safeCheckpoint`, `frozen` and `gap` are `frozen` and `idGap`, `cins` is
`chunkInserted`, `cut` a scanner error, `down` a transaction that could not be
opened, `stop` the cancelled context. It walks `pages`, `list` (the ids of the
whole log), `scan`, `final` (the last chunk), `mark` (`MarkRemoteSync`) and
`sent` (the terminal message). `tx` is what the open transaction has written;
`local` is what is committed. `cursor` is the persisted `LastFetchedID`, `known`
the editor's copy of it, which a download starts from.

A record of the server is its id, and its identity is `key`. A matching id is
not copied from the record: `FetchContactsProgressCtx` fills it from the list of
ids by identity, and `IdOf` does the same, with the newest id when there are
several. `UnmatchedKeys` are identities the two endpoints spell differently, so
that the record stays without an id; `InvalidKeys` are refused by
`ValidateImportRecord`. The records of an imported file are its positions. The
size of a page is the server's choice.

`handled`, `batch`, `stored`, `markedTo`, `cleared` and `overlap` are history.
`overlap` becomes true in the three situations the properties exclude, because
there the code really lets the cursor stand over an empty log: an editor opened
while a purge is under way, which keeps the old cursor; a download or an import
started beside a purge from such an editor; and a crash between the purge's
commit and the message that resets the cursor (section 5).

Left out: the file parser and the export. The message channel between worker and
owner loop is `DownloadPump`; `WavelogSync` models what a download does to rows
with pending edits.

### Link modules

`DXCluster`. `ui` is `m.dxc` (installed client, online, the attempt flag),
`cmd[c]` the connect command that made client `c` with one bit of its generation
(still current?), `conn[c]` the client: link, reader and redial loop, the status
channel of one element. `joining` is the owner loop inside `Stop`: it waits for
the goroutines and handles nothing else, which is why `StopEnds` is worth
checking. `Tick` is the whole of `maybeDXC`; `SaveConfig` and `InetResult` reset.

`APRSLink`. `own` is what `App` holds (client, cache, pruner, beacon), `peer`
the clients with their stage and whether they were told to stop, `restart` the
debounce timer and its token, `events` what beacons report. `own.behind` says
that what runs is not what the settings ask for and nobody will try again: a
start returned early (no callsign, no cache, no serial port), or a save failed
before the restart was scheduled. `RunPendingAPRS` is
the tick's restart as a whole, stop and start in one handler, while the slow
half of a stop is `BackgroundStop`.

`RigControl`, `RigLine`. The owner's side of a radio: clients, polls with the age
after which they are given up, the facts fetched once per connection. `RigLine`
holds what is said to the rig: the commands that tune and the `cancel` field of
each pane, and the line protocol below, in which a late answer is read as the
next one's. The three meet in a client object only, which each treats as opaque:
what one may do to the other is any answer at any time.

`GPSLink`. The reader, the last position with its two ages, and the fix in the
three places that keep it: `gpsUI`, `gpsApp`, `gpsBeacon`.

`WSJTX`. `run` is one listener: socket, reader, bounded
channel, event loop; `owner` walks through `MaybeRestartWSJTX`: detach, close,
join, drain, start. The queue has the backup file, the tick that takes
the queue, and crashes between any two of its steps. Every access to the file
may fail, silently and half-way (`Saves`; `saved` is whether the last write
succeeded). `fate` is history: the contacts reported, and of these the ones a
full queue dropped, `logQSOFromADIF` skipped as invalid (`refused`), or a crash
or a start found outside a readable file (`exposed`).

`RefData`. `db` is `App.RefDB`, which a rebuild worker reads when it starts to
run, not when it is made; `rebuild` and `refresh` are the workers. With
`offline`, the start-up flag, nothing is rebuilt or refreshed.

### Store modules

`WorkedLog` promises that the panel's verdict is the one a look at the whole log
would give: *worked* if a contact matches, *unknown* if one may hide, else *new*.
`WorkedIndex` implements it: `rows`, the aggregates `idx` by key (call, grid,
entity with band and mode levels), the coverage counters, and the DXCC backfill
that reads in one transaction and writes in others. The refinement maps `log` to
`rows` and the verdicts to what the panel computes from `idx` and `cover`
(`Panel == INSTANCE WorkedLog WITH ...`), and `PanelIsHonest` is the abstract
specification itself. `IndexIsRebuild` and `CoverageIsScan` are the invariants
that make it true.

`Migrations`. `todo` is the rest of the list of statements `Migrate` executes;
`have` the schema's objects. It starts from any older schema and stops anywhere.

`Catalog`. One action per menu operation, each with the save that ends it
(`Save`), which may be refused by `Validate` or fail; what a form changes in
memory stays changed then, and the handlers return before they count a
generation (`EditsUnsaved`). `app` is the second copy of the active logbook's
entry; `syncs` are station syncs under way with the generation they belong to;
`edition` is the generation of a logbook's last edit, `synced` and `held` the
sync that the station data in `App.Config` and in `App.Logbook` come from, and
`unsaved` names the logbooks whose sync could not be saved. `ConfigStore` is the
pair of files under one credential, with a crash between the two renames and
with a start that cannot read the secrets and runs without a store (`bare`). `InstanceLock` is `flock` on
inodes against `O_CREATE` on names.

### Desk modules

`EditorList`: page, cursor, search, the question asked and the contact it names.
`EditorForm`: the form with `editSession` and `editRev`, against the completions
of every earlier form and editor. `DownloadPump`: `pending` and `arriving` are
`readPending` and the message read but not yet taken.

`FormLookup`: the contact form against answers that come late; a field is blank,
typed, or data about a call, so that data about the wrong call are visible.
`FromTable` is the Enter in the DX table, which sets another call and keeps a
grid whose `source` is the operator or WSJT-X; `carried` marks the latter.
`Callbook` has two parts: a cascade, one lookup over the registry, in which a
value is blank, about the operation or about the base call (`CascadeSpec`), and
the session key shared by workers, for three clients that differ in what they
take for a dead key (`SessionsSpec`).

`DashboardFeed` (what the terminal pushes and when, with queries that fail after
the mark that asked for them was cleared, noted in `failed`), `DashboardServer` (snapshot,
subscription, bounded buffers; start, restart, stop of the server) and
`HybridListener` (first byte decides TLS or plain; slots; `Close`).

`SpotTable`, `PSKReporter`, `SolarPanel`, `Connectivity`: a panel, the cache
behind it, the worker that fills it, and the changes of logbook, filter, setting
or network meanwhile. In `PSKReporter` a cache file may fail to be written, and
an old one answers when the server cannot be reached (`FetchFallsBack`). In
`Connectivity` an edit turns Wavelog on or off (`EditLink`), and only the Escape
that leaves the menu forces a check (`LeaveMenu`; `edited` is the time between).
`SettingsForms` has the focus in menus and wizard, where
each form is cut down to a row of each kind (`FocusSpec`), and the logbook form
with its list of Wavelog stations (`PickerSpec`).

`DupeCheck`: the cached verdict of the duplicate warning (`cache` is its key,
with whether the data revision in it is still the current one) against every
writer of the log; `lost` names the logbooks with a change whose announcement
was dropped. `ContestEntry`: the contest's tag in the comment, the exchange
sent, the two Keep boxes and what a restart finds of them; numbers and the
received exchange are left out. `RecentTable`: the reloads of the table of
recent contacts, in `asked` with the logbook and contest each was asked for,
what it has read, and whether a switch has retired its database. `ScreenRouting`:
the screen in view, the three overlays, the models of editor and menu with their
`done`, and which layer takes a key. `ContactDelete`: one row and its copies at
Wavelog while the row is deleted, with upload and download as far as they touch
the id (`WavelogSync` and `Download` have them in full).

## 3. Runs

`tlc -config <run>.cfg <module>`; the longest run takes about two minutes.

| run | module | question | bounds |
|---|---|---|---|
| `sync_edits` | `WavelogSync` | edits, uploads, enrichment and retry under failing requests, lost answers, failing statements, offline periods and crashes | 1 contact, 2 PATCH workers, 1 upload, 3 texts, 1 id |
| `sync_refresh` | | remote refresh, download and enrichment against uploads and PATCHes, with a second operator on the server | 1 contact, 2 texts, 2 ids, revisions to 3 |
| `sync_uploads` | | two uploads of one contact on every path, with failing statements | 1 contact, 2 uploads |
| `sync_live` | | slots are released and pending edits settle, under `FairSpec`; with crashes, late requests and a second operator | 1 contact, 2 texts |
| `false_clean_download` | | expects a violation: section 5, number 1 | 1 contact |
| `leases` | `DBLease` | leases across logbook switches | 2 logbooks, 2 contacts, 3 handles, 2 jobs, 3 operations |
| `download` | `Download` | cursor, marker and counts over downloads, imports and a purge with every fault | 3 identities (one refused, one without id, one also logged here), 3 ids, chunks of 2, 2 operations, 1 purge, 1 deletion, files of 2 |
| `links` | `MCLinks` | the safety of `DXCluster`, `APRSLink`, `RigControl`, `RigLine`, `GPSLink`, `WSJTX`, `RefData` | 2 to 3 clients or commands of each kind, 2 changes of the settings, 1 crash |
| `links_live` | | their liveness, each under its own fairness | 2 logbooks, 2 clients of a kind (3 of APRS), 1 or 2 changes, 3 WSJT-X reports |
| `work_live` | `MCWork` | what somebody waits for ends: `DXCluster`, `DBLease`, `HybridListener`, `DownloadPump` | 2 clients; 2 handles and 2 operations; 2 connections on 1 slot; 2 downloads with 2 messages on a channel of 1 |
| `store` | `MCStore` | `WorkedIndex` against its rebuild and against `WorkedLog`, `Migrations`, `Catalog`, `ConfigStore`, `InstanceLock` | 2 rows out of 5 kinds of contact; 3 starts; 4 changes; 5 steps; 3 programs and 3 inodes |
| `desk` | `MCDesk` | `EditorList`, `EditorForm`, `DownloadPump`, `FormLookup`, `Callbook`, `SpotTable`, `SettingsForms`, `PSKReporter`, `Connectivity`, `SolarPanel`, `DupeCheck`, `RecentTable`, `ContestEntry`, `ScreenRouting`, `ContactDelete`, and the dashboard's three modules | 2 of what is told apart, 1 to 3 of what is counted |

**Harness modules.** `MCLinks`, `MCStore`, `MCWork` and `MCDesk` put several
components beside one another that share no state. Checking their product would
multiply state spaces that never touch, so a behaviour is one of a single
component: `part` names it, its own `Next` runs, the variables of the others
keep one initial value. What is checked of each component is exactly its own
specification; each property of a harness is the conjunction of its components'
properties, guarded by `part` where TLC would otherwise evaluate it in states
where the component rests. `MCDesk` has so many components that it gives them a
common pool of variables, `v1` to `v19`; each INSTANCE says which stands for
what. Rig and rotator of `RigControl` never meet, so `MCLinks` runs them as two
instances, each with the other absent.

**Why the bounds are enough.** What the synchronisation properties tell apart
is whether the row, the snapshot in a worker and the server agree, and which of
two revisions is newer. Three texts give an original, an edit during a request
and an edit during its follow-up; a second PATCH worker is what a second chain
of the same contact would need; two uploads are what the single, batch and
WSJT-X paths can run at once on one contact. Three handles give a switch away
and back to the same logbook while the first handle is still leased. For the
download, three records and chunks of two give a full chunk, a partial one and
a record after each; two operations give a pass that fails and the one that
repeats it, and every kind of record occurs before and after every other. For
the links, three APRS clients are the installed one, one being stopped in the
background and one just made; two DX cluster clients a stale attempt and the
current one; two rig clients the replaced and the chosen one; three tune
commands two in one pane and one in the other. In the worked index two rows are
what an aggregate needs to outlive a removal, and the five kinds of contact
share and miss every column that the keys and counters look at. For the lock,
three programs and three inodes give an owner, one that waits for the file the
owner removes, and one that creates the next. In the dialogs, two of a kind are
the one an answer was asked for and the one that is there when it comes; two
reloads are one that is late and the newer one; two contests, one of which fills
the exchange, and a logbook without any are what a contact can be moved between;
two copies at Wavelog are the one deleted and one that a repeated upload made.

**Deadlock** is not checked: the operator and the bounds may stop a behaviour
anywhere, and the program rests when nobody types. That nothing gets stuck is
what the liveness runs say.

**Symmetry** is used among workers of a kind, in `leases` among handles,
contacts, logbooks and jobs, in `links` among APRS clients and rig clients, in
`desk` among logbooks and callsigns; none of these is told apart by the
specifications. The liveness runs use no symmetry.

**Mutants.** The operators with the comment `Mutant:` belong to no
specification: each replaces the definition that follows it in a mutation test,
which shows that the property listed for it in `PROJECT.json` notices the fault.

### Fairness

- Workers (`WF` on each of their steps): every request ends within its client's
  timeout, every statement returns, so a worker's goroutine gets to its message.
- Message handlers (`WF`): the Bubble Tea runtime delivers every message to the
  loop and no handler waits. The exceptions are modelled as such: the loop waits
  in `Stop` of the DX cluster and of the WSJT-X listener, and no handler runs.
- Ticks (`WF`): the one-second timer message is armed again by its handler.
- Timers (`WF`): debounces and retry delays pass. `DXCluster` uses that the
  two-second delay of a redial is longer than the tick.
- Inserts of the WSJT-X queue (`SF` on `HandleRecord`): a database that is busy
  again and again lets an insert through at last; SQLite's busy timeout and the
  retry each second are what justify it.
- No fairness on the operator, on peers, servers, radios and other operators,
  on crashes, losses and late requests. Where a property needs the outside to
  behave, it says so (`<>[]timely => ...`, `<>[](gpsOn /\ gpsUp) => ...`).

## 4. Proofs

`tlapm` proves the theorems listed in `PROJECT.json` for every value of the
constants allowed by the assumption of the component (`SyncAssumption`,
`LeaseAssumption`, `DownloadAssumption`, `IndexAssumption`, `LockAssumption`,
`SecretsAssumption`, `CatAssumption`, `DxAssumption`, `ApAssumption`,
`TuneAssumption`, `RefAssumption`, `RigAssumption`, `MigAssumption`, `LinksBounds`,
and those of `MCDesk`, one per component that needs any): sets that are finite where the code's are, bounds that are numbers,
placeholders that are not values, contests a logbook lists once. Those that are
an ASSUME of the component's module TLC evaluates in the runs; the others are
hypotheses of the theorems. The proofs are in modules `..._proofs`. TLC has
checked each inductive invariant on the bounds of its component's run.

**Types.** `TypeCorrect` in `WavelogSync_proofs`, `DBLease_proofs` and
`Download_proofs`: type invariance, one lemma per action. `DiskIsTyped`
(`DiskTypeOK`) and `LinksAreTyped` (`LinksTypeOK`) do it for the harnesses `store`
and `links`: to the invariants below, which carry a part of the types, they add
what those leave out (`MigTypeStep`; the definitions `...Rest`). Two of the types
need an invariant of their own: the queue of WSJT-X, its records being handled
and its file are sequences over the contacts reported so far (`QueueRest`), which
is why what a full queue drops has been reported; and what a question leaves on
the line is the end of a sequence one report longer (`CmdGives`).

**Synchronisation.**

- `OneChain`: at most one PATCH per contact is on the wire, and the slot is
  taken exactly while one is. `OneChainPerContact` is inductive with `TypeOK`.
  The steps that matter are `PushOrQueue` (which looks at the slot), `PatchDone`
  (which gives it back or passes it on) and `RetryQueue`, which starts a set of
  chains at once and needs that the workers it picks are idle and different.
- `CleanIsPushed` (`CleanMeansPushed`) and `RefreshKeeps`
  (`RefreshLosesNothing`). A clean row says nothing of the requests that are
  under way, so neither is inductive. `IInv` (`Knowledge`) adds what every worker
  knows when it is about to write: a chain past its request has the revision
  that the server holds or held; an upload with an id has a copy made of the
  revision it read, or has noted that it does not know (`blind`); a refresh
  between its read and its write was told the truth about the row it read.
- `PendingHasOwner` (`PendingIsCovered`), by `CInv` (`Coverage`): who answers for
  a pending row at each stage of a chain and an upload, including the messages
  that have not arrived. The proof attempt found the third gap (section 5,
  number 38).
- `PushesStayInOrder` (`PushesInOrder`), by `OInv` (`Ordered`): the requests of a
  contact are under way one after the other, each with a revision at least that
  of the copy at the server. It assumes that no request is executed after the
  client gave it up (`~May("late")`), because one can be; `OnlyLateUndoes` needs
  no condition and says that this step is the only one that takes the server
  back.

**Leases.**

- `NoHandleLeaks`: a replaced handle that is open is retired and held. It is
  inductive by itself: only `Retire` makes a handle retired, and only with a
  holder; only the last `Release` ends that, and closes it.
- `LeasesCounted`: the reference count of a handle is the number of its users.
  The proof counts: starting and ending a job or a chain moves the cardinality
  of the set of users of one handle by one (lemmas about adding and removing an
  element of a finite set), starting a set of chains moves it by the size of
  the set. `SwitchLogbook` takes a handle never used before, and that it has no
  users is part of the induction.
- `DatabaseStaysOpen`: follows from the two before: a user of a handle makes its
  count positive, and a handle with a positive count is not closed. A chain
  that leased a handle already closed is the exception (`safe`, section 5).

**Downloads.**

- `CursorHonest` (`NothingSkipped`) and `MarkerHonest` (`MarkerTruthful`), as
  long as the server holds every contact once (`~Uses("duplicates")`, the
  condition section 5 shows to be needed). Neither is inductive: the cursor is
  copied from the message, the message from the checkpoint, the checkpoint from
  the last record passed. The invariant `IInv` says of each of these places that
  what lies below it is handled (`Reached`, `Progress`), counting for the open
  checkpoint what the transaction will commit, and for `safe` only what is
  committed, which is why a lost chunk must fall back to it. `Unique` is where
  the condition is used: the id a record gets from the list is its own.
  `Bounded` keeps records the server hands out later above every claim, and
  `Quiet` says that a purge meets neither a transaction nor a cursor that still
  stands for the rows it deletes.
- `CursorStays` (`CursorNeverBack`), under the same condition: `BackInv` says
  that every place the cursor is later copied from is at or above it while no
  purge runs, and `MovesOn` that a step leaves it there.
- `CountHonest` (`HonestCount`), without it: `CountInv` adds to the reported
  count the rows of the open chunk, which a failed commit takes back.

**Worked index.** `IndexIsHonest`: `IndexInv` is `IndexTruthful` with finite
groups of well-formed rows and a backfill that names entities. The proof is about
the operators more than about the steps: each aggregate is a function of the
set of rows with its key (`Over`), and for that function joining a row, leaving
it, and taking edges and mask from the table again are shown to be what a
rebuild gives. Minima and maxima are taken over sets with one element more or
fewer, and the fold over the rows of a backfill is followed through a smallest
set of rows for which it would fail (`SmallestSubset`), so that no induction
theorem is needed. `PanelKeepsWord` is the refinement of `WorkedLog`: from
`IndexInv` the panel's answers are the promised verdicts (`AnswersAreTrue`), and
each step maps to a change of the log or to a stutter. It needs that every
contact's call has a base call and an entity or none, nothing else.

**Disk.**

- `LockIsOwned` (`OneOwner`), by `LockInv`: there is one lock file for good,
  because `Release` leaves it in place, every program that has one open has that
  one, and who is past `tryLockOS` holds its lock.
- `MigrationsComplete`, by `MigInv`: before the k-th statement of the path that
  this file takes, each object of the schema is there or its statement is still
  ahead. Crashes leave a prefix done, and the next start begins a path again
  whose statements find what is there.
- `CredentialSurvives` (`ConfigSafe`), by `SecretsInv`: what holds between the
  two writes of a save, and that a dirty store is the only one that may differ
  from its file.
- `CatalogKept` (`CatalogSafe`), by `CatInv`: adds that a removed database is not
  listed in the config in use either, that a station sync belongs to an edit
  that was counted, that `App.Logbook` holds no sync `App.Config` does not have
  but the one that could not be saved (`Generations`), and that every operator in
  use is known, which deleting one has to restore in all logbooks.
- `DiskIsMigrated`, `ConfigIsDurable`, `IndexIsKept` and `PanelIsKept` state the
  same for the specification of the `store` run: each of its steps is one of a
  component or leaves it alone.

**Links.** Each component has an invariant that is inductive by itself; in the
specification of the `links` run one component moves and the others rest
(`OthersRest`), so the theorems state the run's own properties.

- `ClusterIsSafe` (`ClusterSafe`), by `DxInv`: the command in flight is one, the
  connecting flag is up for it, and it is for the kept client or for the only
  new one; a client still to be dialled has no redial loop yet; a client made and
  not stopped is kept or its command is under way. The last is what a teardown
  in the middle of a dial needs: the command has lost its generation, and its
  result will stop the client. `DxMaybe` treats the operators of the tick on
  states as values, so that the tick, a save, and the return of the network,
  each of which may end in a teardown or a connect, share one argument.
- `APRSIsSafe` (`APRSSafe`), by `APRSInv`: it is what the properties say with the
  types, because `Replaced` and `StopAPRS` tell the installed client to stop in
  the step that forgets it; the rest is that no other step untells one.
- `RadioIsSafe` (`RadioSafe`), by `RadioInv`: `Moved` lists the ways in which a
  device changes, and each step of the instance that runs, rig or rotator, is one
  (`RigStep`, `RotorStep`). For the tune, `TuneInv` adds that a command issued
  has not been cancelled: the field of a pane is set by the command only when it
  starts, and whoever cancels empties the field in the same step.
- `ShownIsKept` (`ShownIsTrue`), by `GPSInv` and `RefInv`: the tick tells before
  it shows (`TellKeeps`); a refresh holds a handle only between its opening and
  its message, so that queueing another loses none; and whoever raises
  `building` leaves a worker that is not idle.
- `WSJTXIsSafe` (`WSJTXSafe`), by `ListenerInv` and `QueueInv`: a listener that is
  being replaced is detached before its loop is joined, and a loop that is gone
  does not come back, so no message taken while draining is called; a record is
  inserted only under a key with no row. `NothingVanishes` needs that a queue in
  memory is in the file after a write that succeeded, which is what a crash
  between ticks relies on. The hypothesis `LinksBounds` says that the limit of
  the queue is a number.

**Desk.** `ContactsAreSafe` (`ContactSafe`), `BoardIsSafe` (`BoardSafe`) and
`PanelsAreSafe` (`PanelsSafe`) are about the specification of the `desk` run:
`ContactStep` and `PanelStep` say that each of its steps is one of the component
that `part` names, and every component has an invariant of its own (`ListInv`,
`FormInv`, ... `RouteInv`), which is inductive and contains or implies its state
properties. An action property is a conjunct of the component's step lemma,
because it needs the invariant of the state before.

- The list (`ListInv`): a page is cut from the list in which the i-th contact has
  exactly i contacts at or above it. `ListedByRank` shows that there is such a
  list and that it has every contact once, by counting; from it follow that a
  page that is loaded exists, and that a resize finds the contact of the cursor.
  A completion of a deletion names a contact that is gone, and a result of the
  search in view lists no contact deleted since (`ListOp`).
- The form (`FormInv`): every completion under way was sent by a session and a
  revision before the present ones, or from the form as it is; that is what
  makes `TypedSurvives` hold.
- Lookups (`LookupInv`, `CascadeInv`, `SessionsInv`): a value in the form, and in
  a saved row, is blank, typed, or about the row's own call; what a cascade holds
  after its first phase stays under what the base call adds; a worker that is
  about to cache a key has one that is neither refused nor anybody else's
  (`Secret`).
- Logging (`DupeInv`, `EntryInv`, `DeleteInv`): a fresh verdict is of the open
  logbook and, once no write is unannounced, of its contacts as they are; a tag
  in the comment is the one noted, for the contest it was noted for; a report of
  a removal implies that a copy was made.
- The board (`FeedInv`): a computation of the present connection is of the open
  logbook, one of the present revision is of its contacts, unless a worker has
  just written (`Trusty`, `Started`), and every state in which the board is not
  up to date has a mark that says so, or its last query failed (`PanelsFollow`,
  `TotalsFollow`).
- Its streams (`StreamInv`): the buffered events ascend and end at or before the
  newest; with the events dropped noted as missed, the last one read is the
  newest. Its server (`ServerInv`): one unheard result per server, and a server
  that is online listens or its end is on the way.
- `TlsInv` counts the slots by the connections being classified; a connection
  moves between two of the places at a time (`ClassifiedMoves`), and its result
  is in the queue until the loop takes it.
- The channel of an operation (`PumpInv`): the active operation has its reader,
  and until its result is known the message that tells it is in the channel, in
  the reader's hands or on its way (`Under`); a channel is drained once closed.
- Panels (`TableInv`, `PSKInv`, `NetInv`, `SolarInv`): the cache is complete for
  its filter unless a batch is to be announced; a report shown and a load
  under way have the callsign they were asked under, and a callsign answered
  lately is on file or the memory of its fetch lasts; a check is under way, or
  due, or the server is not wanted, or its link was just edited.
- Menus (`FocusInv`, `PickerInv`): in every form, whatever is open, the rows that
  are shown form one round; `AfterIsNext` and `BeforeIsShown` say what a step
  forward and back reaches, which is where the least of a finite set of numbers
  is needed (`FirstOf`, from the well-foundedness of finite subsets).
- `RecentInv`: the last reload asked for finds what is in the logbook, or
  another is due; `SameReloads`, `PastReloads`, `OtherReloads` and
  `SupersededReloads` say what each kind of event does to the queue of reloads.
- `RouteInv`: what the properties say, with a menu behind every submenu.

**Only model-checked**: `DeskTypeOK`, of which the invariants of its components
carry most, and liveness, which the prover does not do.

## 5. Where the code and its comments disagree

The first has a run that expects TLC to find the violation. Those that name a
definition are stated in the component's module; TLC finds the counterexample
when the definition is checked in place of the run's own properties. The others
were met while modelling; the passing properties are stated around all of them.

**Synchronisation, leases, downloads**

1. `false_clean_download` (`NeverFalselyClean`): the download (`SetWavelogIDTx`)
   and the import path of an upload (`backfillQSOID`) attach an id without
   looking at the revision of the row: an edit made meanwhile is neither pushed
   nor shown as pending.
2. `DBLease.LaterLeasesAreOpen`: the transferred lease can be released before
   the later chains of a retry list acquire theirs on the same, retired, handle.
3. `Download.NeverSkippedPast`: with a contact held twice by the server, its
   older record takes the newer id, and the checkpoint passes a record that
   failed between.
4. A purge leaves the marker of the last clean download, and the worked panel
   calls every contact of the emptied log NEW.
5. An import ignores a failed commit; the rows are in none of its counts and no
   error is shown.
6. An upload answered *duplicate* attaches the id and leaves the row clean
   although the server's copy may come from an earlier upload, before an edit,
   whose answer was lost. `CleanMeansPushed` excludes rows linked this way, and
   those of 1 (`blind`).
7. The WSJT-X worker drops `EnrichQSO`'s answer: a row that was linked meanwhile
   stays pending and nobody pushes it. `PendingIsCovered` names it (`owed`).
8. The bulk retry skips a contact with a running chain and queues no follow-up;
   if that chain fails, the retry never happens. `PendingIsCovered` names it.
9. A PATCH given up by the client can be executed after a newer one.
   `PushesInOrder` is checked without late requests.
10. A worker can make a row pending between the refresh's check and its write.
    `RefreshLosesNothing` holds all the same, for rows that are linked: the form's
    copy of a link survives the row's, and a refresh of a row that a PATCH has just
    unlinked overwrites an edit that nobody received.
11. The purge deletes the rows in a worker and resets the cursor on the owner
    loop. An editor opened in between, or a crash, keeps a cursor over an empty
    log. The properties of `Download` exclude it (`overlap`).
12. `DownloadPump.ErrorIsOwn`: `wlDownloadErr` is never reset, so a later
    operation that ends in a closed channel shows the error of an earlier one.

**Editor and contact form**

13. `EditorList.DeletesWhatWasAsked`: a reload between the question and the
    answer moves another contact under the cursor, and that one is deleted. The
    comment of the resize (`tui/logbook_editor_update.go:222`) knows the danger:
    "the position alone would select its neighbour and the next edit would hit
    the wrong contact".
14. `EditorForm.SavesOverWhatItShowed`: the form is filled from the list, which
    stays old while a search is active; a save then undoes an earlier one.
15. `FormLookup.TypedNameStays`: "Never wipe values the operator typed" does not
    hold for name and country. Leaving the callsign field notes the call before
    the rate limit is tested, so a call committed within three seconds of
    another is never looked up. After a switch away from a logbook and back the
    saved contact is forgotten. `NothingCarried`: Enter in the DX table promises to
    clear, "so old callsign data does not bleed", and keeps the grid that WSJT-X
    gave for the call before; `OwnData` names it (`carried`).
16. `Callbook.PrefixSuppliesEntity`: data of the base call fill the blanks
    of a direct answer, and the prefix resolution cannot correct the country. A
    provider's error with nothing found skips the base call.
17. `Callbook.KeepsItsDistance`: two QRZ.RU lookups sleep side by side
    and wake together, against "1 request per 3 seconds".

**Links**

18. `DXCluster.OwnsReconnection`: a connection that is lost again before the
    redial loop has cleared its mark gets no redial loop. `LossReachesUI`: the
    status channel of one element drops the loss while the success before it is
    unread.
19. `APRSLink`: a logbook form whose save fails keeps the new settings in memory
    and schedules no restart, a start without callsign, cache or port is not
    tried again, and a created logbook whose second save fails announces no
    switch; `SettingsServed` sets them apart (`behind`). `ReceiveOnlyIsSilent`: a restart handled while the network counts as
    down does nothing, so the old client and its beacon go on in a logbook that
    only receives. `StampsOwnBeacons`: a beacon sent before a switch, with the
    client that stays, stamps the new logbook.
20. `RigControl.FactsAreCurrent`: modes and name fetched from the replaced rig
    are kept for its successor. `RigLine.OneTune`: two key presses before the
    first command starts leave both running. `RigLine.FrequencyIsMain`: a
    late answer about the other VFO passes for the main frequency.
21. `GPSLink.OneGrid`: once the receiver is started again the screen has forgotten
    the fix and the application has not, until the next tick. `FixIsRecent`: an RMC
    sentence, which carries no position here, raises the fix of an old one.
22. `WSJTX.WantedIsServed`: when the port of new settings cannot be bound
    the old ones stay noted as applied; going back to them is then taken for no
    change, and nothing listens. `WSJTX.SurvivesCrash`: the start removes the
    file before the contacts are logged, the tick takes the queue before it
    writes the file, and a write that fails is not noticed; a crash then loses the
    contacts, which are persisted "immediately so QSOs survive crashes". `QueueIsBounded`: a record put back
    after a refused insert exceeds the limit of 64.
23. `RefData.SingleWriter`, `NeverPanics`: switching off clears `building`, so
    that switching on starts a second rebuild beside the first; a rebuild that
    starts after a switch-off finds no database.

**Disk**

24. `Catalog.SavedConfigStarts`: deleting a rig that another logbook uses, or a
    logbook that contests belong to, saves a configuration that the next start
    refuses. `SyncIsNeverOlder`: "a result from an older save must never overwrite
    newer station data", but a form whose save failed has changed the station in
    memory without a new generation, and the sync of the save before replaces it.
    A sync whose save fails is in `App.Config` and not in `App.Logbook`.
25. `ConfigStore.UpgradeMigrates`: the version is stamped before it is compared,
    and the serial exchange is never migrated. `StartsWithoutSecrets`: with an
    unreadable store and a service enabled, the start is refused. A credential
    entered while the store could not be read goes to the YAML, and loses to the
    stored one once that can be read again.
26. `Migrations.OpenIsIndexed`: the indexes of columns added by an upgrade are
    never created.

**Screens**

27. `DashboardFeed.NewServerIsFed`: a server started later shows no contacts
    until something changes. `PartnerIsInForm`: the partner of an earlier
    callsign stays on the board. `DashboardServer.EventsReachStreams`: what is
    published between the snapshot and the subscription is missed.
    `DashboardServer.OffIsOff`: a server whose start was given up keeps
    listening. A query that fails after the mark was cleared leaves the panels of
    before, and the totals for a minute, also those of the logbook left.
    `HybridListener`: any error of an accept ends the loop while the port stays
    open, and nobody is served any more.
28. `SpotTable.BandIsSorted`, `ShowsThisLogbook`: a further filter key queries
    without sorting; a logbook switch keeps the old logbook's spots.
29. `PSKReporter.AnswerIsKept`, `ReportsAreOwn`, `NewSpotsAppear`: a toggle
    during a fetch writes into a nil map; an answer is stored under the callsign
    of the logbook open by then; a query is installed over newer spots. "Results
    are cached to cacheDir for 5 minutes", but where the file cannot be written a toggle or a
    change of the callsign asks the server again.
30. `Connectivity.EveryServerIsTried`: a Wavelog link enabled in the menu is not
    checked when the menu is left with a function key. `StatusIsOfBook`,
    `RadioIsTried`, `VersionAskedOnline`: an answer
    about the logbook left counts for the open one; a refused radio is not
    tried again; the version check may be spent offline.
31. `SolarPanel.CopyStaysReadable`: an unreadable answer replaces a readable copy.
32. `SettingsForms.WizardKeepsFocus`, `TestedIsShown`, `StationIsOfServer`,
    `NewIsUnlinked`: the wizard's Ctrl+A hides the focused row; a verdict speaks
    of settings changed since; a late list links a station of another server; a
    new logbook starts with the link of the one edited before.

**Form, table and screens**

33. `DupeCheck`: the manual (`docs/manual.en.md:91`) lets Esc cancel the
    confirmation of a duplicate; only another call typed or picked, or a save,
    resets it. A call that the DX table, WSJT-X or an APRS station fills in under
    a pending confirmation is logged without a warning. `IsDuplicateQSO` looks at one
    contact (`LIMIT 1`) and compares its references: beside one with other
    references a true duplicate passes. An editor that was left drops the
    completion of its work, and the verdict stays what it was
    (`VerdictIsCurrent` is about logbooks without such a change).
34. `RecentTable`: a reload carries its logbook but no number, so of two the one
    answered last is shown, and one whose database was closed by a switch shows
    an empty table when the logbook is open again (`late`). Activating or
    deleting a contest in its menu neither reloads the table (`quiet`) nor saves.
35. `ContestEntry`: a tag kept by Keep Comment is taken for the operator's text
    after a restart. In a contest that does not fill the exchange, the exchange
    filled for the one before stays in the form, and the previous contact's
    exchange, with its serial number, is offered again.
36. `ScreenRouting.EditorIsOfBook`: Ctrl+arrows find the editor or menu that was
    left (`done` is never reset), show the editor of the logbook left, and the
    next message sends the operator back to the form. An operation that the
    first key starts there runs on with its Abort out of reach; `OperationInView`
    is about editors not left. The line that dismisses dialogs when the help
    opens is never reached, as dialogs take the key first.
37. `ContactDelete`: a comment (`tui/logbook_editor_update.go:1084`) says "a synced
    QSO must never be deleted locally on a shared club station", but it is when
    the list does not know of the link yet. A deletion while an upload is on the
    wire leaves the copy, and reports that only the row was deleted; one of a
    contact whose upload was retried after a lost answer removes one of two
    copies and reports both gone (`RemovedIsGone` excludes it, by `made <= 1`).

**Found by a proof**

38. A PATCH of a row whose copy is gone clears the pending flag ("the row is
    honest again (id already cleared locally)", `tui/logbook_editor_sync.go`).
    When the statement fails, a row without a copy keeps the flag, and whatever
    links it afterwards makes it pending with nobody pushing it.
    `PendingIsCovered` names it (`owed`).

## 6. Not modelled, and the plan

Not modelled, because there is no state to go wrong or none a model would add
to: rendering, ADIF parsing and formatting, geography, logging and the command
line; the formats of external services; the decoding of NMEA, AX.25, WSJT-X
datagrams and cluster spots; the key handling of forms beyond focus and typing.
External code (SQLite, the HTTP servers, the kernel's locks, the WSJT-X library,
the runtime of the interface) is modelled by what this code relies on.

Left out although it has behaviour, and worth a later module: the batch summary
of an upload, the APRS station cache (`aprs/db.go`) and its purge, the contest
serial numbers of the form, and the received exchange.

Finer than the modules: the lease of the station normalisation before a batch,
which the batch takes over and the owner loop releases after an error
(`tui/model.go:1091-1097`); the stamp of a worked-index edge, padded by Go in
one place and by SQLite's `printf` in the other, which is one conversion here; the count that
`store/migrations.go:371` skips on an error; the fields a reference fills beside
the grid, and the QTH; the dashboard's second query for yesterday's contacts; a
PSK Reporter file that was written is taken to be readable.

Components of a harness do not interact in it. Where they do in the program, the
interaction is inside a module (the lease in the synchronisation's messages, the
purge and the download, the listener and its queue are each modelled on the side
where the hazard is); composing `WavelogSync` with `DBLease` or `Download` is out
of TLC's reach at bounds that still show anything.

Still to be proved is the type invariant of `desk`, as the conjunction of its
components' ones.
