------------------------------- MODULE Catalog -------------------------------
(***************************************************************************)
(* The catalog of logbooks, rig presets, operators and contests that the   *)
(* menus of CQOps edit, the selections of the active logbook, and the      *)
(* config.yaml they are saved to.  Everything runs on the owner loop; a    *)
(* save may fail and the program may end at any point.  An id is a hash of *)
(* the name it was created with (config.NewID), so here it is that name.   *)
(***************************************************************************)
EXTENDS Integers, FiniteSets

CONSTANTS
    Books, Rigs, Ops, Contests,     \* the names in use
    None,
    MaxChanges                      \* bound on the operator's changes

VARIABLES
    cfg,        \* App.Config
    app,        \* App.Logbook: the active logbook's entry, held a second time
    disk,       \* config.yaml
    running,
    files,      \* the database of each logbook: "none", "log" or "removed"
    gen,        \* logbookSyncGen
    edition,    \* the generation of a logbook's last edit, 0 if its save failed
    syncs,      \* station syncs under way: logbook and generation
    synced,     \* each logbook's station data in App.Config, by the generation of the
                \* sync it is from, 0 if it is the operator's
    held,       \* the same of App.Logbook
    unsaved,    \* logbooks whose station data could not be saved after the sync
    changes

catVars == <<cfg, app, disk, running, files, gen, edition, syncs, synced, held, unsaved, changes>>
syncVars == <<gen, edition, syncs, synced, held, unsaved>>

Entry == [rig : Rigs \cup {None}, op : Ops \cup {None}, contest : Contests \cup {None}]

Listed(c) == {b \in Books : c.books[b] # None}
Known(f) == {x \in DOMAIN f : f[x] # None}

-----------------------------------------------------------------------------
(* Validate. *)

\* The cross references of the catalog.
RefersWell(c) ==
    /\ \A b \in Listed(c) :
          /\ c.books[b].op \in Known(c.ops) \cup {None}
          /\ c.books[b].rig \in c.rigs \cup {None}
          /\ c.books[b].contest \in Known(c.contests) \cup {None}
    /\ \A x \in Known(c.contests) : c.contests[x].book \in Listed(c)

\* No logbook may be active that is not listed, no setting out of its range, no
\* callsign with two operators.
Validate(c) ==
    /\ c.active \in Listed(c)
    /\ ~c.bad
    /\ \A o, p \in Known(c.ops) : c.ops[o] = c.ops[p] => o = p
    /\ RefersWell(c)

-----------------------------------------------------------------------------
(* Saving. *)

\* config.Save writes a temporary file and renames it: all of it, or nothing.
Save(c) == disk' \in {c, disk}

\* The settings menus and the contest chooser save through a validation.
saveConfig(c) == IF Validate(c) THEN Save(c) ELSE UNCHANGED disk

Changing == running /\ changes < MaxChanges /\ changes' = changes + 1 /\ UNCHANGED running

Catalogs == Changing /\ UNCHANGED <<files, syncVars>>

\* A selection of the active logbook is written to the config and to App.Logbook.
Chosen(f, x) == [cfg EXCEPT !.books[cfg.active][f] = x]
Choose(f, x) == cfg' = Chosen(f, x) /\ app' = [app EXCEPT ![f] = x]

-----------------------------------------------------------------------------
(* Rigs. *)

\* Opening the chooser selects a first rig where none is, without a save.
NewRigChooser ==
    /\ Catalogs /\ app.rig = None
    /\ \E r \in cfg.rigs : Choose("rig", r)
    /\ UNCHANGED disk

\* selectRig in the chooser and cycleRig on its key.
SelectRig ==
    /\ Catalogs
    /\ \E r \in cfg.rigs : Choose("rig", r) /\ Save(cfg')

\* A rig is created, duplicated or edited; a name used before is overwritten.
SaveRig ==
    /\ Catalogs
    /\ \E r \in Rigs : cfg' = [cfg EXCEPT !.rigs = @ \cup {r}]
    /\ Save(cfg') /\ UNCHANGED app

\* The rig of the active logbook and the last rig are protected.
DeleteRig ==
    /\ Catalogs /\ Cardinality(cfg.rigs) > 1
    /\ \E r \in cfg.rigs \ {app.rig} : cfg' = [cfg EXCEPT !.rigs = @ \ {r}]
    /\ Save(cfg') /\ UNCHANGED app

-----------------------------------------------------------------------------
(* Operators. *)

\* selectOperator in the chooser and cycleActiveOperator on its key.
SelectOperator ==
    /\ Catalogs
    /\ \E o \in Known(cfg.ops) \cup {None} : Choose("op", o) /\ Save(cfg')

CreateOperator(call) == \A o \in Known(cfg.ops) : cfg.ops[o] # call

\* Only the creation looks for another operator with the callsign.
SaveOperator ==
    /\ Catalogs
    /\ \E o, call \in Ops :
          /\ o \in Known(cfg.ops) \/ (o = call /\ CreateOperator(call))
          /\ cfg' = [cfg EXCEPT !.ops = [@ EXCEPT ![o] = call]]
    /\ Save(cfg') /\ UNCHANGED app

\* Mutant: the other logbooks keep the deleted operator.
WithoutOperatorHere(books, o) ==
    [b \in Books |-> IF b = cfg.active /\ books[b].op = o THEN [books[b] EXCEPT !.op = None] ELSE books[b]]

\* The deleted operator is taken from every logbook ...
WithoutOperator(books, o) ==
    [b \in Books |-> IF books[b] # None /\ books[b].op = o THEN [books[b] EXCEPT !.op = None] ELSE books[b]]

\* ... and from the copy in App.Logbook.
DeleteOperator ==
    /\ Catalogs
    /\ \E o \in Known(cfg.ops) :
          /\ cfg' = [cfg EXCEPT !.ops = [@ EXCEPT ![o] = None], !.books = WithoutOperator(@, o)]
          /\ app' = [app EXCEPT !.op = IF @ = o THEN None ELSE @]
    /\ Save(cfg')

-----------------------------------------------------------------------------
(* Contests: a chooser lists those of the active logbook. *)

Own(x) == cfg.contests[x] # None /\ cfg.contests[x].book = cfg.active

\* Activated in the chooser, which saves nothing, or with the cycle key.
SelectContest ==
    /\ Catalogs
    /\ \/ /\ \E x \in {y \in Contests : Own(y)} \cup {None} : Choose("contest", x)
          /\ UNCHANGED disk
       \/ /\ \E x \in {y \in Contests : Own(y) /\ cfg.contests[y].inUse} \cup {None} : Choose("contest", x)
          /\ Save(cfg')

WithContest(c, x, ct) == [c EXCEPT !.contests = [@ EXCEPT ![x] = ct]]

\* A new contest becomes the active one; a name used before, in any logbook, is
\* overwritten.
CreateContest ==
    /\ Catalogs
    /\ \E x \in Contests :
          /\ cfg' = WithContest(Chosen("contest", x), x, [book |-> cfg.active, inUse |-> TRUE])
          /\ app' = [app EXCEPT !.contest = x]
    /\ saveConfig(cfg')

\* One that is no longer in use is left.
EditContest ==
    /\ Catalogs
    /\ \E x \in {y \in Contests : Own(y)}, u \in BOOLEAN :
          LET left == IF ~u /\ app.contest = x THEN None ELSE app.contest
          IN /\ cfg' = WithContest(Chosen("contest", left), x, [book |-> cfg.active, inUse |-> u])
             /\ app' = [app EXCEPT !.contest = left]
    /\ saveConfig(cfg')

\* Deleting clears the selection of the active logbook; nothing is saved.
DeleteContest ==
    /\ Catalogs
    /\ \E x \in {y \in Contests : Own(y)} :
          LET left == IF app.contest = x THEN None ELSE app.contest
          IN /\ cfg' = WithContest(IF left = app.contest THEN cfg ELSE Chosen("contest", left), x, None)
             /\ app' = [app EXCEPT !.contest = left]
    /\ UNCHANGED disk

-----------------------------------------------------------------------------
(* Logbooks. *)

\* SwitchLogbook opens the other database first: if that fails, nothing changes.  Its
\* own save may fail, which is only logged.
Opened(c, b) ==
    /\ cfg' = [c EXCEPT !.active = b]
    /\ app' = c.books[b]
    /\ files' = [files EXCEPT ![b] = "log"]

SwitchLogbook ==
    /\ Changing
    /\ \E b \in Listed(cfg) \ {cfg.active} :
          Opened(cfg, b) /\ held' = synced[b] /\ unsaved' = unsaved \ {b}
    /\ Save(cfg')
    /\ UNCHANGED <<gen, edition, syncs, synced>>

\* The station data of b is the operator's again.
Entered(b) ==
    /\ synced' = [synced EXCEPT ![b] = 0] /\ unsaved' = unsaved \ {b}
    /\ held' = IF b = cfg'.active THEN 0 ELSE held

\* Mutant: the counter itself is not advanced.
EditsUncounted(b) ==
    /\ edition' = [edition EXCEPT ![b] = gen + 1] /\ Entered(b)
    /\ syncs' \in {syncs, syncs \cup {[book |-> b, gen |-> gen + 1]}}
    /\ UNCHANGED gen

\* syncStationAfterSaveCmd: a station form that was saved starts a station sync, if
\* the logbook has a link, and outdates the earlier ones.
Edits(b) ==
    /\ gen' = gen + 1
    /\ edition' = [edition EXCEPT ![b] = gen + 1] /\ Entered(b)
    /\ syncs' \in {syncs, syncs \cup {[book |-> b, gen |-> gen + 1]}}

\* A save that fails returns before it.
EditsUnsaved(b) ==
    /\ edition' = [edition EXCEPT ![b] = 0] /\ Entered(b)
    /\ UNCHANGED <<gen, syncs>>

\* A new logbook takes over the rig; if it cannot be opened, it is taken back.  It is
\* saved by the switch and once more.
CreateLogbook ==
    /\ Changing
    /\ \E b \in Books \ Listed(cfg), o \in Known(cfg.ops) \cup {None} :
          /\ Opened([cfg EXCEPT !.books = [@ EXCEPT ![b] = [rig |-> app.rig, op |-> o, contest |-> None]]], b)
          /\ \/ disk' = cfg' /\ Edits(b)
             \/ Save(cfg') /\ EditsUnsaved(b)

\* The form's values are in App.Config and App.Logbook before they are saved.
EditLogbook ==
    /\ Changing
    /\ \E b \in Listed(cfg), o \in Known(cfg.ops) \cup {None} :
          LET entry == [cfg.books[b] EXCEPT !.op = o]
          IN /\ cfg' = [cfg EXCEPT !.books = [@ EXCEPT ![b] = entry]]
             /\ app' = IF b = cfg.active THEN entry ELSE app
             /\ \/ disk' = cfg' /\ Edits(b)
                \/ UNCHANGED disk /\ EditsUnsaved(b)
    /\ UNCHANGED files

\* The database goes once the saved config no longer lists it, if it can be removed.
Removes(b) ==
    files' \in {files} \cup {[files EXCEPT ![x] = "removed"] : x \in {b} \ Listed(disk')}

DeleteLogbook ==
    /\ Changing
    /\ \E b \in Listed(cfg) \ {cfg.active} :
          /\ cfg' = [cfg EXCEPT !.books = [@ EXCEPT ![b] = None]]
          /\ Save(cfg')
          /\ Removes(b)
    /\ UNCHANGED <<app, syncVars>>

IsLatest(s) == s.gen = gen

\* App.Logbook is replaced by the entry of App.Config, if b is the active logbook.
Refreshed(b) ==
    IF b = cfg.active
    THEN app' = cfg.books[b] /\ held' = synced'[b] /\ unsaved' = unsaved \ {b}
    ELSE UNCHANGED <<app, held, unsaved>>

\* handleStationSyncDone: an outdated, failed or empty result changes nothing; another
\* one is in App.Config before the save, and in App.Logbook only after it.
StationSyncDone ==
    /\ running
    /\ \E s \in syncs :
          /\ syncs' = syncs \ {s}
          /\ \/ UNCHANGED <<app, disk, synced, held, unsaved>>
             \/ /\ IsLatest(s) /\ s.book \in Listed(cfg)
                /\ synced' = [synced EXCEPT ![s.book] = s.gen]
                /\ \/ disk' = cfg /\ Refreshed(s.book)
                   \/ unsaved' = unsaved \cup {s.book} /\ UNCHANGED <<app, disk, held>>
    /\ UNCHANGED <<cfg, running, files, gen, edition, changes>>

\* persistEditorLogbookCursor, after a download or a purge of any logbook.
PersistCursor ==
    /\ Changing
    /\ UNCHANGED <<cfg, files, gen, edition, syncs, synced>>
    /\ \E b \in Listed(cfg) : Refreshed(b)
    /\ Save(cfg)

-----------------------------------------------------------------------------
\* The settings menus: a value the menu's own checks let through may still be one
\* that Validate refuses; it is in App.Config by then.
SaveSettings ==
    /\ Catalogs
    /\ \E bad \in BOOLEAN : cfg' = [cfg EXCEPT !.bad = bad]
    /\ saveConfig(cfg') /\ UNCHANGED app

\* Quit or crash.
End ==
    /\ running /\ running' = FALSE
    /\ gen' = 0 /\ edition' = [b \in Books |-> 0] /\ syncs' = {} /\ synced' = edition'
    /\ held' = 0 /\ unsaved' = {}
    /\ UNCHANGED <<cfg, app, disk, files, changes>>

\* EnsureConfig validates what it loads: a config that fails ends the start.
Start ==
    /\ ~running /\ Validate(disk)
    /\ running' = TRUE
    /\ cfg' = disk /\ app' = disk.books[disk.active]
    /\ UNCHANGED <<disk, files, syncVars, changes>>

\* What the wizard leaves: one logbook, one rig, an operator or none.  A file
\* written by hand need not have a rig selected.
CatInit ==
    /\ \E b \in Books, r \in Rigs, sel \in Rigs \cup {None}, o \in Ops \cup {None} :
          /\ sel \in {r, None}
          /\ cfg = [books |-> [x \in Books |-> IF x = b THEN [rig |-> sel, op |-> o, contest |-> None] ELSE None],
                    rigs |-> {r}, ops |-> [x \in Ops |-> IF x = o THEN o ELSE None],
                    contests |-> [x \in Contests |-> None], active |-> b, bad |-> FALSE]
          /\ app = cfg.books[b]
          /\ files = [x \in Books |-> IF x = b THEN "log" ELSE "none"]
    /\ disk = cfg /\ running = TRUE
    /\ gen = 0 /\ edition = [b \in Books |-> 0] /\ syncs = {} /\ synced = edition
    /\ held = 0 /\ unsaved = {} /\ changes = 0

CatNext ==
    \/ NewRigChooser \/ SelectRig \/ SaveRig \/ DeleteRig
    \/ SelectOperator \/ SaveOperator \/ DeleteOperator
    \/ SelectContest \/ CreateContest \/ EditContest \/ DeleteContest
    \/ SwitchLogbook \/ CreateLogbook \/ EditLogbook \/ DeleteLogbook \/ StationSyncDone \/ PersistCursor
    \/ SaveSettings \/ End \/ Start

CatSpec == CatInit /\ [][CatNext]_catVars

-----------------------------------------------------------------------------
Configs ==
    [books : [Books -> Entry \cup {None}], rigs : SUBSET Rigs, ops : [Ops -> Ops \cup {None}],
     contests : [Contests -> [book : Books, inUse : BOOLEAN] \cup {None}],
     active : Books, bad : BOOLEAN]

\* The values of the variables.
CatTypeOK ==
    /\ cfg \in Configs /\ disk \in Configs /\ app \in Entry /\ running \in BOOLEAN
    /\ files \in [Books -> {"none", "log", "removed"}]
    /\ gen \in 0..MaxChanges /\ edition \in [Books -> 0..gen] /\ synced \in [Books -> 0..gen]
    /\ syncs \subseteq [book : Books, gen : 1..MaxChanges] /\ changes \in 0..MaxChanges
    /\ held \in 0..gen /\ unsaved \subseteq Books

\* Two copies of the active logbook are kept, in App.Logbook and in the config
\* that is saved: whatever menu wrote one of them, they agree; in the station data
\* only up to a sync whose save failed, which App.Logbook does not get.
CopiesAgree ==
    running =>
        /\ cfg.active \in Listed(cfg) /\ app = cfg.books[cfg.active]
        /\ held = IF cfg.active \in unsaved THEN 0 ELSE synced[cfg.active]

\* Every logbook's operator exists, in the config and in the file, whichever
\* logbook is active when an operator is deleted.
OperatorsResolve ==
    \A c \in {cfg, disk} : \A b \in Listed(c) : c.books[b].op \in Known(c.ops) \cup {None}

\* A database is removed only when the saved config no longer lists its logbook.
ListedKeepsLog == \A b \in Books : files[b] = "removed" => b \notin Listed(disk)

\* The comment of logbookSyncGen: a station sync result is applied only when it
\* belongs to the last save, so over no newer edit of the logbook but one whose save
\* failed.
SyncIsLatest == \A b \in Books : synced[b] # 0 => edition[b] \in {0, synced[b]}

CatalogSafe == CopiesAgree /\ OperatorsResolve /\ ListedKeepsLog /\ SyncIsLatest

-----------------------------------------------------------------------------
(* What comments of the code say and its behaviour does not bear out.      *)

\* The same comment: "a result from an older save must never overwrite newer station
\* data"; the data of an edit whose save failed is overwritten.
SyncIsNeverOlder == \A b \in Books : synced[b] \in {0, edition[b]}

\* Validate's doc: it "checks the config for structural integrity"; a program
\* that is up has only saved configs that its next start accepts.
SavedConfigStarts == Validate(disk)
==============================================================================
