------------------------------- MODULE MCStore -------------------------------
(***************************************************************************)
(* Instances of what CQOps keeps on disk, for TLC: the worked index, the    *)
(* schema, the catalog and its config file, the credential store and the    *)
(* lock file.  A behaviour is one of a single component, named by "part".   *)
(***************************************************************************)
EXTENDS Integers, Sequences, FiniteSets, TLC

CONSTANTS
    Ids, NoRow, Forms, BaseOf, EntityOf, Fills, Idle,     \* WorkedIndex
    Contacts, MaxStarts,                                  \* Migrations
    Books, Rigs, Ops, Contests, MaxChanges,               \* Catalog
    Values, Foreign, MaxSteps,                            \* ConfigStore
    Instances, MaxInodes,                                 \* InstanceLock
    None

VARIABLES
    part,
    rows, idx, cover, pass,
    have, logged, based, counted, rules, version, todo, upgrade, starts,
    cfg, app, disk, running, files, gen, edition, syncs, synced, held, unsaved, changes,
    yaml, enc, up, live, store, saver, kept, steps,
    stage, fd, name, inodes, lock, pid, open

Index == INSTANCE WorkedIndex_proofs     \* WorkedIndex, with its theorems
Mig == INSTANCE Migrations
Cat == INSTANCE Catalog
Secrets == INSTANCE ConfigStore
Lock == INSTANCE InstanceLock

indexVars == <<rows, idx, cover, pass>>
migVars == <<have, logged, based, counted, rules, version, todo, upgrade, starts>>
catVars == <<cfg, app, disk, running, files, gen, edition, syncs, synced, held, unsaved, changes>>
storeVars == <<yaml, enc, up, live, store, saver, kept, steps>>
lockVars == <<stage, fd, name, inodes, lock, pid, open>>
allVars == <<part, indexVars, migVars, catVars, storeVars, lockVars>>

\* A component that rests has one first state; names in the catalog are alike.
DiskInit ==
    /\ part \in {"index", "mig", "cat", "secrets", "lock"}
    /\ Index!IndexInit /\ Mig!MigInit /\ Cat!CatInit /\ Secrets!StoreInit /\ Lock!LockInit
    /\ LET b == CHOOSE x \in Books : TRUE
           r == CHOOSE x \in Rigs : TRUE
           o == CHOOSE x \in Ops : TRUE
       IN cfg.active = b /\ cfg.rigs = {r} /\ cfg.ops[o] = o
    /\ part # "mig" => version = 0 /\ have = {}
    /\ part # "cat" => app.rig # None
    /\ part # "secrets" => enc = (CHOOSE v \in Values : TRUE) /\ yaml.version = "current"

IndexRuns == part = "index" /\ Index!IndexNext /\ UNCHANGED <<part, migVars, catVars, storeVars, lockVars>>
MigRuns == part = "mig" /\ Mig!MigNext /\ UNCHANGED <<part, indexVars, catVars, storeVars, lockVars>>
CatRuns == part = "cat" /\ Cat!CatNext /\ UNCHANGED <<part, indexVars, migVars, storeVars, lockVars>>
SecretsRun == part = "secrets" /\ Secrets!StoreNext /\ UNCHANGED <<part, indexVars, migVars, catVars, lockVars>>
LockRuns == part = "lock" /\ Lock!LockNext /\ UNCHANGED <<part, indexVars, migVars, catVars, storeVars>>

DiskNext == IndexRuns \/ MigRuns \/ CatRuns \/ SecretsRun \/ LockRuns

DiskSpec == DiskInit /\ [][DiskNext]_allVars

-----------------------------------------------------------------------------
(* The worked index's instance. *)

Form(c, g, d, b, t, cf, s) ==
    [call |-> c, grid |-> g, dxcc |-> d, band |-> b, mode |-> "m", stamp |-> t, conf |-> cf, src |-> s]

\* A call with a portable variant of it, and contacts without entity or band.
MCForms == {Form("k", "g", None, "b", 1, FALSE, "manual"), Form("kp", None, None, "b", 2, TRUE, "wsjtx"),
            Form("k", None, "d1", "b", 3, FALSE, "adif"), Form("z", None, None, None, 2, FALSE, "manual"),
            Form("k", "g", None, "b", 2, TRUE, "wsjtx")}
MCBase == [k |-> "k", kp |-> "k", z |-> "z"]
MCEntity == [k |-> "d1", kp |-> "d2", z |-> None]
MCFills == {[grid |-> "g", dxcc |-> None], [grid |-> None, dxcc |-> "d2"]}

-----------------------------------------------------------------------------
\* The components' properties, under their names.

\* The values of all the components' variables.
DiskTypeOK ==
    /\ Index!IndexTypeOK /\ Mig!MigTypeOK /\ Cat!CatTypeOK /\ Secrets!StoreTypeOK /\ Lock!LockTypeOK

\* WorkedIndex: the index and its counters are the ones a rebuild would write.
IndexTruthful == Index!IndexTruthful

\* WorkedIndex implements WorkedLog: the panel says "new" and "worked" only where
\* a look at the whole log would.
PanelIsHonest == Index!PanelIsHonest

\* Migrations: however often a migration was cut short, an open logbook has the
\* current schema, and a current version vouches for its contacts.
OpenIsMigrated == Mig!OpenIsMigrated /\ Mig!VersionVouches

\* Catalog and ConfigStore: the copies of the active logbook agree, every
\* logbook's operator exists, a listed logbook keeps its database, no station
\* sync overwrites a newer edit that was saved, and no credential is lost
\* between two files.  A sync whose own save fails is set apart in CopiesAgree.
ConfigDurable == Cat!CatalogSafe /\ Secrets!ConfigSafe

\* InstanceLock: one program owns a configuration directory, and the file says
\* which.
OneOwner == Lock!OneOwner /\ Lock!PidIsOwner

\* Catalog, Validate's doc: it "checks the config for structural integrity and
\* safe values"; what the program itself saved, its next start accepts.
SavedConfigStarts == Cat!SavedConfigStarts

\* ConfigStore, Upgrade's comment: "One-time migration: set serial_exchange:true".
UpgradeMigrates == Secrets!UpgradeMigrates

\* ConfigStore, Corrupted's comment: "starts normally but secrets must be
\* re-entered by the user".
StartsWithoutSecrets == Secrets!StartsWithoutSecrets
==============================================================================
