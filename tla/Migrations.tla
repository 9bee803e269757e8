------------------------------ MODULE Migrations ------------------------------
(***************************************************************************)
(* The schema migration of a logbook (store/migrations.go), which runs each *)
(* time the file is opened.  Every statement commits on its own, and the   *)
(* program may die between two; user_version is written last.  The schema  *)
(* is the set of its objects: tables, columns, indexes; of the data only   *)
(* matters which contacts have a base call and which the worked index      *)
(* counts.                                                                 *)
(***************************************************************************)
EXTENDS Integers, Sequences, SequencesExt

CONSTANTS Contacts, MaxStarts

VARIABLES
    have,       \* the objects of the schema
    logged,     \* the contacts of the log
    based,      \* the contacts whose base_call is filled
    counted,    \* the contacts the worked index counts by the current rules
    rules,      \* the stored rules version: "none", "old" or "current"
    version,    \* PRAGMA user_version
    todo,       \* the statements a running migration still has to execute
    upgrade,    \* it found an older schema version
    starts      \* how often the file was opened

migVars == <<have, logged, based, counted, rules, version, todo, upgrade, starts>>

schemaVersion == 4

Columns == {"dxcc", "wavelog_id", "wavelog_dirty", "wavelog_dirty_rev", "base_call", "submode"}
WorkedColumns == {"dxcc_source", "confirmed_count"}

\* What a statement needs: an index needs its column.
Needs(o) ==
    CASE o = "idx_base_call" -> {"base_call"}
      [] o = "idx_dirty" -> {"wavelog_id", "wavelog_dirty"}
      [] o = "idx_wavelog_id" -> {"wavelog_id"}
      [] OTHER -> {}

\* CREATE TABLE qsos brings all of its columns.
Brings(o) == IF o = "qsos" THEN {"qsos"} \cup Columns \cup WorkedColumns ELSE {o}

\* The base list, creation by creation.
BaseList == <<"qsos", "idx_wavelog_id", "idx_base_call", "idx_dirty", "worked_tables">>

AddColumns == <<"dxcc", "wavelog_id", "wavelog_dirty", "wavelog_dirty_rev", "base_call", "submode">>

\* From the column additions on, both paths take the same steps ...
CommonSteps ==
    AddColumns \o <<"idx_wavelog_id", "drop_flag_index", "drop_flag", "drop_redundant",
                    "worked_tables", "dxcc_source", "confirmed_count", "probe">>

\* Mutant: the version is written before the contacts are completed.
UpgradeVersionFirst == BaseList \o CommonSteps \o <<"version", "backfill", "rules">>

\* ... an older database executes the base list before them and is completed after.
UpgradeSteps == BaseList \o CommonSteps \o <<"backfill", "rules", "version">>

CurrentSteps == CommonSteps \o <<"rules">>

-----------------------------------------------------------------------------
\* The files that releases have left behind (see the history at schemaVersion).
Released(v) ==
    CASE v = 0 -> {{}, {"qsos", "flag", "idx_flag"}}
      [] v = 1 -> {{"qsos", "flag", "idx_flag", "idx_country", "dxcc", "base_call", "idx_base_call"}}
      [] v \in 2..3 -> {{"qsos", "idx_country", "worked_tables", "submode", "dxcc", "base_call",
                         "idx_base_call"} \cup S :
                            S \in {{"flag", "idx_flag"}, {"wavelog_id"}, {"wavelog_id", "wavelog_dirty", "wavelog_dirty_rev"}}}
      [] OTHER -> {{"qsos", "worked_tables", "idx_wavelog_id"} \cup Columns \cup WorkedColumns \cup S :
                       S \in SUBSET {"idx_dirty", "idx_base_call"}}

MigInit ==
    /\ version \in 0..4 /\ have \in Released(version)
    /\ logged \in IF have = {} THEN {{}} ELSE SUBSET Contacts
    /\ based \in IF version = 0 THEN {{}} ELSE {logged}
    /\ counted \in IF "worked_tables" \in have THEN SUBSET based ELSE {{}}
    /\ rules \in CASE version < 4 -> {"none"} [] OTHER -> {"old"} \cup (IF counted = logged THEN {"current"} ELSE {})
    /\ todo = <<"closed">> /\ upgrade = FALSE /\ starts = 0

\* Migrate reads the version and chooses its path.
Open ==
    /\ todo = <<"closed">> /\ starts < MaxStarts
    /\ starts' = starts + 1
    /\ upgrade' = (version < schemaVersion)
    /\ todo' = IF version < schemaVersion THEN UpgradeSteps ELSE CurrentSteps
    /\ UNCHANGED <<have, logged, based, counted, rules, version>>

Executing(step) == todo # <<>> /\ Head(todo) = step

Goes == todo' = Tail(todo) /\ UNCHANGED <<logged, upgrade, starts>>

\* CREATE ... IF NOT EXISTS and ADD COLUMN, each a statement that commits; an
\* index on a column this database does not have yet is skipped.
Create ==
    /\ todo # <<>> /\ Head(todo) \in ToSet(BaseList) \cup Columns \cup WorkedColumns
    /\ LET o == Head(todo)
       IN have' = IF o \in have \/ ~(Needs(o) \subseteq have) THEN have ELSE have \cup Brings(o)
    /\ Goes /\ UNCHANGED <<based, counted, rules, version>>

\* The index has to go before its column.
DropFlagIndex ==
    /\ Executing("drop_flag_index")
    /\ have' = have \ {"idx_flag"}
    /\ Goes /\ UNCHANGED <<based, counted, rules, version>>

DropFlag ==
    /\ Executing("drop_flag")
    /\ have' = have \ {"flag"}
    /\ Goes /\ UNCHANGED <<based, counted, rules, version>>

DropRedundant ==
    /\ Executing("drop_redundant")
    /\ have' = have \ {"idx_country"}
    /\ Goes /\ UNCHANGED <<based, counted, rules, version>>

\* RebuildWorkedIndex counts the rows with a base call and stamps the rules.
Rebuilds == counted' = based /\ rules' = "current"

\* The rules of this binary wrote the index, and no upgrade is under way.
RulesHold == ~upgrade /\ rules = "current"

\* migrateBuildWorkedIndex: built once, for a log that predates it.
Probe ==
    /\ Executing("probe")
    /\ IF counted = {} /\ logged # {} THEN Rebuilds ELSE UNCHANGED <<counted, rules>>
    /\ Goes /\ UNCHANGED <<have, based, version>>

\* The base calls are filled row by row.
Backfill ==
    /\ Executing("backfill")
    /\ IF based = logged THEN Goes /\ UNCHANGED based
       ELSE /\ \E c \in logged \ based : based' = based \cup {c}
            /\ UNCHANGED <<logged, todo, upgrade, starts>>
    /\ UNCHANGED <<have, counted, rules, version>>

EnsureRules ==
    /\ Executing("rules")
    /\ IF RulesHold THEN UNCHANGED <<counted, rules>> ELSE Rebuilds
    /\ Goes /\ UNCHANGED <<have, based, version>>

WriteVersion ==
    /\ Executing("version")
    /\ version' = schemaVersion
    /\ Goes /\ UNCHANGED <<have, based, counted, rules>>

\* The open logbook: a contact is logged with its base call and its delta.
LogContact ==
    /\ todo = <<>>
    /\ \E c \in Contacts \ logged :
          /\ logged' = logged \cup {c} /\ based' = based \cup {c} /\ counted' = counted \cup {c}
    /\ UNCHANGED <<have, rules, version, todo, upgrade, starts>>

\* The program ends, or dies between two statements; or a statement fails and
\* the start is given up.
Ends ==
    /\ todo # <<"closed">>
    /\ todo' = <<"closed">>
    /\ UNCHANGED <<have, logged, based, counted, rules, version, upgrade, starts>>

Step ==
    \/ Create \/ DropFlagIndex \/ DropFlag \/ DropRedundant \/ Probe
    \/ Backfill \/ EnsureRules \/ WriteVersion

MigNext == Open \/ Step \/ LogContact \/ Ends

MigSpec == MigInit /\ [][MigNext]_migVars

-----------------------------------------------------------------------------
MigTypeOK ==
    /\ counted \subseteq logged /\ based \subseteq logged /\ logged \subseteq Contacts
    /\ version \in 0..schemaVersion /\ rules \in {"none", "old", "current"}
    /\ starts \in 0..MaxStarts

\* Whatever release wrote the file and however often an earlier migration of it
\* was cut short: an open logbook has every column, no legacy flag, a base call
\* for every contact, and an index that counts them all by the current rules.
OpenIsMigrated ==
    todo = <<>> =>
        /\ Columns \cup WorkedColumns \cup {"qsos", "worked_tables"} \subseteq have
        /\ have \cap {"flag", "idx_flag", "idx_country"} = {}
        /\ version = schemaVersion /\ rules = "current"
        /\ based = logged /\ counted = logged

\* The version vouches for the base calls: later starts do not look again.
VersionVouches == version = schemaVersion => based = logged

\* A comment of Migrate (migrations.go) says of an index whose column an old database lacks:
\* "The column is added below and ensureColumnIndexes creates the index
\* afterwards".
OpenIsIndexed == todo = <<>> => {"idx_wavelog_id", "idx_base_call", "idx_dirty"} \subseteq have
==============================================================================
