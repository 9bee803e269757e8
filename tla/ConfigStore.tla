----------------------------- MODULE ConfigStore -----------------------------
(***************************************************************************)
(* How CQOps keeps a credential between two runs: config.yaml has it in    *)
(* plain text in old or hand-written files, secrets.enc has it encrypted   *)
(* for this machine.  A save writes the store first and the scrubbed YAML  *)
(* second, each by a rename; either may fail and the program may die       *)
(* between them.  The upgrade of an old configuration is here as well.     *)
(***************************************************************************)
EXTENDS Integers

CONSTANTS
    Values,     \* credentials
    None,
    Foreign,    \* a secrets.enc of another machine, or a damaged one
    MaxSteps    \* bound on edits, starts and foreign files

VARIABLES
    yaml,       \* config.yaml: plain credential, service enabled, version, serial flag
    enc,        \* secrets.enc: a credential, None or Foreign
    up,         \* "down", "up", "bare" (without a store), "refused": Validate rejected the configuration
    live,       \* App.Config: the fields of yaml
    store,      \* the open secrets store: its credential and whether it is dirty
    saver,      \* config.Save: "idle" or "scrub", the store being written
    kept,       \* the credentials a next start may find
    steps

storeVars == <<yaml, enc, up, live, store, saver, kept, steps>>

Fields == [plain : Values \cup {None}, enabled : BOOLEAN, version : {"old", "current"}, serial : BOOLEAN]

Stepping == steps < MaxSteps /\ steps' = steps + 1

\* The old files: a credential in plain text or already in the store.
StoreInit ==
    /\ \E v \in Values, x \in {"old", "current"} :
          \/ yaml = [plain |-> v, enabled |-> TRUE, version |-> x, serial |-> x = "current"] /\ enc = None
          \/ yaml = [plain |-> None, enabled |-> TRUE, version |-> x, serial |-> x = "current"] /\ enc = v
    /\ up = "down" /\ live = yaml /\ store = [v |-> None, dirty |-> FALSE] /\ saver = "idle"
    /\ kept = {yaml.plain, enc} \ {None}
    /\ steps = 0

-----------------------------------------------------------------------------
(* Starting: EnsureConfig. *)

VersionBefore(c) == c.version = "old"

\* Upgrade stamps the version before it asks for it.
Stamped(c) == [c EXCEPT !.version = "current"]
Upgrade(c) == IF VersionBefore(Stamped(c)) THEN [Stamped(c) EXCEPT !.serial = TRUE] ELSE Stamped(c)

\* secrets.Load: what cannot be decrypted is an empty store.
Loaded == IF enc = Foreign THEN None ELSE enc

\* store.Save after a Set: the file gets the value, or it fails and stays dirty.
Persist(v, writes) ==
    IF writes THEN enc' = v /\ store' = [v |-> v, dirty |-> FALSE]
    ELSE enc' = enc /\ store' = [v |-> v, dirty |-> v # Loaded]

\* ApplySecrets: the store takes precedence, a plaintext value goes into the store.
ApplySecrets(c) ==
    LET v == IF c.plain # None THEN c.plain ELSE Loaded
    IN /\ live' = [c EXCEPT !.plain = IF Loaded # None THEN Loaded ELSE c.plain]
       /\ \E writes \in BOOLEAN : Persist(v, writes)

\* A secrets.enc that cannot be opened or read: no store, and nothing applied.
CannotRead(c) == enc # None /\ live' = c /\ UNCHANGED <<enc, store>>

Validate(c) == c.enabled => c.plain # None

Start ==
    /\ up = "down" /\ Stepping
    /\ \/ ApplySecrets(Upgrade(yaml)) /\ up' = IF Validate(live') THEN "up" ELSE "refused"
       \/ CannotRead(Upgrade(yaml)) /\ up' = IF Validate(live') THEN "bare" ELSE "refused"
    /\ saver' = "idle"
    /\ UNCHANGED <<yaml, kept>>

-----------------------------------------------------------------------------
(* Saving. *)

\* A menu changes the credential; its save follows, on the owner loop or, like
\* persistKeepComment's, in a worker.  An enabled service needs its credential.
Edit ==
    /\ up \in {"up", "bare"} /\ Stepping
    /\ \E v \in Values \cup {None} :
          /\ live' = [live EXCEPT !.plain = v, !.enabled = v # None]
          /\ kept' = kept \cup {v}
    /\ UNCHANGED <<yaml, enc, up, store, saver>>

\* syncSecretsToStore: the live value is set in the store, or deleted from it.
Synced == [v |-> live.plain, dirty |-> store.dirty \/ live.plain # store.v]

\* The error aborts the whole save; the store stays dirty for the next one.
GivesUp == saver' = "idle" /\ enc' = enc /\ store' = Synced

\* No store or nothing to write, a write that succeeds, or one that fails.
SaveSecrets ==
    /\ up \in {"up", "bare"} /\ saver = "idle"
    /\ \/ (up = "bare" \/ ~Synced.dirty) /\ saver' = "scrub" /\ UNCHANGED <<enc, store>>
       \/ /\ up = "up" /\ Synced.dirty /\ saver' = "scrub"
          /\ enc' = Synced.v /\ store' = [Synced EXCEPT !.dirty = FALSE]
       \/ up = "up" /\ Synced.dirty /\ GivesUp
    /\ UNCHANGED <<yaml, up, live, kept, steps>>

scrubbedCopy(c) == [c EXCEPT !.plain = IF up = "up" THEN None ELSE @, !.version = "current"]

\* The YAML is replaced by a copy, without credentials if there is a store.  From then on
\* only the stored credential and later edits count; a store that could not be read
\* counts too, and goes before the YAML when it can be read again.
SaveYaml ==
    /\ saver = "scrub"
    /\ yaml' = scrubbedCopy(live)
    /\ kept' = {live.plain, IF up = "up" THEN store.v ELSE IF Loaded # None THEN Loaded ELSE live.plain}
    /\ saver' = "idle"
    /\ UNCHANGED <<enc, up, live, store, steps>>

\* The temporary file could not be written or renamed.
YamlFails ==
    /\ saver = "scrub"
    /\ saver' = "idle"
    /\ UNCHANGED <<yaml, enc, up, live, store, kept, steps>>

\* Quit or crash, in the middle of a save too.
End ==
    /\ up # "down"
    /\ up' = "down" /\ saver' = "idle"
    /\ store' = [v |-> None, dirty |-> FALSE] /\ live' = yaml
    /\ UNCHANGED <<yaml, enc, kept, steps>>

\* The user writes a credential into the YAML while the program is down.
HandEdit ==
    /\ up = "down" /\ Stepping
    /\ \E v \in Values :
          /\ yaml' = [yaml EXCEPT !.plain = v, !.enabled = TRUE]
          /\ kept' = kept \cup {v}
    /\ UNCHANGED <<enc, up, live, store, saver>>

\* The directory is copied to another machine, or the file is damaged.
FileDamaged ==
    /\ up = "down" /\ Stepping
    /\ enc' = Foreign /\ enc # None
    /\ kept' = {yaml.plain, None}
    /\ UNCHANGED <<yaml, up, live, store, saver>>

StoreNext ==
    \/ Start \/ Edit \/ SaveSecrets \/ SaveYaml \/ YamlFails
    \/ End \/ HandEdit \/ FileDamaged

StoreSpec == StoreInit /\ [][StoreNext]_storeVars

-----------------------------------------------------------------------------
\* The values of the variables.
StoreTypeOK ==
    /\ yaml \in Fields /\ live \in Fields
    /\ enc \in Values \cup {None, Foreign} /\ up \in {"down", "up", "bare", "refused"}
    /\ store \in [v : Values \cup {None}, dirty : BOOLEAN] /\ saver \in {"idle", "scrub"}
    /\ kept \subseteq Values \cup {None} /\ steps \in 0..MaxSteps

\* What a start would find, had no file been damaged.
Found == IF Loaded # None THEN Loaded ELSE yaml.plain

\* A comment of Save: replacing config.yaml without a successful write of the
\* store would drop the only copy.  Whatever fails and wherever the program dies,
\* a start finds the credential of the last completed save or of a later edit, or
\* the one of a store that this save could not read.
CredentialKept == Found \in kept

\* The store's comment: a credential that is not on disk keeps the store dirty,
\* so that the next save writes it before it scrubs the YAML.
DirtyIsKnown == (up = "up" /\ ~store.dirty) => Loaded = store.v

ConfigSafe == CredentialKept /\ DirtyIsKnown

\* Upgrade's comment: the serial exchange is set for existing users who upgrade.
UpgradeMigrates == up = "up" => live.serial

\* The comment of secrets.Store's Corrupted: the program "starts normally but
\* secrets must be re-entered by the user".
StartsWithoutSecrets == up # "refused"
==============================================================================
