SPECIFICATION Spec
CONSTANTS
    Keys = {k1, k2, k3}
    InvalidKeys = {k3}
    UnmatchedKeys = {k2}
    LocalKeys = {k1}
    ChunkSize = 2
    Features = {"import", "purge"}
    Faults = {"fetch", "list", "begin", "commit", "row", "scan", "mark", "abort", "crash"}
    MaxId = 3
    MaxDeleted = 1
    MaxFile = 2
    MaxOps = 2
    MaxPurges = 1
INVARIANT TypeOK
INVARIANT NothingSkipped
INVARIANT MarkerTruthful
INVARIANT HonestCount
PROPERTY CursorNeverBack
CHECK_DEADLOCK FALSE
