SPECIFICATION Spec
CONSTANTS
    Contacts = {c1}
    PatchWorkers = {p1, p2}
    UploadWorkers = {u1, u2}
    Features = {"auto", "wsjtx", "batch", "match"}
    Faults = {"refused", "lost", "late", "disk"}
    MaxText = 1
    MaxIds = 1
    MaxRev = 0
SYMMETRY Workers
INVARIANT CleanMeansPushed
INVARIANT PendingIsCovered
CHECK_DEADLOCK FALSE
