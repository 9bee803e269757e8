SPECIFICATION Spec
CONSTANTS
    Contacts = {c1}
    PatchWorkers = {p1, p2}
    UploadWorkers = {u1}
    Features = {"auto", "enrich", "retry"}
    Faults = {"offline", "refused", "lost", "disk", "crash"}
    MaxText = 3
    MaxIds = 1
    MaxRev = 0
SYMMETRY Workers
INVARIANT TypeOK
INVARIANT OneChainPerContact
INVARIANT CleanMeansPushed
INVARIANT PendingIsCovered
PROPERTY PushesInOrder
CHECK_DEADLOCK FALSE
