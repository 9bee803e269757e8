SPECIFICATION Spec
CONSTANTS
    Contacts = {c1}
    PatchWorkers = {p1, p2}
    UploadWorkers = {u1}
    Features = {"auto", "refresh", "enrich", "download"}
    Faults = {"remote"}
    MaxText = 2
    MaxIds = 2
    MaxRev = 3
SYMMETRY Workers
PROPERTY RefreshLosesNothing
CHECK_DEADLOCK FALSE
