SPECIFICATION Spec
CONSTANTS
    Contacts = {c1}
    PatchWorkers = {p1, p2}
    UploadWorkers = {u1}
    Features = {"auto", "download"}
    Faults = {"disk"}
    MaxText = 1
    MaxIds = 1
    MaxRev = 0
SYMMETRY Workers
INVARIANT NeverFalselyClean
CHECK_DEADLOCK FALSE
