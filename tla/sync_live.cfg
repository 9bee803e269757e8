SPECIFICATION FairSpec
CONSTANTS
    Contacts = {c1}
    PatchWorkers = {p1, p2}
    UploadWorkers = {u1}
    Features = {"auto", "retry"}
    Faults = {"offline", "refused", "disk", "remote", "late", "crash"}
    MaxText = 2
    MaxIds = 1
    MaxRev = 0
PROPERTY SlotReleased
PROPERTY PendingSettles
CHECK_DEADLOCK FALSE
