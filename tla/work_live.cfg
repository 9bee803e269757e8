SPECIFICATION WorkSpec
CONSTANTS
    Clients = {x1, x2}
    NoClient = NoClient
    LastDelay = 0
    MaxSaves = 1
    Books = {b1, b2}
    Contacts = {c1, c2}
    Handles = {h1, h2}
    Jobs = {j1, j2}
    MaxActs = 2
    Conns = {n1, n2}
    Slots = 1
    MaxOps = 2
    Capacity = 1
    MaxProgress = 2
PROPERTIES ClusterServed WorkEnds
CHECK_DEADLOCK FALSE
