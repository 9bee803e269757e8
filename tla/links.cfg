SPECIFICATION LinksSpec
CONSTANTS
    Clients = {x1, x2}
    NoClient = NoClient
    LastDelay = 1
    MaxSaves = 2
    Peers = {p1, p2, p3}
    NoPeer = NoPeer
    Books = {b1, b2}
    ChanCap = 1
    MaxChanges = 2
    RigClients = {r1, r2}
    RotorClients = {o1}
    NoRadio = NoRadio
    StuckTicks = 1
    MaxRefresh = 2
    Tunes = {t1, t2, t3}
    NoTune = NoTune
    MaxLate = 6
    Places = {q1, q2}
    NoPlace = NoPlace
    Settings = {s1, s2}
    Off = Off
    MsgCap = 2
    Records = {k1, k2}
    MaxPending = 2
    MaxReports = 4
    MaxCrashes = 1
    Files = {f1, f2}
    Workers = {w1, w2}
    NoDB = NoDB
    MaxOpens = 3
SYMMETRY Symmetry
INVARIANTS LinksTypeOK ClusterSafe APRSSafe RadioSafe ShownIsTrue WSJTXSafe
CHECK_DEADLOCK FALSE
