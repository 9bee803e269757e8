SPECIFICATION LinksFairSpec
CONSTANTS
    Clients = {x1, x2}
    NoClient = NoClient
    LastDelay = 0
    MaxSaves = 1
    Peers = {p1, p2, p3}
    NoPeer = NoPeer
    Books = {b1, b2}
    ChanCap = 0
    MaxChanges = 2
    RigClients = {r1, r2}
    RotorClients = {o1}
    NoRadio = NoRadio
    StuckTicks = 1
    MaxRefresh = 1
    Tunes = {t1}
    NoTune = NoTune
    MaxLate = 4
    Places = {q1, q2}
    NoPlace = NoPlace
    Settings = {s1, s2}
    Off = Off
    MsgCap = 2
    Records = {k1, k2}
    MaxPending = 2
    MaxReports = 3
    MaxCrashes = 1
    Files = {f1, f2}
    Workers = {w1, w2}
    NoDB = NoDB
    MaxOpens = 2
PROPERTIES SettingsServed DevicesReturn WSJTXServed
CHECK_DEADLOCK FALSE
