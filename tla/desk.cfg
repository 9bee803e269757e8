SPECIFICATION DeskSpec
CONSTANTS
    None = None
    Typed = Typed
    Books = {b1, b2}
    Calls = {c1, c2}
    MaxId = 2
    Hits = {1}
    Sizes = {1, 2}
    MaxVisits = 1
    MaxSearches = 1
    MaxLoads = 2
    Contacts = {"a", "b"}
    Linked = {"a"}
    MaxGens = 2
    MaxSessions = 2
    MaxRevs = 1
    MaxWrites = 2
    FewCalls = {"x"}
    MaxVersions = 1
    MaxConns = 2
    Clients = {"p", "q", "r"}
    MaxValue = 2
    MaxSubscribers = 2
    Buffer = 1
    MaxServers = 3
    MaxSettings = 2
    Conns = {"p", "q", "r"}
    Slots = 2
    MaxDownloads = 2
    Capacity = 2
    MaxProgress = 2
    MaxClears = 0
    MaxAsked = 1
    Sources = {"qrz", "log", "cty"}
    Prefix = "cty"
    Local = {"log"}
    Lookups = {"v", "w"}
    MaxKeys = 3
    Gap = 2
    Spots <- MCSpots
    MaxBatches = 2
    MaxChanges = 2
    FewBooks = {"a"}
    Servers = {"s", "t"}
    StationIds = {1, 2}
    MaxForms = 1
    MaxSwitches = 2
    MaxToggles = 1
    MaxPeriods = 1
    Probes = {"p", "q"}
    Checks = {"c", "d"}
    MaxOutages = 1
    Attempts = 3
    MaxTimes = 4
    Moments = {1}
    Refs = {"", "r"}
    MaxWorks = 1
    MaxReloads = 2
    Contests = {"c", "d"}
    NoContest = NoContest
    Order <- MCOrder
    Prefilled = {"c"}
    NoText = ""
    MaxCopies = 2
SYMMETRY Symmetry
INVARIANT DeskTypeOK
PROPERTIES  BoardSafe PanelsSafe
CHECK_DEADLOCK FALSE
