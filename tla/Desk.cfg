SPECIFICATION DeskSpec
VIEW PartView
CONSTANTS
    Writers = {w1, w2}
    Outputs = {o1}
    MaxTime = 1
    MaxBatch = 2
    MaxLines = 3
    Keys = {k1, k2}
    NoKey = NoKey
    Slots = {1}
    MaxReceipts = 3
    MaxTampers = 1
    Refreshers = {t1, t2}
    RefreshSeconds = 1
    MaxContextTime = 6
    MaxRestarts = 1
    Addresses = {e1, i1, i2}
    Emails = {e1}
    ClientIps = {i1, i2}
    Operator = e1
    NoEmail = NoEmail
    Handlers = {x1, x2}
    Limit <- MCLimit
    Window = 3
    MaxKeys = 1
    OtpTtl = 1
    GuestTtl = 3
    Newest = 1
    MaxDelay = 1
    MaxNow = 3
    MaxCodes = 2
    Requests = {r1, r2}
    Ttl = 2
    MaxBuild = 2
    MaxCacheTime = 8
    Contracts <- MCContracts
    Snapshots <- MCSnapshots
    Sessions <- MCSessions
    Announced <- MCEvents
    Horizons = {3, 5}
    Multiplier = 4
    Quantity = 1
    Commission = 1
    ExitOffset = 1
    LastEntry = 1
    QuoteAge = 1
    DayLen = 2
    MonthLen = 5
    MinGap = 3
    MaxInstant = 8
    MaxEntries = 2
    Candidates = {"a", "b", "c"}
    Facts <- MCFacts
    Equity = 100
    SinglePct = 2
    SymbolPct = 2
    AggregatePct = 3
    MaxPositions = 2
    ScenarioPnls <- MCPnls
    StartingCapital = 10
    DrawdownLimit = 3
    MaxScenarios = 5
    Symbols = {"A", "B", "C"}
    Workers = 2
    Cutoff = 1
    LatestBar = 2
    People = {p1, p2}
    Gp = p1
    Nobody = Nobody
    Visits = {x1, x2}
    Tokens = {n1}
    MaxConsents = 1
    Readers = {x1, x2}
    Batches = 2
    Rpm = 2
    RateSpan = 2
    CacheSeconds = 2
    Desks <- MCDesks
    MaxCalls = 4
    MaxQuoteTime = 3
    Callers = {x1, x2}
    Attempts = 2
    MaxObserved = 2
    MaxDay = 1
    MaxFiles = 2
    Tenors = 2
    Watchlist = 2
    MaxRows = 1
    Evenings <- MCEvenings
    MaxNights = 2
    MaxDate = 2
    MaxSheets = 1
    Commits <- MCCommits
    MaxReports = 2
    MaxEdits = 2
    MaxDeploys = 1
    HistoryYears = 2
    MaxAge = 3
    ReleaseAt = 4
    Trials = {1}
    Salts = {1, 2}
    DrawnArm <- MCDrawnArm
    LastReading = 6
    MaxDecisions = 1
INVARIANTS
    JournalSound
    KeyRunsOnce
    SingleFlight
    WindowRespected
    CodesSound
    ServedAgeBounded
    TradeKept
    FreshBookWithinLimits
    FreezesOnAnyBreach
    ReadyIsComplete
    ConsoleSound
    QuotesKept
    SeriesKept
    ContextHonest
    NightlyTrue
    PublishableIsWhole
    ResearchKept
PROPERTY
    SnapshotNeverWorse
CHECK_DEADLOCK FALSE
