SPECIFICATION OneSpec
CONSTANTS
    Interval = 1
    Heartbeat = 3
    FailureEvery = 2
    Timeout = 6
    Longest = 2
    Threads = {t1, t2}
    None = None
    Absent = Absent
    Configs = {"c1", "c2"}
    Admins = {"a1", "a2"}
    MaxEdits = 4
    Retention = 1
    BatchSize = 2
    Inflow = 2
    Keep = 2
    MaxRows = 3
    MaxSlips = 1
    MaxBackups = 3
    News = {"n", "o"}
    Entries <- Entered
    Normal <- Normals
    Naming <- Named
    Hits <- RuleHits
    MinCount = 2
    MaxRequests = 2
    MaxSearches = 2
    MaxHits = 2
    Slots <- Phases
    Offset <- Offsets
    Target <- Targets
    DayLength = 6
    Grace = 2
    TickEvery = 1
    Posts = {"request"}
    MaxTime = 9
    Requests = {"r1", "r2"}
    Sources = {"tencent", "yahoo"}
    BoardTtl = 2
    FlowTtl = 3
    FailureTtl = 2
    CandleTtl = 2
    UpstreamTimeout = 1
    MaxNow = 4
    MaxFetches = 3
    SlotsPerDay = 4
    QuietStart = 3
    QuietEnd = 1
    OpenSlots <- Openings
    DateShift <- Shifts
    TradingDays = {0, 1}
    ForceWindow = 0
    Prices = {1, 2}
    BigPrices = {2}
    MaxClock = 5
    MaxRestarts = 1
    Indices = {"a", "b"}
    Changes <- IndexChanges
    Volatilities = {12, 13, 20, 30}
    Boards = {1, 2}
    Quotes <- BoardQuotes
    BoardLimit = 1
    CoveredNews = {"n", "o"}
    ShownMarkets = {"us", "cn"}
    RawMarkets = {"us", "hk", "fr"}
    MarketOf <- Shown
    Scores = {1}
    Labels = {"negative"}
    Lookback = 0
    MinSample = 2
    MaxMentions = 3
    MaxNewsNow = 1
CHECK_DEADLOCK FALSE
SYMMETRY ThreadSymmetry
INVARIANTS
    WorkersAreReported
    AtMostOneDefault
    HouseIsInOrder
PROPERTIES
    QuotesAreSound
    CachesAreHonest
    SentimentIsSound
    NewsAreRelatedOnce
    DigestsAreSound
