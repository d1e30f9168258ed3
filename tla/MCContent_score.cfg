SPECIFICATION OneSpec
CONSTANTS
    News = {"d"}
    Kinds <- Offered
    Layouts <- Containers
    Refreshers = {"sched", "manual"}
    Window = 0
    MaxAttempts = 1
    MaxNow = 1
    MaxBatches = 2
    All = All
    None = None
    Alerts = {"a", "b"}
    Requests = {"r", "s"}
    ListRows = {1, 2, 3}
    At <- Effective
    Labels = {"good", "bad"}
    Limit = 1
    MaxLoads = 2
    MaxRelabels = 1
    SlotsPerDay = 4
    QuietStart = 3
    QuietEnd = 1
    MaxClock = 2
    MaxAsked = 3
    Vocabulary = {"acme", "bolt", "plant", "chip", "stock"}
    Classified = {1, 2, 3}
    Readings <- Classification
    TextOf <- Words
    Themes = {"chip"}
    Generic = {"stock"}
    OldTopics <- Old
    BatchSize = 2
    MaxTopics = 4
    MaxPrunes = 2
    MaxRetries = 1
    Links = {"page", "mobile"}
    Host <- Hosts
    Titles <- TwoTitles
    GateTimes = {0, 2, 3}
    DuplicateWindow = 1
    MaxPrimeWindow = 4
    Sources = {"official", "reprint"}
    Rank <- Ranks
    MaxItems = 3
    MaxRows = 3
    MaxTerms = 3
    Urls = {"u1", "u2"}
    ItemLimit = 1
    PageLength = 2
    FeedSlots = 3
    DaysPerYear = 3
    Tolerance = 1
    MaxFeedNow = 27
    MaxRecords = 2
    EventTopics <- Ranked
    EventNews = {1, 2, 3, 4}
    Story <- Stories
    Markets = {"us", "cn"}
    MayLink <- Pairs
    General = 9
    PoolSize = 3
    CardNews = 1
    SymbolLimit = 2
CHECK_DEADLOCK FALSE
PROPERTY StatisticsFollowLinks
