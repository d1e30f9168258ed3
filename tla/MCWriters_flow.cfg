SPECIFICATION OneSpec
CONSTANTS
    None = None
    Writers = {w1, w2}
    Threads = {t1, t2}
    Sources = {"official", "reprint"}
    Rank <- Ranks
    Urls = {"o1", "r1", "r2"}
    Story <- Stories
    Offers <- Items
    Irrelevant = {"r2"}
    MaxRefreshes = 2
    MaxChanges = 1
    Feeds = {"a", "b"}
    Watched = "a"
    Cadence <- EveryThree
    MaxMultiplier = 2
    EmptyThreshold = 2
    Jitter = 1
    Cooldown = 1
    Duration = 1
    MaxStreak = 3
    MaxAge = 7
    News = {1, 2}
    BatchLimit = 2
    DailyLimit = 1
    Enabled = TRUE
    Scans = TRUE
    MaxDay = 1
    MaxRestarts = 1
    MaxCalls = 3
    SlotsPerDay = 4
    QuietStart = 3
    QuietEnd = 1
    MaxTime = 4
    Verdicts <- Answers
    Stocks <- List
    ByCode <- Codes
    ByName <- Names
    Sectors = {"chip"}
    SectorsOf <- InSectors
    Moods <- Divergent
    MinMood = 1
    MinChange = 5
    KeywordHits <- Rules
    StockLimit = 1
    OverseasLimit = 1
    DigestLength = 2
    MaxEdits = 1
    MaxFaults = 1
    RowIds = {1, 2, 3}
    Links = {"a", "a1", "a2", "b"}
    Normal <- Pages
    Times = {1, 2}
    BatchSize = 2
    MaxRuns = 2
CHECK_DEADLOCK FALSE
SYMMETRY Symmetry
INVARIANTS
    SourcesAreServed
    VerdictsAreSound
PROPERTIES
    StoriesAreKept
    BackfillIsSafe
    TakeawaysAreSound
    ResultsAreKept
