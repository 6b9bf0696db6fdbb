SPECIFICATION DeploymentSpec
CONSTANTS
    Null = Null
    Blank = Blank
    NotNumeric = NotNumeric
    NaN = NaN
    Malformed = Malformed
    BlsSeries = {"cpi", "jobs"}
    BeaSeries = {"pce"}
    NominalSeries = {"n2", "n10"}
    RealSeries = {"r10"}
    HousingSeries = {"starts"}
    FredSeries = {"fed"}
    MaxYears = 2
    ImportYears = {1, 2, 3}
    WindowStart <- MCWindowStart
    Today = 3
    BlsBodies <- MCBlsBodies
    BeaBodies <- MCBeaBodies
    NominalBodies <- MCNominalBodies
    RealBodies <- MCRealBodies
    CensusBodies <- MCCensusBodies
    FredBodies <- MCFredBodies
    ReleaseRows <- MCReleaseRows
    Windows = {1, 2}
    ContextWindow = 1
    ChartSessions = 3
    Spreads <- MCSpreads
    Compensations <- MCCompensations
    YearMonths = 3
    TrendMonths = 2
    HousingLimit = 2
    MaxCommands = 5
    ReadSeries = {"a", "b"}
    Stored <- MCStored
    Arrivals <- MCArrivals
    Starts = {Null, 2, 3}
    Ends = {Null, 3}
    Limits = {1, 2}
    MovingWindows = {1, 2, 3}
    MaxAttempts = 3
    MaxBytes = 2
    ChunkSizes = {1, 2}
    Threads = {t1, t2}
    Limit = 2
    TicksPerSecond = 2
    WindowSeconds = 1
    MaxMoment = 4
    StaleThreshold = 2
    UnfinishedGracePeriod = 0
    MaxSweeps = 3
    MaxHour = 3
    Many = Many
    Expected = 2
    Newest = 4
    Migrators = {m1, m2}
    Failed = Failed
    Syncers = {s1, s2}
    Schedule <- MCSchedule
    FredReleases = {"cpi", "jobs"}
    ReleaseDates <- MCReleaseDates
    Catalogs <- MCCatalogs
    FirstDay = 1
    LastDay = 2
    Runs = {r1}
    Tabs = {tab1, tab2}
    Lookback = 1
    MaxTime = 3
SYMMETRY Symmetry
INVARIANTS
    IngestionTypeOK
    RunsAccountForVersions
    ProvenanceCountsRevisions
    AnswersAreStored
    HousingNewsIsWatched
    PagesAgree
    PagesSkipNothing
    TransformsDoNotDependOnTheRange
    OneBodyAtMost
    LimitIsKept
    HealthyIsRecentAndClean
    VisitTypeOK
    LostOnlyIfStraddled
PROPERTIES
    BaselineIsHistory
    RerunIsIdle
    ExitTellsTheSchema
    CalendarKeepsItsWord
CHECK_DEADLOCK FALSE
