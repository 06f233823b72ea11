SPECIFICATION MCSpec
CONSTANTS
    Symbols = {sol}
    Uuids = {t1, t2}
    None = None
    CooldownBars = 2
    StopCooldownBars = 2
    MaxConsecutiveStops = 2
    TightBars = 0
    DecayStart = 1
    MaxHold = 1
    MaxPositions = 1
    MaxPerSymbol = 1
    Window = 3
    MaxCandles = 4
    MaxStops = 1
    MaxErrors = 1
    Horizon <- MCHorizon
    Day <- MCDay
    Week <- MCWeek
    LossSizes = {1, 2}
    LossCap = 3
    DailyLimit = 2
    WeeklyLimit = 3
    Cooldown = 3
    Equities <- MCEquities
    DefaultRisk = 150
    ReducedRisk = 75
    ReducePct = 15
    RestorePct = 10
    StreakLength = 3
    ReducedTrades = 5
    StreakCap = 6
    Callers = {a, b}
    Weights = {1, 3}
    MaxTokens = 4
    Rate = 1
    SleepCap = 2
    Observed = 5
    NoPosition = NoPosition
    Attempts = 3
    Tools = {"sweep", "btc", "fast", "full", "extended", "continuation", "swing"}
    Shapes <- MCShapes
    Markets <- MCMarkets
    Length = 5
    PerDay = 3
    PerTrend = 2
    WarmUp = 0
    SweepSession = {1, 2, 3}
    TimeStop = 2
    LongStop = 3
    Whole = 4
    DayLimit = 40
    Reduce = 50
    Restore = 10
    LossRun = 2
    Pause = 5
    Split = 3
    Fee = 1
    Slip = 1
    Trail = 2
    Coins = {"s1"}
    Prices = {3, 5}
    Quantities = {1, 2}
    Slips = {1}
    MaxOrders = 4
    MaxReboots = 1
    BackBars <- MCBars
    Sizes = {1}
    Distances = {2}
    Frame = 4
    Scale = 4
    Initial = 100
    NoRow = NoRow
    Scripts = {"sweep", "btc", "fast", "full", "extended", "continuation", "swing", "runner"}
    Ends <- MCEnds
    Beyond = 1
    ScriptPage = 2
    Grid <- MCGrid
    Scores <- MCScores
    Workers = 2
    MaxCuts = 1
    MaxBroken = 1
    Streams = {"s1"}
    MaxDays = 1
    Enough = 2
    KeepDays = 2
    Lookback = 2
    MinLookback = 1
    Recent = 1
    RegimeDays = 2
    Backward = 1
    Closes = {10}
    Volumes = {2}
    LastDay = 2
    MaxMessages = 2
    MaxEnds = 1
    MaxFaults = 1
    DatasetOrder <- MCOrder
    Kind <- MCKind
    Torn = Torn
    ResearchPage = 2
    RecentRows = 2
    LastHour = 3
    MaxTimeouts = 1
    MaxKills = 1
    HistoryDays = {0, 1, 2, 3, 4, 5, 6, 7, 8}
    TrainDays = 3
    TestDays = 2
    StepDays = 2
    MinTrain = 2
    MaxTrades = 1
    FeedIntervals <- MCIntervals
    Period <- MCPeriod
    Warm <- MCWarm
    TradingHours = {0, 1}
    LastCandle = 9
    MaxMisses = 3
    MaxStarts = 1
    NoTrade = NoTrade
    Signals = {"u1", "u2"}
    Sides = {"long", "short"}
    MaxShut = 3
    MaxPolls = 2
    MaxLapses = 1
    MaxCrashes = 1
    Deals = {"t1"}
    Rules = {"structural_invalidation", "early_dead_cut"}
    Capacity = 3
    EarlyBar = 2
    PostBars = 1
    MaxBars = 2
    MaxRefusals = 1
    MaxHalts = 1
SYMMETRY Interchangeable
INVARIANTS
    TypesHold
    OneEntryPerCandle BookedOnce OpenIsManaged CooldownServed HoldBounded
    LimitsEnforced BrakesCooldownServed
    DrawdownReducesRisk PenaltyServed
    GrantsBounded
    AnswerIsTrue
    Ledger
    HistoryIsWhole AdviceIsStable
    NothingLost OneEntryPerKey
    FedIsCurrent
PROPERTIES
    RemovedIsRecorded
    OnlyResumeOrClockReopens ShutdownIsFinal
    RestoreNeedsCause
