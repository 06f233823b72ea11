SPECIFICATION MCSpec
CONSTANTS
    None = None
    Symbols = {sol, xrp}
    Uuids = {t1, t2}
    CooldownBars = 2
    StopCooldownBars = 2
    MaxConsecutiveStops = 1
    TightBars = 0
    DecayStart = 1
    MaxHold = 2
    MaxPositions = 1
    MaxPerSymbol = 1
    Window = 3
    MaxCandles = 1
    MaxStops = 1
    MaxErrors = 1
    Callers = {a, b}
    MaxWrites = 4
    MaxFailures = 1
    MaxStarts = 1
    Tasks = {ws, recon}
    Socket = ws
    MaxRestarts = 2
    MaxRetries = 2
    Patience = 1
    History = 3
    Checked = 2
    MaxDrops = 1
    MaxClosed = 4
INVARIANTS
    TypesHold
    AnsweredIsDurable NoOvertaking
    HealthyRuns
    WithinLimits
PROPERTIES
    AnsweredUnlessClosed
    ShutdownEndsOrSpins
    HandledInOrder WrongIsCorrected
    CaughtUp
