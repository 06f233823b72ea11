SPECIFICATION BrakesSpec
CONSTANTS
    Horizon <- MCHorizon
    Day <- MCDay
    Week <- MCWeek
    LossSizes = {1, 2}
    LossCap = 4
    DailyLimit = 2
    WeeklyLimit = 3
    Cooldown = 3
INVARIANTS RestartKeepsBrakes
