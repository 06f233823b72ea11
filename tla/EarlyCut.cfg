SPECIFICATION Spec
CONSTANTS
    Symbols = {sol}
    Uuids = {t1}
    None = None
    CooldownBars = 2
    StopCooldownBars = 2
    MaxConsecutiveStops = 2
    TightBars = 0
    DecayStart = 1
    MaxHold = 4
    MaxPositions = 1
    MaxPerSymbol = 1
    Window = 3
    MaxCandles = 4
    MaxStops = 1
    MaxErrors = 0
INVARIANTS CutShowedNoLife
