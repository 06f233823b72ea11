SPECIFICATION Spec
CONSTANTS
    Sym = {btc}
    OwnIds = {t1, t2}
    None = None
    MaxOpen = 2
    MaxQty = 2
    Answers = {}
    BrakeKinds = {}
    MaxUser = 0
    Stops = {"graceful"}
    MaxStops = 1
    MaxFails = 0
    MaxLost = 0
    MaxFlattens = 0
SYMMETRY UuidSymmetry
PROPERTIES GracefulStopKeepsPositions
