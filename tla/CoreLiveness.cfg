SPECIFICATION FairSpec
CONSTANTS
    Sym = {btc}
    OwnIds = {t1}
    None = None
    MaxOpen = 2
    MaxQty = 2
    Answers = {"partial"}
    BrakeKinds = {}
    MaxUser = 1
    Stops = {"crash", "graceful"}
    MaxStops = 1
    MaxFails = 0
    MaxLost = 1
    MaxFlattens = 0
PROPERTIES ExposureIsTracked QuantityIsHealed
