SPECIFICATION Spec
CONSTANTS
    Sym = {btc}
    OwnIds = {t1, t2}
    None = None
    MaxOpen = 2
    MaxQty = 1
    Answers = {"rejected"}
    BrakeKinds = {"paused", "limit"}
    MaxUser = 0
    Stops = {"crash", "graceful"}
    MaxStops = 1
    MaxFails = 1
    MaxLost = 1
    MaxFlattens = 0
SYMMETRY UuidSymmetry
INVARIANTS TypeOK BookedOnce ClosedIsBooked
