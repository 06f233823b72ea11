SPECIFICATION Spec
CONSTANTS
    Sym = {btc, sol}
    OwnIds = {t1, t2}
    None = None
    MaxOpen = 1
    MaxQty = 1
    Answers = {"rejected"}
    BrakeKinds = {}
    MaxUser = 0
    Stops = {"crash", "graceful"}
    MaxStops = 1
    MaxFails = 1
    MaxLost = 0
    MaxFlattens = 1
SYMMETRY UuidSymmetry
INVARIANTS OwnLimits
PROPERTIES ImplementsBook ClosedIsFinal
