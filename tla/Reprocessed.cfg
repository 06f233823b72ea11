SPECIFICATION Spec
CONSTANTS
    Uuids = {u1, u2}
    Sides = {"long", "short"}
    MaxCandles = 3
    MaxPolls = 3
    MaxFails = 0
    MaxStops = 0
INVARIANTS HeldCountsCandles
