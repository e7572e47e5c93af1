SPECIFICATION Spec
CONSTANTS
    r1 = r1  r2 = r2
    gA = gA  gB = gB
    o1 = o1  o2 = o2
    Requests = {r1, r2}
    Providers = {gA, gB}
    Orders = {o1}
    Shares = {"part"}
    NoIsFinal = TRUE
    MaxAttempts = 2
    MaxCrashes = 0
    MaxExpiries = 0
    MaxLapses = 0
INVARIANTS ProcessedMeansConfirmed
CHECK_DEADLOCK FALSE
SYMMETRY Alike
