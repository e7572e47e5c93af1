SPECIFICATION FairSpec
CONSTANTS
    r1 = r1  r2 = r2
    gA = gA  gB = gB
    o1 = o1  o2 = o2
    Requests = {r1, r2}
    Providers = {gA}
    Orders = {o1}
    Shares = {"part"}
    NoIsFinal = TRUE
    MaxAttempts = 1
    MaxCrashes = 1
    MaxExpiries = 1
    MaxLapses = 1
INVARIANTS LoneCaptureReconciled
CHECK_DEADLOCK FALSE
PROPERTIES CaptureConfirms KeepsPromise
