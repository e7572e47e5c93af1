SPECIFICATION MCSpec
CONSTANTS
    r1 = r1  r2 = r2  k1 = k1  k2 = k2  d1 = d1
    Requests = {r1, r2}
    Keys = {k1, k2}
    NoKey = "null"
    Amount <- MCAmount
    Destination <- MCDestination
    OrderTotal = 3
    Disputes = {d1}
    MaxEvents = 3
INVARIANTS TypeOK RefundCeiling CompletedIsBooked SuccessIsCompleted
PROPERTIES OutcomeStands KeepsPromise
CHECK_DEADLOCK FALSE
SYMMETRY Alike
