SPECIFICATION Spec
CONSTANTS
    r1 = r1  r2 = r2  b1 = b1  b2 = b2
    Requests = {r1, r2}
    Batches = {b1, b2}
    Nothing = "null"
    MaxEvents = 2
INVARIANTS TypeOK OneOpenBatch PayoutStaysInSight
PROPERTIES PaidStays KeepsPromise
CHECK_DEADLOCK FALSE
SYMMETRY Alike
