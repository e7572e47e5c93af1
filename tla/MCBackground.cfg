SPECIFICATION MCSpec
CONSTANTS
    p = p  q = q  e1 = e1  j1 = j1  j2 = j2  k1 = k1
    Processes = {p, q}
    Events = {e1}
    MaxRetries = 2
    Jobs = {j1, j2}
    EmailKeys = {k1}
    KeyOf <- MCKeyOf
    MaxLapses = 1
    MaxFaults = 3
INVARIANTS TypeOK DispatchedOnce DuplicateWasSent SentOnce
PROPERTIES NeverLost JobSettles
CHECK_DEADLOCK FALSE
