\* The same wallet without faults; the client sends its credit twice.
SPECIFICATION Spec
CONSTANTS
    c1 = c1  c2 = c2
    i1 = i1  i2 = i2
    k1 = k1
    Calls = {c1, c2}
    Intents = {i1, i2}
    Credits = {k1}
    Amount <- MCAmount
    MaxSends = 2
    MaxCrashes = 0
    MaxExpiries = 0
INVARIANTS LedgerTruth
