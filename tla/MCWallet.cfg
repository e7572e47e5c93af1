\* Two concurrent calls, two intents, one credit sent up to twice, one
\* crash and one lock that expires under its holder.
SPECIFICATION FairSpec
CONSTANTS
    c1 = c1  c2 = c2
    i1 = i1  i2 = i2
    k1 = k1
    Calls = {c1, c2}
    Intents = {i1, i2}
    Credits = {k1}
    Amount <- MCAmount
    MaxSends = 2
    MaxCrashes = 1
    MaxExpiries = 1
INVARIANTS TypeOK HoldsCovered HoldsExact LedgerBacksWallet BooksBalance
PROPERTIES CommittedIsFinal LockComesFree KeepsPromise
