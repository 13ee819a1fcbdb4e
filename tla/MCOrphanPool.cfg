CONSTANTS
    a = a
    b = b
    n = n
    m = m
    o = o
    h1 = h1
    h2 = h2
    Txs = {a, b, n, m, o}
    Prevs <- MCPrevs
    Size <- MCSize
    Oversize = {o}
    Timelocked = {n}
    MaxItems = 2
    MaxBytes = 3
    Expiry = 1
    CheckInterval = 2
    MaxTime = 3
SPECIFICATION FairSpec
INVARIANTS
    BytesAreExact
    IndexIsExact
PROPERTIES
    LimitHolds
    LimitReturns
