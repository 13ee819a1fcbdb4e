CONSTANTS
    a = a
    b = b
    n = n
    m = m
    o = o
    h1 = h1
    h2 = h2
    Txs = {a, n, m}
    Prevs <- LimitPrevs
    Size <- LimitSize
    Oversize = {}
    Timelocked = {n, m}
    MaxItems = 1
    MaxBytes = 3
    Expiry = 1
    CheckInterval = 2
    MaxTime = 0
SPECIFICATION FairSpec
PROPERTY LimitReturns
