SPECIFICATION Spec
CONSTANTS
    t1 = t1
    t2 = t2
    t3 = t3
    m1 = m1
    root = root
    a1 = a1
    a2 = a2
    c1 = c1
    c2 = c2
    d1 = d1
    d2 = d2
    e1 = e1
    Threads = {t1, t2, t3}
    Miners = {m1}
    NoThread = NoThread
    Blocks = {a1, a2, c1, c2, d1, d2, e1}
    Feeds <- MCFeeds
    Root = root
    NoBlock = NoBlock
    Chain <- MCChain
    Work <- MCWork
    Bits <- MCBits
    Size <- MCSize
    Valid = {a1, a2, c1, c2, d1, d2}
    numScriptCheckQueues = 2
    IsChainNearlySyncd = TRUE
CHECK_DEADLOCK FALSE
INVARIANT OnlyInvalidBlocksFail
