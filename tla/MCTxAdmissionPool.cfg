CONSTANTS
    w1 = w1
    w2 = w2
    commit = commit
    validator = validator
    r1 = r1
    r2 = r2
    p = p
    c = c
    d = d
    s = s
    l = l
    x = x
    y = y
    z = z
    Regions <- MCRegions
    BaseCoins <- MCBase
    Bits <- MCBits
    Threads <- PoolThreads
    Workers = {w1}
    Committers = {commit}
    Validators = {validator}
    Rpcs = {r1, r2}
    Txs <- PoolTxs
    Spends <- PoolSpends
    Reads <- PoolReads
    FinalAt <- PoolFinal
    Bad = {}
    FromLight = {}
    MaxMove = 2
    MaxTxPerRound = 2
    Scenarios <- Pool
CHECK_DEADLOCK FALSE
SPECIFICATION Spec
SYMMETRY PoolSymmetry
INVARIANTS
    NoDoubleSpend
    PoolIsConsistent
    PausedMeansFlushed
    NoStrandedOrphan
PROPERTY NothingIsLost
