CONSTANTS
    w1 = w1
    w2 = w2
    commit = commit
    validator = validator
    r1 = r1
    r2 = r2
    p = p
    c = c
    d = d
    s = s
    l = l
    x = x
    y = y
    z = z
    Regions <- MCRegions
    BaseCoins <- MCBase
    Bits <- MCBits
    Threads <- RoundThreads
    Workers = {w1, w2}
    Committers = {commit}
    Validators = {}
    Rpcs = {}
    Txs <- RoundTxs
    Spends <- RoundSpends
    Reads <- RoundReads
    FinalAt <- RoundFinal
    Bad = {}
    FromLight = {}
    MaxMove = 2
    MaxTxPerRound = 2
    Scenarios <- Rounds
CHECK_DEADLOCK FALSE
SPECIFICATION FairSpec
INVARIANTS
    TypeOK
    NoDoubleSpend
    RoundIsDisjoint
    NoStrandedOrphan
PROPERTY QueuesDrain
