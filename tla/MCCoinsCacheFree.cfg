CONSTANTS
    o1 = o1
    o2 = o2
    r1 = r1
    r2 = r2
    r3 = r3
    NoCoin = NoCoin
    Coins <- MCCoins
    Genesis <- OneCoin
    Corralled <- None
    Free <- Outside
SPECIFICATION CoinsSpec
INVARIANTS
    FlagsAreTrueOverBest
