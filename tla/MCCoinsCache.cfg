CONSTANTS
    o1 = o1
    o2 = o2
    r1 = r1
    r2 = r2
    r3 = r3
    NoCoin = NoCoin
    Coins <- MCCoins
    Genesis <- OneCoin
    Corralled <- InCorral
    Free <- Outside
SYMMETRY ReadersAlike
SPECIFICATION CoinsSpec
INVARIANTS
    FlagsAreTrue
    CoinsAreOfTheChain
    FreshIsNeverMisapplied
PROPERTIES
    
    ImplementsUtxoSet
