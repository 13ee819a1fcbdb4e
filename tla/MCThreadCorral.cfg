CONSTANTS
    admit1 = admit1
    admit2 = admit2
    commit = commit
    wallet = wallet
    pause = pause
    Threads <- MCThreads
    Regions <- MCRegions
    Uses <- MCUses
    Nestable <- MCNestable
    MaxNest = 2
SPECIFICATION FairSpec
INVARIANTS
    InsideCurRegion
    RequestHasWaiter
    NoLostWakeup
    InsideNeverWaits
PROPERTIES
    ImplementsCorral
    TopRegionEnters
