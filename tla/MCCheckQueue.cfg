CONSTANTS
    w1 = w1
    w2 = w2
    c1 = c1
    c2 = c2
    c3 = c3
    c4 = c4
    Master = master
    Workers <- MCWorkers
    Checks <- MCChecks
    Bad <- MCBad
    BatchSize = 2
SPECIFICATION FairSpec
CHECK_DEADLOCK FALSE
INVARIANTS
    TodoIsExact
    IdleBetweenRounds
PROPERTIES
    ImplementsCheckRound
    WaitReturns
