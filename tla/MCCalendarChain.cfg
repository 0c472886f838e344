SPECIFICATION FairSpec
CONSTANTS
    i1 = i1
    i2 = i2
    w1 = w1
    w2 = w2
    w3 = w3
    Instance = {i1, i2}
    Write = {w1, w2, w3}
    Home <- MCHome
    GenesisData = gen
    ZeroHash = zero
    MaxRetries = 1
    PoolSize = 3
    MaxFaults = 1
INVARIANTS TypeOK HeightsSound Chained BlocksAccountedFor
PROPERTIES WritesFinish ImplementsLedger
CHECK_DEADLOCK FALSE
