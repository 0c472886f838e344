SPECIFICATION FairSpec
CONSTANTS
    i1 = i1
    i2 = i2
    h1 = h1
    h2 = h2
    h3 = h3
    Instance = {i1, i2}
    Hash = {h1, h2, h3}
    NoTree = NoTree
    TreeSize = 2
    MaxFaults = 1
INVARIANTS TypeOK AckedIsAggregated WorkIsCurrent ExtraTreesNeedFaults
PROPERTIES RowsNeverMove EveryHashAggregated
