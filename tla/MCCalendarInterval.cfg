SPECIFICATION FairSpec
CONSTANTS
    a1 = a1
    a2 = a2
    r1 = r1
    r2 = r2
    Agg = {a1, a2}
    Run = {r1, r2}
    Null = Null
    Lookback = 2
    FirstWindow = 3
    Latency = 1
    MaxClock = 3
    MaxFaults = 1
INVARIANTS TypeOK NoAggregationSkipped
PROPERTY EveryAggregationPublished
