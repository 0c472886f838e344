SPECIFICATION AnchorSpec
CONSTANTS
    r1 = r1
    r2 = r2
    Run = {r1}
    Null = Null
    Nines = {2}
    MaxHeight = 6
    MaxAnchorFaults = 1
INVARIANT AnchorStateQueued
CHECK_DEADLOCK FALSE
