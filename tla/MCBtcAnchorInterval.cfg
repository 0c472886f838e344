SPECIFICATION AnchorSpec
CONSTANTS
    r1 = r1
    r2 = r2
    Run = {r1, r2}
    Null = Null
    Nines = {2}
    MaxHeight = 6
    MaxAnchorFaults = 2
SYMMETRY Symmetry
INVARIANTS AnchorTypeOK CalBlocksHandedOver
CHECK_DEADLOCK FALSE
