SPECIFICATION FairSpec
CONSTANTS
    a1 = a1
    Anchor = {a1}
    MaxFaults = 1
    MaxSent = 3
INVARIANTS TypeOK SettledJobsAreOnTheirWay OnceUnlessDisturbed StatesInOrder
PROPERTY EveryAnchorConfirmed
CHECK_DEADLOCK FALSE
