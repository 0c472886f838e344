SPECIFICATION FairSpec
CONSTANTS
    p1 = p1
    p2 = p2
    n1 = n1
    Producer = {p1, p2}
    Node = {n1}
    NoProducer = NoProducer
    SlotsPerDay = 8
    MaxClock = 17
    MaxFaults = 1
INVARIANTS TypeOK OneVerdictPerFault ReportIsTheVerdict
CHECK_DEADLOCK FALSE
PROPERTY EveryAuditDecided
