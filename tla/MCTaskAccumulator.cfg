SPECIFICATION FairSpec
CONSTANTS
    m1 = m1
    m2 = m2
    log = log
    score = score
    Message = {m1,m2}
    Kind = {log, score}
    KindOf <- MCKindOf
    LogKind = log
    BatchSize = 2
    MaxFaults = 1
    MaxTag = 4
    MaxJobs = 4
INVARIANTS TypeOK AckedIsEnqueued WorkInProgressIsSound
CHECK_DEADLOCK FALSE
PROPERTY EveryMessageWritten
