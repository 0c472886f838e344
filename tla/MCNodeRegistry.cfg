SPECIFICATION RegistrySpec
CONSTANTS
    n1 = n1
    n2 = n2
    r1 = r1
    r2 = r2
    r3 = r3
    TntAddr = {n1, n2}
    u1 = u1
    u2 = u2
    Uri = {u1, u2}
    NoUri = NoUri
    Ip = {i1}
    NoIp = NoIp
    Request = {r1, r2, r3}
SYMMETRY Symmetry
INVARIANT SharedOnlyByOverlap
PROPERTY AnswersAreStored
CHECK_DEADLOCK FALSE
