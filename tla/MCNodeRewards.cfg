SPECIFICATION MCSpec
CONSTANTS
    s1 = s1
    s2 = s2
    p1 = p1
    p2 = p2
    Node = {1, 2}
    Public = {1}
    Service = {s1, s2}
    NoService = NoService
    Poller = {p1, p2}
    StartWindow = 1
    SelectionCount = 1
    MaxMinute = 3
    MaxRounds = 1
    MaxFaults = 2
INVARIANTS TypeOK RewardsAccountedFor BalanceChecksSeen
PROPERTIES KeysCome
CHECK_DEADLOCK FALSE
