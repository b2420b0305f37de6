SPECIFICATION FairSpec
CONSTANTS
    IDs = {b1}
    Sessions = {s1, s2}
    Viewers = {v1, v2}
    NoSession = NoSession
    NoID = NoID
    MaxBroadcasts = 1
    MaxSubscribers = 1
    MaxTotalSubscribers = 1
    StallEnds = TRUE
    MaxObjects = 2
    MaxGen = 2
CHECK_DEADLOCK FALSE
INVARIANTS TypeOK SlotOwnedByHandle PrimeIsCurrent DeposedIsTold ViewersAccounted
PROPERTIES ReclaimGetsFullGrace StopSparesSuccessor AwayBroadcastEnds
