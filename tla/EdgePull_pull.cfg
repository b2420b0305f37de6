SPECIFICATION FairSpec
CONSTANTS
    IDs = {b}
    Viewers = {v1}
    NoSession = NoSession
    NoID = NoID
    MaxSubscribers = 2
    MaxTotalSubscribers = 2
    MaxObjects = 9
    MaxGen = 9
    Pulls = {p1, p2}
    Home = Home
    Self = Self
    Other = Other
    Pops = {pop}
    NoPod = NoPod
    NoPop = NoPop
    MaxOutside = 3
INVARIANTS EdgeEndsTruly SlotGivenBack
PROPERTIES KilledMeansKilled StopEdgeReturns
CHECK_DEADLOCK FALSE
