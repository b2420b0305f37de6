SPECIFICATION Spec
SYMMETRY PublisherSymmetry
CONSTANTS
    IDs = {b1}
    Sessions = {s1, s2, pull}
    Viewers = {v1}
    NoSession = NoSession
    NoID = NoID
    MaxBroadcasts = 1
    MaxSubscribers = 1
    MaxTotalSubscribers = 1
    MaxObjects = 2
    MaxGen = 2
    Pull = pull
    Self = self
    Other = other
    Pops = {pop}
    NoPod = NoPod
    NoPop = NoPop
    Targets = {b1}
    MintRedraws = 1
    MaxLeaseGen = 2
    MaxOutside = 1
CHECK_DEADLOCK FALSE
INVARIANTS BannedIDSilenced NoZombieSlot
