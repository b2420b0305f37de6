SPECIFICATION Spec
CONSTANTS
    IDs = {b1}
    Sessions = {s1, s2, pull}
    Viewers = {}
    NoSession = NoSession
    NoID = NoID
    MaxBroadcasts = 1
    MaxSubscribers = 1
    MaxTotalSubscribers = 1
    MaxObjects = 1
    MaxGen = 2
    Pull = pull
    Self = self
    Other = other
    Pops = {}
    NoPod = NoPod
    NoPop = NoPop
    Targets = {}
    MintRedraws = 1
    MaxLeaseGen = 2
    MaxOutside = 0
CHECK_DEADLOCK FALSE
INVARIANTS RenewedWhileLive
