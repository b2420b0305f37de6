SPECIFICATION FairSpec
CONSTANTS
    Pods = {p1, p2}
    IDs = {b1}
    Pops = {}
    NoPod = NoPod
    NoPop = NoPop
    LeaseDuration = 1
    BroadcastGrace = 1
    MaxBroadcasts = 1
    ClaimRetries = 1
    Ops = {"claim", "renew"}
    MaxGen = 2
    MaxBorn = 1
    MaxLag = 2
    MaxCalls = 2
    MaxLoops = 1
    MaxFails = 0
INVARIANTS TypeOK
PROPERTIES DeposedHolderStops
