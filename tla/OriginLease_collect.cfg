SPECIFICATION FairSpec
CONSTANTS
    Pods = {p1, p2}
    IDs = {b1}
    Pops = {q1}
    NoPod = NoPod
    NoPop = NoPop
    LeaseDuration = 1
    BroadcastGrace = 1
    MaxBroadcasts = 1
    ClaimRetries = 2
    Ops = {"claim", "renew", "grace", "release", "releasegen", "janitor", "reserve",
           "renewreservations"}
    MaxGen = 2
    MaxBorn = 1
    MaxLag = 1
    MaxCalls = 1
    MaxLoops = 1
    MaxFails = 1
PROPERTIES AbandonedLeaseCollected CallsAreAtomic
