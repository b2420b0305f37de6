SPECIFICATION Spec
CONSTANTS
    Pods = {p1, p2}
    IDs = {b1}
    Pops = {q1}
    NoPod = NoPod
    NoPop = NoPop
    LeaseDuration = 1
    BroadcastGrace = 1
    MaxBroadcasts = 1
    ClaimRetries = 1
    Ops = {"claim", "stall", "delete", "reserve", "deletereservation", "janitor"}
    MaxGen = 2
    MaxBorn = 2
    MaxLag = 1
    MaxCalls = 2
    MaxLoops = 1
    MaxFails = 0
SYMMETRY PodSymmetry
INVARIANTS GenerationsUnique DecisionsStand ReservationRespected
PROPERTIES HandoverBumpsGeneration LiveLeaseKept
