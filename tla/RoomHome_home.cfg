SPECIFICATION FairSpec
CONSTANTS
    Pods = {p1, p2}
    Clients = {c1, c2}
    Broadcasts = {b1}
    NoPod = NoPod
    MaxGen = 2
    MaxJoins = 1
    MaxFaults = 1
    MaxEdits = 1
CHECK_DEADLOCK FALSE
INVARIANTS TypeOK OneHome
PROPERTIES LostOnlyWhenTaken StaleHomeYields EmptyRoomCollected
