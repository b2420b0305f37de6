SPECIFICATION FairSpec
CONSTANTS
    CRName = canonical
    OpNames = {x}
    Handlers = {h1, h2}
    Sweepers = {s1}
    MaxBans = 4
    MaxCalls = 2
    MaxApplies = 1
    MaxFaults = 1
INVARIANTS TypeOK OnceRecorded
PROPERTY Converges
