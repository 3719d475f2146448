SPECIFICATION FairSpec
CONSTANTS
    k1 = k1
    w1 = w1
    w2 = w2
    NoKey = NoKey
    None = None
    Keys <- MCKeys
    Asked <- MCAsked
    Workers <- MCWorkers
    Limit = 2
    MaxRows = 3
    MaxTasks = 1
    MaxCrashes = 1
    LastMinute = 1
INVARIANTS
    TypeOK
    TrailsAccountForStatus
    DuplicatesAreBounded
PROPERTIES
    PendingIsSent
