SPECIFICATION Spec
CONSTANTS
    worker = worker
    keeper = keeper
    reaper = reaper
    None = None
    Worker = worker
    Keeper = keeper
    Reaper = reaper
    PageSize = 5
    MaxEtcdObjectSize = 12
    MaxMessageLen = 1
    Requests <- MCRequests
    MaxTries = 1
    MaxCrash = 1
INVARIANTS TypeOK ReadBack SmallIsWhole NoOrphanPages
CHECK_DEADLOCK FALSE
