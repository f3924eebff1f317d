SPECIFICATION FairSpec
CONSTANTS
    x = x
    y = y
    p1 = p1
    w1 = w1
    Comp = {x, y}
    Ctl = {"k1", "k2"}
    Wants <- MCWants
    Inventories <- MCInventories
    MaxComponentQuery = 1
    Pod = {p1}
    Home = p1
    Worker = w1
    CanPrune = TRUE
    Legacy = TRUE
    MaxCrash = 1
    MaxErr = 1
    MaxFault = 1
INVARIANTS TypeOK ReportComplete NoOrphanOps SafeLimits
PROPERTIES Implements Purged
CHECK_DEADLOCK FALSE
