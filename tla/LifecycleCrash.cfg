SPECIFICATION Spec
CONSTANTS
    p1 = p1
    p2 = p2
    w1 = w1
    w2 = w2
    x1 = x1
    x2 = x2
    c1 = c1
    c2 = c2
    Pod = {p1, p2}
    Worker = {w1, w2}
    PodOf <- TwoPods
    Client = {}
    Comp = {x1, x2}
    Tid = {1, 2}
    MaxTier = 2
    MaxCrash = 1
    MaxErr = 0
    CanExpire = FALSE
    CanPrune = TRUE
    Legacy = FALSE
INVARIANTS TypeOK SingleWorker ReportComplete NoOrphanTasks
PROPERTIES TerminalIsFinal ResultsKept
CHECK_DEADLOCK FALSE
