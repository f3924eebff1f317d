SPECIFICATION Spec
CONSTANTS
    p1 = p1
    p2 = p2
    w1 = w1
    w2 = w2
    x1 = x1
    x2 = x2
    c1 = c1
    c2 = c2
    Pod = {p1}
    Worker = {w1}
    PodOf <- OnePod
    Client = {c1}
    Comp = {x1}
    Tid = {1, 2}
    MaxTier = 2
    MaxCrash = 0
    MaxErr = 0
    CanExpire = FALSE
    CanPrune = FALSE
    Legacy = FALSE
PROPERTIES TerminalIsFinal
CHECK_DEADLOCK FALSE
