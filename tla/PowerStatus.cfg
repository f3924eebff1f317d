SPECIFICATION FairSpec
CONSTANTS
    p1 = p1
    p2 = p2
    n1 = n1
    b1 = b1
    None = None
    Pod = {p1, p2}
    Comp = {n1, b1}
    Bmc = {b1}
    Sites <- MCSites
    MaxCrash = 2
    MaxErr = 2
    MaxFault = 1
    MaxFailures = 2
    MaxHW = 1
    MaxInv = 1
INVARIANTS TypeOK OneMaster MapStored
PROPERTY Converges
