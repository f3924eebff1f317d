SPECIFICATION FairSpec
CONSTANTS
    n = n
    m = m
    o1 = o1
    o2 = o2
    b = b
    Comp = {n, m, o1, o2}
    Type <- Fed
    Ancestors <- FedAncestors
    Supplies <- FedSupplies
    Choices <- FedChoices
    Ops = {"SoftOff"}
    NoWait = FALSE
    Flaky = {o1}
    MaxFault = 0
    MaxCrash = 1
INVARIANT NeverCut
PROPERTY Finishes
CHECK_DEADLOCK FALSE
