SPECIFICATION FairSpec
CONSTANTS
    n = n
    m = m
    o1 = o1
    o2 = o2
    b = b
    Comp = {n, m, b}
    Type <- Plain
    Ancestors <- PlainAncestors
    Supplies <- PlainSupplies
    Choices <- PlainChoices
    Ops = {"SoftRestart"}
    NoWait = FALSE
    Flaky = {}
    MaxFault = 0
    MaxCrash = 0
PROPERTIES Finishes
CHECK_DEADLOCK FALSE
