SPECIFICATION Spec
CONSTANTS
    n = n
    m = m
    o1 = o1
    o2 = o2
    b = b
    Comp = {n, m, b}
    Type <- Plain
    Ancestors <- PlainAncestors
    Supplies <- PlainSupplies
    Choices <- PlainChoices
    Ops = {"On", "Off", "SoftRestart", "HardRestart", "Init", "ForceOff"}
    NoWait = FALSE
    Flaky = {}
    MaxFault = 1
    MaxCrash = 1
INVARIANTS TypeOK AllFinished OutcomeReal RestartReal CutOnlyFailed ForcedFirst OnHasPower
CHECK_DEADLOCK FALSE
