SPECIFICATION Spec
CONSTANTS
    c1 = c1
    c2 = c2
    ic1 = ic1
    ic2 = ic2
    ic3 = ic3
    Ctx = {c1, c2}
    Ic = {ic1, ic2, ic3}
    ICtx <- MCICtx
    MaxQueued = 4
CHECK_DEADLOCK FALSE
INVARIANTS
    NoDeadContext
    QueueKept
PROPERTIES
    EventuallyRun
