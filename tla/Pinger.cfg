SPECIFICATION Spec
CONSTANTS
    Ctx = {1, 2}
    TickRange = 14
    Slack = 1
    LateTicks = 1
    MaxDelay = 2
    SleepTicks = 2
    MaxLate = 3
    Intervals = {0, 1, 2}
    MaxTimers = 2
    Unguarded = {}
CHECK_DEADLOCK FALSE
INVARIANTS
    PingIsComing
PROPERTIES
    RunWhenDue
    KeepsPinging
