SPECIFICATION Safe
CONSTANTS
    Entry = {1, 2, 3, 4}
    TypeOf <- MCTypeOf
    Src <- MCSrc
    MaxConfig = 3
    MaxFlight = 3
    Unguarded = {"second batch", "outstanding", "duplicate", "unasked"}
CHECK_DEADLOCK FALSE
INVARIANTS
    FaultHasCause
    RequestsMatchReplies
    ForwardedAsConfigured
    ServerAgrees
