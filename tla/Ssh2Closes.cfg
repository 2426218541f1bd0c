SPECIFICATION Spec
CONSTANTS
    Kinds = {"main", "fwd", "x11"}
    Configs = {{}}
    Quirks = {{}, {"late"}, {"chokes"}, {"maxpkt"}}
    Unguarded = {}
    OUR_V2_WINSIZE = 1
    OUR_V2_BIGWIN = 8
    WinCap = 2
    FixedWin = 1
    RemWin = 0
    MaxOut = 1
    MaxIn = 2
    SessionOut = 1
    SessionIn = 2
    MaxSpecials = 0
    MaxAsks = 0
    MaxFlight = 2
    Congestion = {}
CHECK_DEADLOCK FALSE
INVARIANTS
    NotStarved
PROPERTIES
    ClosingEnds
