SPECIFICATION Safe
CONSTANTS
    Kinds = {"main", "fwd", "x11"}
    Configs = {{"pty"}, {"direct-tcpip"}}
    Quirks = {{}, {"late"}}
    Unguarded = {"throttled reset"}
    OUR_V2_WINSIZE = 2
    OUR_V2_BIGWIN = 8
    WinCap = 6
    FixedWin = 1
    RemWin = 1
    MaxOut = 2
    MaxIn = 2
    SessionOut = 1
    SessionIn = 1
    MaxSpecials = 1
    MaxAsks = 1
    MaxFlight = 2
    Congestion = {"fwd", "zombie"}
CHECK_DEADLOCK FALSE
INVARIANTS
    RepliesMatched
    InputComplete
    WindowsAgree
    OutputComplete
    CloseHandshake
    NoFault
