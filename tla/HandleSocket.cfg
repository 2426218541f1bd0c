SPECIFICATION SockSpec
CONSTANTS
    MAX_BACKLOG = 1
    Backlogs = {0, 1}
    MaxReads = 4
CHECK_DEADLOCK FALSE
INVARIANTS
    SocketSound
    PlugView
PROPERTIES
    ThawedIsDelivered
