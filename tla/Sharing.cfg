SPECIFICATION Spec
CONSTANTS
  Downstreams = {d1, d2}
  Ports = {"p"}
  MaxChannels = 3
  MaxQueue = 2
  MaxRequests = 5
  Servers = {"lenient", "strict"}
  Unguarded = {"second request", "cancelled", "refused cancel", "disconnect"}
SYMMETRY Alike
CHECK_DEADLOCK FALSE
INVARIANTS
    
    TablesAgree
    NothingLeft
    DeadIsFreed
