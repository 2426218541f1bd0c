SPECIFICATION Spec
CONSTANTS
    MaxRekeys = 2
    MaxData = 1
    MaxFailures = 1
    Offers = {"delayed"}
    Servers = {"other"}
    RekeyBugs = {FALSE}
    Unguarded = {}
CHECK_DEADLOCK FALSE
INVARIANTS
    NoProtocolError
    HeldBackForKex
PROPERTIES
    KexCompletes
    ConfigTakesEffect
