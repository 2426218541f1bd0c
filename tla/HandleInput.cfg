SPECIFICATION Spec
CONSTANTS
    MAX_BACKLOG = 2
    Backlogs = {0, 1, 2, 3}
    MaxReads = 3
CHECK_DEADLOCK FALSE
INVARIANTS
    NoUseAfterFree
    ClientView
PROPERTIES
    HandshakeCompletes
    ImplementsHandleInputSpec
