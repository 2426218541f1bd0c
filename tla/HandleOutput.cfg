SPECIFICATION Spec
CONSTANTS
    MaxBytes = 4
CHECK_DEADLOCK FALSE
INVARIANTS
    NoUseAfterFree
    WriterView
PROPERTIES
    QueueDrained
