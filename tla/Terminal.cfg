SPECIFICATION Spec
CONSTANTS
  Sizes <- MCSizes
  MaxText = 2
  Settings <- MCSettings
  Remotes <- MCRemotes
  Unguarded = {}
CHECK_DEADLOCK FALSE
INVARIANTS
    Consistent
    ViewInRange
PROPERTIES
    ViewStays
    ErasedIsKept
