SPECIFICATION Spec
CONSTANTS
  Sizes <- MCSizes
  MaxText = 2
  Settings <- MCSettings
  Remotes <- MCRemotes
  Unguarded = {"reconfigured"}
CHECK_DEADLOCK FALSE
INVARIANTS
    ViewInRange
