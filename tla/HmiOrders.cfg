SPECIFICATION MCSpec
CONSTANTS
  Powers = {0, 1, 2}
  GridModes = {0, 2}
  Deadband = 1
  MaxChanges = 3
  Outputs = 2
  Inputs = 2
  MaxUnits = 2
  Rated = 125
  LimitDeadband = 10
  Limits <- MCLimits
  Counts <- MCCounts
INVARIANTS
  MCTypeOK
PROPERTIES
  PcsOrdersArrive
  PcsResetTakenDown
  DidoOutputsFollow
  DidoNotUnasked
  PvLimitsArrive
