SPECIFICATION Spec
CONSTANTS
  Powers = {0, 1, 2}
  GridModes = {0, 2}
  Deadband = 1
  MaxChanges = 3
PROPERTIES
  SwitchedOnlyAsOrdered
