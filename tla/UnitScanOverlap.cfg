SPECIFICATION Spec
CONSTANTS
  sun = sun
  agc = agc
  Scanners <- TwoScanners
  Cap <- TwoCap
  Base <- TwoBase
  Counts <- TwoCounts
  Limit = 1
  MaxRestarts = 0
PROPERTIES
  DeadUnitReported
