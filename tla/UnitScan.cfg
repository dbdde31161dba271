SPECIFICATION Spec
CONSTANTS
  sun = sun
  agc = agc
  Scanners <- OneScanner
  Cap <- OneCap
  Base <- OneBase
  Counts <- OneCounts
  Limit = 1
  MaxRestarts = 1
INVARIANTS
  NoResidue
PROPERTIES
  RaisedOnEvidence
  JudgementHeld
  DeadUnitReported
  LiveUnitRestored
