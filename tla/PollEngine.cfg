SPECIFICATION Spec

CONSTANTS
  Profiles <- MCProfiles
  Threshold = 1
  DefaultPt = 1
  PtValues = {0, 1, 2}
  PtRange = {2}
  MaxVersion = 2
  MaxRestarts = 1

INVARIANTS
  AlarmImpliesOffline
PROPERTIES
  RowsNeverRegress
  ImplementsCommAlarm
  DeadDeviceReported
  LiveDeviceRestored
  DataConverges
