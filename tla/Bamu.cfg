SPECIFICATION Spec
CONSTANTS
  MaxCluster = 2
  PerAirUnit = 2
  Threshold = 1
  QtInterval = 2
  Counts = {0, 3}
  CellValues = {1, 2}
  MaxChanges = 2
PROPERTIES
  ClustersFollowStack
  DeadStackSpreads
  LiveStackShown
  CellsStored
