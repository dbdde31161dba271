SPECIFICATION SpecConfig
CONSTANTS
  fa = fa
  fb = fb
  fc = fc
  ta = ta
  tb = tb
  ma = ma
  mb = mb
  Malformed = Malformed
  None = None
  Area <- MCArea
  MaxCount <- MCMaxCount
  Cluster <- MCCluster
  PointLists = {}
  Configs <- MCConfigs
INVARIANTS
  PlanCovers
  PlanReadable
  PlanMinimal
  MultipliedAsConfigured
  RoutedByRank
CHECK_DEADLOCK FALSE
