SPECIFICATION Spec
CONSTANTS
  Slaves = {s1, s2}
  NoSlave = NoSlave
  DelayInit = 1
  DelayMax = 5
  HardLimit = 3
  MaxFails = 4
INVARIANTS
  NeverWrongSlave
PROPERTIES
  OpensArePaced
  ReleaseNeedsHardRun
  PortRecovers
