SPECIFICATION TcpSpec
CONSTANTS
  Units = {u1, u2}
  DelayInit = 1
  DelayMax = 5
  ConnectTimeout = 2
  MaxFails = 4
INVARIANTS
  RequestsAddressed
PROPERTIES
  ConnectsArePaced
  PeerRecovers
