SPECIFICATION Spec
CONSTANTS
  Servers = {s1}
  Rank <- MCRank
  Wrappers = {w1}
  Sessions = {a, b}
  Gateways = {g1}
  Inputs = {"main", "destroy", "closed"}
  None = None
  ChanCap = 1
  RpcCap = 2
  RenewAge = 3
  ExpireAge = 6
  MaxInputs = 4
  MaxCalls = 1
  MaxRing = 1
  MaxEnds = 0
  MaxLost = 0
INVARIANTS
  NoGhost
PROPERTIES
  NeverLapses
