SPECIFICATION Spec
CONSTANTS
  Servers = {s1}
  Rank <- MCRank
  Wrappers = {w1, w2}
  Sessions = {a}
  Gateways = {g1}
  Inputs = {"main"}
  None = None
  ChanCap = 1
  RpcCap = 2
  RenewAge = 1
  ExpireAge = 2
  MaxInputs = 3
  MaxCalls = 1
  MaxRing = 0
  MaxEnds = 1
  MaxLost = 0
INVARIANTS
  DrainCleansStatus
