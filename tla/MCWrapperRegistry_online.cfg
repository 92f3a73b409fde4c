SPECIFICATION LiveSpec
CONSTANTS
  Servers = {s1}
  Rank <- MCRank
  Wrappers = {w1, w2}
  Sessions = {a}
  Gateways = {g1}
  Inputs = {"main"}
  None = None
  ChanCap = 1
  RpcCap = 1
  RenewAge = 1
  ExpireAge = 2
  MaxInputs = 2
  MaxCalls = 2
  MaxRing = 1
  MaxEnds = 0
  MaxLost = 1
PROPERTIES
  OnlineAgain
  WrapperEnds
