SPECIFICATION Spec
CONSTANTS
  Servers = {s1}
  Rank <- MCRank
  Wrappers = {w1, w2}
  Sessions = {a}
  Gateways = {g1}
  Inputs = {"reset", "create"}
  None = None
  ChanCap = 1
  RpcCap = 1
  RenewAge = 1
  ExpireAge = 2
  MaxInputs = 2
  MaxCalls = 2
  MaxRing = 2
  MaxEnds = 1
  MaxLost = 0
INVARIANTS
  TypeOK
  RegisteredRuns
  OneServing
  RegistryInv
SYMMETRY WrapperSymmetry
