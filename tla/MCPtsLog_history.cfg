SPECIFICATION Spec
CONSTANTS
  Requests = {r1}
  Devices = {d1}
  Kinds = {"send", "deleteHistory"}
  Incoming = {}
  Sizes = {1}
  V3 <- ByDefault
  Limit = 2
  MaxPts = 4
  MaxEvents = 3
  MaxFaults = 0
INVARIANTS
  DifferenceComplete
