SPECIFICATION Spec
CONSTANTS
  MsgIds = {1, 2, 3, 4, 5, 6, 7}
  Kind <- MixedKind
  Packets <- MixedPackets
  Deferred = {}
  Gateways = {g1}
  NoGateway = NoGateway
  FirstMid = 10
  MaxQueueSize = 2
  Split = 1
  MaxInputs = 3
INVARIANTS
  StatusHonest
