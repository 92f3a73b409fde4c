SPECIFICATION Spec
CONSTANTS
  MsgIds = {1, 2, 3, 4, 5, 6, 7}
  Kind <- MixedKind
  Packets <- MixedPackets
  Deferred = {1}
  Gateways = {g1, g2}
  NoGateway = NoGateway
  FirstMid = 10
  MaxQueueSize = 2
  Split = 2
  MaxInputs = 3
INVARIANTS
  TypeOK
  ExecutedOnce
  NoOrphanRequest
  OneAnswer
  AnswerKept
  IndInv
SYMMETRY Symmetry
