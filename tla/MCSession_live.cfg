SPECIFICATION LiveSpec
CONSTANTS
  MsgIds = {1, 2}
  Kind <- LiveKind
  Packets <- LivePackets
  Deferred = {1}
  Gateways = {g1}
  NoGateway = NoGateway
  FirstMid = 10
  MaxQueueSize = 2
  Split = 2
  MaxInputs = 2
PROPERTIES
  RequestAnswered
  QueueDelivered
