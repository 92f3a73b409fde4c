SPECIFICATION LiveSpec
CONSTANTS
  u1 = u1
  s1 = s1
  Users = {u1}
  Keys = {k1, k2}
  Owner <- OneUser
  Origins = {k1}
  Servers = {s1, s2}
  RoutineSize = 1
  ChanSize = 1
  Kinds = {"user", "notMe", "result"}
  StartStatus <- OnOneServer
  StartList <- Complete
  Nowhere = Nowhere
  MaxEvents = 2
  MaxMoves = 1
  MaxClients = 2
  MaxFaults = 1
INVARIANTS
  TypeOK
  LostOnlyWithClient
  AtMostOncePerHandling
  FollowsList
CHECK_DEADLOCK FALSE
PROPERTIES
  ConsumerGoesOn
  QueuesDrain
