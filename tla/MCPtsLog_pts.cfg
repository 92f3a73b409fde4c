SPECIFICATION LiveSpec
CONSTANTS
  Requests = {r1}
  Devices = {d1}
  Kinds <- SomeKinds
  Incoming <- SomeIncoming
  Sizes = {2}
  V3 <- Flags
  Limit = 1
  MaxPts = 5
  MaxEvents = 1
  MaxFaults = 1
INVARIANTS
  TypeOK
  NumberedOnce
  OnlyOvertaken
PROPERTIES
  CatchesUp
  ImplementsUpdateLog
