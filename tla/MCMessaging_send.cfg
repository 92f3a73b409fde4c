SPECIFICATION Spec
CONSTANTS
  a = a
  b = b
  m1 = m1
  m2 = m2
  Members <- Users
  Messages <- Texts
  Sender <- SenderOf
  PeerTypes = {"user", "chat"}
  Requests = {r1, r2}
  Failures <- AllFailures
  MaxCopies = 2
  MaxReads <- ReadsOf
  MaxEvents = 3
  MaxFaults = 1
INVARIANTS
  TypeOK
  OneCopy
  SameAnswer
  UnreadNotTooHigh
  ReadMarkReal
  NotLost
SYMMETRY Symmetry
CHECK_DEADLOCK FALSE
