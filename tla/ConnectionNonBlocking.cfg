SPECIFICATION FairSpec
CONSTANTS
  NonBlocking = TRUE
  SigpipeIgnored = FALSE
  CriticalAborts = TRUE
  SendIn = {"connection", "message", "other"}
  ShutDownIn = {"message", "other"}
  CloseIn = {"message", "other"}
  SendsLate = FALSE
  Resets = TRUE
  Urgent = TRUE
  WordSize = 8
  SendCap = 2
  MaxLen = 3
  MaxSend = 4
  MaxRecv = 2
  MaxClose = 2
INVARIANTS
  WriteInterest
  DiesOnlyOfReset
  ShutDownPending
  OwnBytesInOrder
  LoopClosesOnce
PROPERTIES
  ClosedIsSilent
  ImplementsStream
  Drains
  ShutDownEnds
  PeerEndCloses
CHECK_DEADLOCK FALSE
