SPECIFICATION FairSpec
CONSTANTS
  NonBlocking = FALSE
  SigpipeIgnored = FALSE
  CriticalAborts = TRUE
  SendIn = {"connection", "message", "close", "other"}
  ShutDownIn = {"message", "close", "other"}
  CloseIn = {"message"}
  SendsLate = FALSE
  Resets = TRUE
  Urgent = TRUE
  WordSize = 8
  SendCap = 2
  MaxLen = 3
  MaxSend = 5
  MaxRecv = 2
  MaxClose = 2
INVARIANTS
  NoStrayUnlessReset
  BlockingNeverQueues
  EventsStillReady
PROPERTIES
  ImplementsStream
CHECK_DEADLOCK FALSE
