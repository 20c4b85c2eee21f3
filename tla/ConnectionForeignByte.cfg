SPECIFICATION Spec
CONSTANTS
  NonBlocking = TRUE
  SigpipeIgnored = TRUE
  CriticalAborts = TRUE
  SendIn = {"connection", "message", "other"}
  ShutDownIn = {"message", "other"}
  CloseIn = {"message"}
  SendsLate = FALSE
  Resets = FALSE
  Urgent = FALSE
  WordSize = 8
  SendCap = 2
  MaxLen = 3
  MaxSend = 5
  MaxRecv = 2
  MaxClose = 1
INVARIANTS
  NoForeignByte
CHECK_DEADLOCK FALSE
