SPECIFICATION FairSpec
CONSTANTS
  None = None
  Polite = TRUE
  Keeps = TRUE
  Asserts = TRUE
  Refusals = TRUE
  Urgent = {1}
  Sends = {1, 2}
  MaxAttempts = 2
  MaxFds = 2
INVARIANTS InStep FreedUseOnlyWhenRefused OnlyRefusedLeak EndIsLast
PROPERTIES Answered EndIsTold
CHECK_DEADLOCK FALSE
