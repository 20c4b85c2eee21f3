SPECIFICATION Spec
CONSTANTS
  None = None
  Polite = FALSE
  Keeps = TRUE
  Asserts = TRUE
  Refusals = TRUE
  Urgent = {}
  Sends = {1}
  MaxAttempts = 2
  MaxFds = 2
INVARIANTS ToldOnce
CHECK_DEADLOCK FALSE
