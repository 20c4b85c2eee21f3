SPECIFICATION FairSpec
CONSTANTS
  Callers = {main, other}
  Main = main
  Flusher = flusher
  None = None
  Capacity = 2
  MaxRecords = 3
  MaxTicks = 1
INVARIANTS NoLostWakeup
PROPERTIES ImplementsJournal FlushCovers CallsReturn
CHECK_DEADLOCK FALSE
