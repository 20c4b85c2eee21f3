SPECIFICATION FairSpec
CONSTANTS
  MaxFds = 3
  MaxConns = 4
INVARIANTS Accounted IdleKept
PROPERTIES TurnsAwayOnlyWhenShort NoneIsLeftUnlessMeddled
CHECK_DEADLOCK FALSE
