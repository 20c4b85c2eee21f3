SPECIFICATION FairSpec
CONSTANTS
  MaxFds = 2
  MaxConns = 3
PROPERTIES NoneIsLeftWaiting
CHECK_DEADLOCK FALSE
