SPECIFICATION FairSpec
CONSTANTS
  Handlers = {h1, h2}
  Fds = {f1, f2}
  None = None
  InitEventNum = 1
INVARIANTS InStep Watched
PROPERTIES Served
CHECK_DEADLOCK FALSE
