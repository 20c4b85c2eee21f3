SPECIFICATION Spec
CONSTANTS
  Byte = {0, 1, 2}
  Zero = 0
  Ids = {"in", "out"}
  InitSize = 2
  ExtraSize = 2
  Data <- MCData
  MaxReadable = 4
INVARIANTS
  IndexOrder
PROPERTIES
  GrowthBound
  ImplementsQueue
