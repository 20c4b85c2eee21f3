SPECIFICATION Spec
CONSTANTS
  Configs <- MCConfigs
  Missing = Missing
  Bad = Bad
  Absent = Absent
  DefaultNum = 2
  DefaultSize = 7
  Mega = 2
  WordSize = 16
  Long = {2, 5}
  MaxNum = 2
  MaxRecords = 6
  MaxStarts = 3
INVARIANTS AgeOrder
PROPERTIES StartsAsConfigured WrittenUnlessRefused WithinLimit LosesOnlyOldest
CHECK_DEADLOCK FALSE
