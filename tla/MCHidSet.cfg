SPECIFICATION Spec
CONSTANTS
  StackDepth = 2
  UsageDepth = 1
  MaxCollections = 2
  MaxItems = 3
  MaxIDs = 2
  ReportIDs = {1, 2, 3}
  BitSizes = {1, 8}
  ReportCounts = {1, 2}
  Longest = 6
INVARIANT SetIsGot
CHECK_DEADLOCK FALSE
