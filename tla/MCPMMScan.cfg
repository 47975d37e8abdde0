SPECIFICATION ScanSpec
CONSTANTS
  Highest = 6
  LargestCount = 4
  Null = Null
INVARIANT LoopsMatchPageRuns
CHECK_DEADLOCK FALSE
