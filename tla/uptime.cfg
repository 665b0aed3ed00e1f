SPECIFICATION UptimeSpec
CONSTANTS
  Day = 2
  Retention = 8
  Buffer = 4
  AgeThreshold = 10
  MergeThreshold = 8
  CleanUpThreshold = 10
  Horizon = 13
CHECK_DEADLOCK FALSE
INVARIANTS
  MemoryUptimeIsExact
  DatabaseUptimeIsClose
  EntriesBounded
