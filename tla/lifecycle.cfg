SPECIFICATION FairSpec
CONSTANTS
  NumberMonitored = 2
  Heartbeats = {2}
  Concurrency = 1
  SkipsInvalid = {1}
  MaxGen = 2
INVARIANTS
  ConcurrencyRespected
  OnlyStoppedResultsAreLost
PROPERTIES
  MonitoringContinues
  StoppedGoroutinesReturn
