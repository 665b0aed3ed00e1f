SPECIFICATION FairSpec
CONSTANTS
  NumberMonitored = 1
  Heartbeats = {}
  Concurrency = 1
  SkipsInvalid = {1}
  MaxGen = 1
PROPERTIES
  OldConfigurationContinues
