SPECIFICATION FairSpec
CONSTANTS
  core = core
  corefe = corefe
  Keys <- MCKeys
  MaxResults = 1
  MaxEvents = 1
  Threshold = 0
  Matches <- MCMatches
  Readers = {r1}
  Databases <- MCDatabases
  Configurations <- MCConfigurations
  NotCached = NotCached
INVARIANTS
  EventsFollowResults
  RowsBounded
  CacheIsCurrent
PROPERTIES
  Implements
  CacheConverges
