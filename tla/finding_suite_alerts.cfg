SPECIFICATION Spec
CONSTANTS
  NumberOfEndpoints = 4
  AlwaysRun <- MCAlwaysRun
  Keys <- MCKeys
  InitialKeys <- MCInitialKeys
  Stores <- MCStores
  Reads <- MCReads
  Absent = Absent
  Initially = Initially
INVARIANTS
  AlertsFollowOwnResult
