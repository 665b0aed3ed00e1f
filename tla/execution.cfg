CONSTANTS
  g1 = g1
  g2 = g2
  Goroutines <- MCGoroutines
  Endpoints <- MCEndpoints
  OwnWindows <- MCOwnWindows
  GlobalWindows <- MCGlobalWindows
  Hour = 2
  Day = 6
  Week = 2
  Interval = 2
  Timeout = 1

SPECIFICATION Spec

SYMMETRY Symmetry

INVARIANTS
  AnswerIsFresh
  MutedIffScheduled
  HealthyIsDeserved
