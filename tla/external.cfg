SPECIFICATION FairSpec
CONSTANTS
  NumberOfAlerts = 1
  FailureThreshold <- MCFailureThreshold
  SuccessThreshold <- MCSuccessThreshold
  MinimumReminderInterval <- MCReminder
  SendOnResolved <- MCSendOnResolved
  Checksum <- MCChecksum
  CountCap = 3
  AgeCap = 1
  p1 = p1
  p2 = p2
  Pushers = {p1, p2}
  Heartbeat = hb
  Installations <- MCInstallations
INVARIANTS
  SequentialUseIsExact
  DuplicatesBounded
PROPERTIES
  SilenceTriggers
  SuccessesResolve
