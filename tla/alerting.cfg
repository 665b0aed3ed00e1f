SPECIFICATION FairHSpec
CONSTANTS
  NumberOfAlerts = 2
  FailureThreshold <- MCFailureThreshold
  SuccessThreshold <- MCSuccessThreshold
  MinimumReminderInterval <- MCUnequalReminders
  SendOnResolved <- MCSendOnResolved
  Checksum <- MCChecksum
  CountCap = 2
  AgeCap = 2
  Configs <- MCChangingConfigs
  StoreFaults = TRUE
  LostReplies = TRUE
INVARIANTS
  TypeOK
  MemoryMatchesProvider
  RowsMatchProvider
PROPERTIES
  TriggerNeedsFailures
  ResolveNeedsSuccesses
  RemindersAreSpaced
  LazyRetry
  RecoveryResolves
  RemindersRecur
