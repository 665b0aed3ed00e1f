SPECIFICATION FairSpec
CONSTANTS
  NumberOfAlerts = 2
  FailureThreshold <- MCFailureThreshold
  SuccessThreshold <- MCSuccessThreshold
  MinimumReminderInterval <- MCUnequalReminders
  SendOnResolved <- MCSendOnResolved
  Checksum <- MCChecksum
  CountCap = 2
  AgeCap = 2
  Configs <- MCConfigs
  StoreFaults = FALSE
  LostReplies = FALSE
PROPERTIES
  EveryReminderRecurs
