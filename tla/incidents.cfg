SPECIFICATION Spec
CONSTANTS
  Alerts <- MCAlerts
  Uses <- MCUses
  MaxIncidents = 4
  Recipients = 2
  IssuesPerPage = 2
INVARIANTS
  NothingLeftOpen
  TriggeredMeansOpen
  TriggeredMeansAllTold
  MostSpecificWins
  AcceptedCanSend
  DefaultAlertApplies
