\* One failure and its throttled retry; an execution may stop or stall twice.
CONSTANTS
  Sources = {1}
  Targets = {t}
  Incidents = {i}
  TargetOf <- OneTarget
  IncidentOf <- OneIncident
  ActionOf <- AllRefresh
  Controllers = {c1}
  MaxAttempts = 1
  MaxWriteActions = 1
  MaxChanges = 0
  None = none
  MaxFaults = 2
CHECK_DEADLOCK FALSE
SPECIFICATION FairSpec
PROPERTIES
  CorrelatedIsVerified
  AttemptIsClosed
