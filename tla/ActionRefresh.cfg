\* Two failures of one dataset, two controllers, one throttled retry.
CONSTANTS
  Sources = {1, 2}
  Targets = {t}
  Incidents = {i}
  TargetOf <- OneTarget
  IncidentOf <- OneIncident
  ActionOf <- AllRefresh
  Controllers = {c1, c2}
  MaxAttempts = 1
  MaxWriteActions = 1
  MaxChanges = 0
  None = none
CHECK_DEADLOCK FALSE
SPECIFICATION Spec
SYMMETRY Interchangeable
INVARIANTS
  IInv
  EffectsWithinBudget
  
PROPERTIES
  ImplementsFence
