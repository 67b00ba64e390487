\* One failure, and a connector of two pipelines, while policy, admission and
\* maintenance change once.
CONSTANTS
  Sources = {1}
  Targets = {t}
  Incidents = {i}
  TargetOf <- OneTarget
  IncidentOf <- OneIncident
  ActionOf <- AllPipeline
  Controllers = {c1, c2}
  MaxAttempts = 1
  MaxWriteActions = 1
  MaxChanges = 1
  None = none
  p1 = p1
  p2 = p2
  Pipelines = {p1, p2}
  Owned = {p1}
  Scopes <- OneOrBoth
  Provisioners = {w1, w2}
  MaxPolicy = 2
  MaxRev = 5
  MaxFaults = 1
CHECK_DEADLOCK FALSE
SPECIFICATION PolicySpec
SYMMETRY Rivals
INVARIANTS
  UnverifiedIsPolled
  UpdatesSafe
  ManifestTruthful
