CONSTANTS
  Items = {i1}
  AutoEnrol = TRUE
  MaxPass = 3
  MaxTime = 7
  MaxPolicy = 2
  MaxFaults = 1
CHECK_DEADLOCK FALSE
SPECIFICATION FairSpec
INVARIANTS
  AdmissionSafe
PROPERTIES
  PassesHarmless
  NewsReachesTargets
