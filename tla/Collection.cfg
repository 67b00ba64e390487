\* Two receivers that stop at a failure, three positions, one disturbance; one
\* poller, three ticks, two runs, one policy change, one fault.
CONSTANTS
  Receivers = {r1, r2}
  MaxPosition = 3
  Keys = {k}
  Envelope <- SharedKey
  RetryAttempts = 1
  MaxFaults = 1
  None = none
  Collectors = {c1}
  Adapter = "sql"
  PageSize = 1
  Retained = 2
  Lookback = 1
  PollSeconds = 2
  MaxTime = 3
  Finishes = {2, 3}
  MaxPolicy = 2
  MaxPollFaults = 1
CHECK_DEADLOCK FALSE
SPECIFICATION CollectionSpec
INVARIANTS
  StreamSafe
  CoverageTruthful
  PollingContinues
PROPERTIES
  EverythingDecided
