\* Two commands of one target and two controllers; two silent
\* sweeps; one gated run with one responder.
CONSTANTS
  Commands = {1, 2}
  Workers = {w1, w2}
  Targets = {t1}
  Nobody = Nobody
  Budget = 1
  Lease = 2
  MaxFaults = 1
  Sweepers = {s1, s2}
  Runs = {g1}
  Proposals = {p1}
  Responders = {h1}
  None = None
CHECK_DEADLOCK FALSE
SPECIFICATION OperationsSpec
INVARIANTS
  CommandsSafe
PROPERTIES
  JobsEnd
