\* Two invocations on two alerts, one of which may die; two drains of the
\* retries of two failures; two clients of two routes for four ticks; two
\* controllers and two operators on one incident.
CONSTANTS
  Instances = {i1, i2}
  Keys = {a1, a2}
  NoInstance = none
  Lease = 2
  MaxCrashes = 1
  Sources = {1, 2}
  Signatures = {"x"}
  SignatureOf <- OneSignature
  MaxAttempts = 2
  Drains = {p1, p2}
  Clients = {c1, c2}
  Routes = {ra, rb}
  Limit = 1
  ApiLimit = 1
  Window = 2
  ApiWindow = 3
  Delays = {1, 3}
  MaxTime = 4
  Workflows = {w1, w2}
  Operators = {u1, u2}
  Requests = {k1, k2}
  NoRequest = NoRequest
  Cases = {"usig"}
  MaxRecords = 2
  MaxFaults = 1
CHECK_DEADLOCK FALSE
SPECIFICATION RowsSpec
SYMMETRY Interchangeable
INVARIANTS
  IInv
  OverlapNeedsOverrun
  
  GrantsBounded
  CasesTruthful
PROPERTIES
  LateProjectionsHarmless
  PromisesKept
  RecurrenceReopens
