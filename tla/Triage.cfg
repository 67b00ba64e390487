\* Two runs; gated: two proposals, one of them redacted, two responders, faults;
\* ungated: three turns, four calls, two remediations; two sweeps of one
\* table, one fault.
CONSTANTS
  Proposals = {p1, p2}
  Redacted = {p2}
  Responders = {h1, h2}
  None = None
  Runs = {r1, r2}
  MaxTurns = 2
  MaxToolCalls = 2
  MaxWrites = 1
  Tables = 1
  MaxBatch = 1
  Gated = TRUE
  HasDuplicates = FALSE
  Faults = TRUE
  Sweepers = {s1, s2}
  Nobody = Nobody
  OwnerOf <- Owners
  Confirm = 2
  MaxErrors = 1
  Cooldown = 1
  LeaseTicks = 1
  Watch = {"stale", "row_collapse"}
  Levels = {1, 2}
  Drop = 1
  Figures = {1}
  MaxFaults = 1
CHECK_DEADLOCK FALSE
SPECIFICATION TriageSpec
SYMMETRY Interchangeable
INVARIANTS
  IInv
  EffectsAuthorized
  LedgerSafe
  FindingsEarned
PROPERTIES
  ConsentSpentInTime
  CollapseNotLearned
