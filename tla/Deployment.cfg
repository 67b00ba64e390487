\* Two operators, one lost answer or crash; three bundles and three runs of
\* the bootstrap script.
CONSTANTS
  Operators = {o1, o2}
  Nobody = Nobody
  Limit <- Plans
  MaxWrites = 3
  MaxChanges = 1
  MaxFaults = 1
  Migrations = {m1, m2, m3}
  Deployers = {d1, d2, d3}
CHECK_DEADLOCK FALSE
SPECIFICATION ToolsSpec
SYMMETRY Interchangeable
INVARIANTS
  AnswersTrue
  
PROPERTIES
  NoEffectForgotten
  OnlyWhatWasApproved
