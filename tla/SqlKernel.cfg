SPECIFICATION Spec
CONSTANTS
  Sources = {1, 2}
  MaxRetry = 1
  Controllers = {c1, c2}
  MaxChanges = 1
  None = None
SYMMETRY Symmetry
CHECK_DEADLOCK FALSE
INVARIANTS
  WorkSafe
  EffectsTruthful
PROPERTIES
  ImplementsFence
