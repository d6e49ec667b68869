SPECIFICATION Spec
CONSTANTS
  outer = outer
  inner = inner
  Comps = {outer, inner}
  Parent <- MCParent
  None = None
  Hooked = {inner}
  Listeners = {l1, l2}
  MaxActs = 3
SYMMETRY Symmetry
INVARIANTS AlwaysInOrder NoMoveMissed
CHECK_DEADLOCK FALSE
