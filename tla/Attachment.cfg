SPECIFICATION Spec
CONSTANTS
  outer = outer
  inner = inner
  Comps = {outer, inner}
  Parent <- MCParent
  None = None
  Hooked = {inner}
  Listeners = {l1, l2}
  MaxActs = 5
SYMMETRY Symmetry
INVARIANTS EventsInOrder BeliefIsCurrent ObserverAsNeeded
CHECK_DEADLOCK FALSE
