SPECIFICATION Spec
CONSTANTS
  N = 3
  MaxCalls = 1
  Callable = {1, 2}
  Html = {1}
  Failing <- CachedReloadFails
INVARIANT BottomUp
PROPERTY SnapshotFullyRendered
CHECK_DEADLOCK FALSE
