SPECIFICATION FairSpec
CONSTANTS
  N = 3
  MaxCalls = 2
  Callable = {1, 2}
  Html = {1}
  Failing <- BootOrReloadFails
INVARIANT BottomUp
PROPERTY TreeSettles
CHECK_DEADLOCK FALSE
