SPECIFICATION FairSpec
CONSTANTS
  Calls = {c1, c2, c3}
  Keys = {render, reload}
  Boot = boot
  NoCall = none
INVARIANTS
  LockAccounted
  PromotedKeepLock
  NoCallLost
PROPERTIES
  ServedSpec
  EveryCallSettles
CHECK_DEADLOCK FALSE
