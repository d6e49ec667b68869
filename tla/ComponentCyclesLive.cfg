SPECIFICATION FairSpec
CONSTANTS
  Calls = {c1, c2}
  Boot = boot
  NoCall = none
  NoRun = norun
  Keys = {"render", "load", "reload"}
  Failing = {"load", "reload", boot}
  MaxAwait = 1
PROPERTIES NoSelfDeadlock ReadyWaitersReleased
CHECK_DEADLOCK FALSE
