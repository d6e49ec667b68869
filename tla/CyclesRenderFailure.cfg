SPECIFICATION FairSpec
CONSTANTS
  Calls = {c1, c2}
  Boot = boot
  NoCall = none
  NoRun = norun
  Keys = {"render", "load", "reload"}
  Failing = {"render"}
  MaxAwait = 1
PROPERTY ReadyWaitersReleased
CHECK_DEADLOCK FALSE
