SPECIFICATION Spec
CONSTANTS
  Calls = {c1, c2}
  Boot = boot
  NoCall = none
  NoRun = norun
  Keys = {"render", "load", "reload"}
  Failing = {}
  MaxAwait = 1
PROPERTY NoHookAfterStop
CHECK_DEADLOCK FALSE
