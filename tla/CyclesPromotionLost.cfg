SPECIFICATION Spec
CONSTANTS
  Calls = {c1, c2, c3}
  Boot = boot
  NoCall = none
  NoRun = norun
  Keys = {"render", "load", "reload"}
  Failing = {}
  MaxAwait = 2
INVARIANT AwaitedCallIsWatched
CHECK_DEADLOCK FALSE
