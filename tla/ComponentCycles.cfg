SPECIFICATION Spec
CONSTANTS
  Calls = {c1, c2, c3}
  Boot = boot
  NoCall = none
  NoRun = norun
  Keys = {"render", "load", "reload"}
  Failing = {"render", "load", "reload", boot}
  MaxAwait = 1
SYMMETRY Symmetry
INVARIANTS TypeOK AwaitedCallRuns
PROPERTIES QueueSpec ReadyNotMidCycle OwedReadyIsFinal
CHECK_DEADLOCK FALSE
