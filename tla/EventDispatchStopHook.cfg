SPECIFICATION Spec
CONSTANTS
  OnHandlers = {}
  OnceHandlers = {}
  Waiters = {w1}
  Events = {ready, stop}
  Stop = stop
  NoEvent = noevent
  MaxTriggers = 2
INVARIANTS
  StoppedReleases
CHECK_DEADLOCK FALSE
