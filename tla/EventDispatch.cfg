SPECIFICATION Spec
CONSTANTS
  OnHandlers = {h1, h2}
  OnceHandlers = {o1}
  Waiters = {w1}
  Events = {ready, stop}
  Stop = stop
  NoEvent = noevent
  MaxTriggers = 2
SYMMETRY Symmetry
INVARIANTS
  OnceIsOnce
  ExactlyOnce
  LateIsInformed
  NothingLeftBehind
  StopReleases
CHECK_DEADLOCK FALSE
