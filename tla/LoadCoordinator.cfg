SPECIFICATION FairSpec
CONSTANTS
  Components = {a, b, c}
  Keys = {user1}
  NoKey = nokey
  NoEntry = noentry
  NoData = nodata
INVARIANTS
  LeaderOwnsEntry
  NoEntryLeaks
  AdoptsItsGroup
PROPERTIES
  StoppedTakesNothing
  EveryLoadEnds
CHECK_DEADLOCK FALSE
