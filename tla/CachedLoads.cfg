SPECIFICATION Spec
CONSTANTS
  t1 = t1
  t2 = t2
  c1 = c1
  c2 = c2
  NoKey = NoKey
  NoScope = NoScope
  s1 = s1
  s2 = s2
  Scopes = {s1, s2}
  Capacity = 3
  Oversized = {}
  Tabs = {t1, t2}
  Comps = {c1, c2}
  ModeOf <- MCModeOf
  TabOf <- MCTabOf
  Args <- MCArgs
  Boots <- MCBoots
  Callable = {c1}
  Failing = {c1}
  Described <- MCDescribed
  Values <- MCValues
  Empty = "{}"
  Texts = {"{}", "x"}
  Brings <- MCBrings
  Preloads <- MCPreloads
  ArgsMove = {"gated", "idle"}
  MaxEvents = 2
INVARIANTS TypeOK EntriesAreTrue ShownIsCurrent
PROPERTY EntriesKept
CHECK_DEADLOCK FALSE
