SPECIFICATION Spec
CONSTANTS
  p1 = p1
  p2 = p2
  a1 = a1
  Proc = {p1, p2}
  App = {a1}
  Suite = suite
  Launcher = a1
  AppOf <- TwoWindows
  Level = {info, debug, loud}
  LOG_LEVELS = {info, debug}
  DefaultLevel = info
  Theme = {light}
  NoTheme = noTheme
  Window = {standard, wide, tiny}
  LargeEnough = {standard, wide}
  DefaultWindow = standard
  Nothing = nothing
  Absent = absent
  Empty = empty
  Torn = torn
  MaxBoots <- TwoAndOne
  MaxUpdates <- TwoAndOne
  MaxEdits = 1
  WritesMayFail = TRUE
INVARIANTS ResolvedIsValid MemoryIsCurrent SeedsOnlyMissingFiles
CHECK_DEADLOCK FALSE
