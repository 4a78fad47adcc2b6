SPECIFICATION LauncherWindowSpec
CONSTANTS
  Expansion = 2
  Display = 10
  Widths = {4, 7}
  Places = {0, 5}
  DefaultWidth = 6
  None = None
  MaxToggles = 1
  MaxStarts = 2
INVARIANTS
  RetractsWithTheView
CHECK_DEADLOCK FALSE
