SPECIFICATION Spec
CONSTANTS
  Expansion = 2
  Display = 10
  Widths = {7}
  Places = {5}
  DefaultWidth = 6
  None = None
  MaxToggles = 3
  MaxStarts = 2
  Apps = {"launcher", "terminal"}
  Edges = {"bottom"}
  MaxPending = 2
INVARIANTS
  WindowFollowsView
  WidensOnce
  DiskFollowsWindow
  ChromeSettles
  ItemMatchesWindow
  PopupFits
PROPERTIES
  GrowsOnScreen
CHECK_DEADLOCK FALSE
