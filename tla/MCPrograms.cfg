SPECIFICATION Spec
CONSTANTS
  t1 = t1
  t2 = t2
  terminal = terminal
  missing = missing
  Caller = {t1, t2}
  App = {terminal, missing}
  Installed = {terminal}
  DevCheckout = FALSE
  NoApp = noApp
  MaxStarts = 3
  MaxQueries = 1
  WaitMayFail = TRUE
  p1 = p1
  p2 = p2
  p3 = p3
  v1 = v1
  v2 = v2
  v2b = v2b
  v3 = v3
  Proc = {p1, p2, p3}
  Sql = {v1, v2, v2b, v3}
  NoSql = noSql
  Build <- ThreeBuilds
  Broken = {v3}
  NoProc = noProc
  MaxOpens = 2
  MaxFaults = 2
  BusyMayFail = TRUE
  Apps = {"slate-launcher"}
  Icons = {"slate-launcher"}
  MaxMishaps = 2
  Rules = {"00-overview", "05-react-and-ui"}
  MaxTroubles = 2
SYMMETRY Callers
INVARIANTS
  LostOnlyToOverlap
  ReportsAreCurrent
  NeverHalfMigrated
  VouchedIsWhole
  VerifiedIsWhole
  PackagedInOneVersion
  CompletedIsCurrent
PROPERTIES
  ImplementsSchema
CHECK_DEADLOCK FALSE
