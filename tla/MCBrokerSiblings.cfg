SPECIFICATION Spec
CONSTANTS
  c1 = c1
  c2 = c2
  a1 = a1
  a2 = a2
  Conn = {c1, c2}
  App = {a1}
  Lifecycle = lifecycle
  Topic = {lifecycle}
  AppOf <- SameApp
  Current = {c1, c2}
  Lawful = {c1, c2}
  Attentive = {c1}
  Piecemeal = {c1}
  NoApp = NoApp
  Host = Host
  EventBuffer = 2
  PipeFrames = 1
  Asked = {"hello", "subscribe", "publish", "listApps", "ping"}
  News <- OtherNews
  MaxRequests <- ThreeAndTwo
  MaxHostEvents = 0
  AcceptMayFail = TRUE
INVARIANTS
  TypeOK
  MissingOnlyAfterSiblingStopped
  StaleOnlyAfterAbort
  NoEcho
  OneReplyPerRequest
PROPERTIES
  ImplementsTopicBus
CHECK_DEADLOCK FALSE
