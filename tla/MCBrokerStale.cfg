SPECIFICATION Spec
CONSTANTS
  c1 = c1
  c2 = c2
  a1 = a1
  a2 = a2
  Conn = {c1, c2}
  App = {a1, a2}
  Lifecycle = lifecycle
  Topic = {lifecycle}
  AppOf <- OneAppEach
  Current = {c1, c2}
  Lawful = {c1, c2}
  Attentive = {c1}
  Piecemeal = {}
  NoApp = NoApp
  Host = Host
  EventBuffer = 2
  PipeFrames = 1
  Asked = {"hello", "subscribe"}
  News <- OtherNews
  MaxRequests <- ThreeAndTwo
  MaxHostEvents = 0
  AcceptMayFail = FALSE
INVARIANTS
  ListedIsLive
CHECK_DEADLOCK FALSE
