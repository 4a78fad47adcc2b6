SPECIFICATION Spec
CONSTANTS
  Sizes = {1, 3}
  MaxFrame = 3
  UpRoom = 3
  DownRoom = 1
  Misread = {1, 2}
  Wanted = {1, 3}
  MaxEvents = 3
  MaxRequests = 2
INVARIANTS
  ServesUntilDisconnect
CHECK_DEADLOCK FALSE
