SPECIFICATION FairSpec
CONSTANTS
  Sizes = {1, 3, 4}
  MaxFrame = 3
  UpRoom = 3
  DownRoom = 2
  Misread = {1, 2}
  Wanted = {1, 3}
  MaxEvents = 4
  MaxRequests = 3
INVARIANTS
  AppliedAsSent
  FailsOnlyWhenTorn
  SmallRequestsNeverJam
  EventsKeptInOrder
PROPERTIES
  CallReturns
CHECK_DEADLOCK FALSE
