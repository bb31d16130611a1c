CONSTANTS
  r1 = r1  r2 = r2  l1 = l1  l2 = l2  b1 = b1
  Requests <- TwoRequests
  Lanes <- TwoLanes
  Bridges <- NoBridge
  None = None
  FirstRoster <- RosterTwo
  Cap = 1
  Depth = 1
  MaxSpill = 1
  RandomStart = FALSE
  Fickle <- OneLane
  MaxJails = 1
  MaxEdits = 1
  Accounts = {1}
  DayLength = 4
  WindowStart = 1
  GateStart = 2
  GateEnd = 3
  Throttle = 3
  Backoff = 1
  MaxMatClock = 8
  MaxLag = 1
  MaxAsked = 2
  Members = {1}
  DayTicks = 3
  FreshWindow = 1
  MaxPerTick = 1
  RetryBase = 1
  RetryCap = 2
  AutoWindow = 2
  BootWindow = 1
  PollEvery = 2
  PollBackoffBase = 1
  PollBackoffMax = 2
  Floors = {2}
  IdleTimeout = 1
  MaxUpkeepClock = 5
  MaxActivity = 1
SPECIFICATION SlotsSpec
CONSTRAINT OneUpset
SYMMETRY Symmetry
INVARIANTS SlotsExact OneNightlyTouch 
CHECK_DEADLOCK FALSE
