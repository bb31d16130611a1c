SPECIFICATION LiveSpec
CONSTANTS
  r1 = r1  r2 = r2  l1 = l1  l2 = l2  b1 = b1
  Requests <- TwoRequests
  Lanes <- TwoLanes
  Bridges <- OneBridge
  None = None
  FirstRoster <- RosterOne
  Cap = 1
  Depth = 1
  MaxSpill = 1
  RandomStart = FALSE
  Fickle <- OneLane
  MaxJails = 1
  MaxEdits = 1
INVARIANT BridgeConserves
PROPERTY AcquireReturns
CHECK_DEADLOCK FALSE
