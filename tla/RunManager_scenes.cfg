CONSTANTS
  c1 = c1  c2 = c2  k1 = k1  w = w  a1 = a1
  Clients <- TwoClients
  Keepers <- OneKeeper
  Passes <- Stopping
  Worker = w
  Agents <- OneAgent
  NoAgent = NoAgent
  MaxRuns = 2
  QueueSize = 1
  DrainCap = 1
  HasStore = TRUE
  MaxCrashes = 1
SPECIFICATION ScenesSpec
CONSTRAINT OneRequest
INVARIANTS InflightExact SingleFlight NoFinishUnderLease FinishExact
PROPERTIES NoRunAfterShutdown FailedStaysFailed
CHECK_DEADLOCK FALSE
