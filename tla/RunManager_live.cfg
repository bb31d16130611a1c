CONSTANTS
  c1 = c1  c2 = c2  k1 = k1  w = w  a1 = a1
  Clients <- OneClient
  Keepers <- OneKeeper
  Passes <- AllButStop
  Worker = w
  Agents <- OneAgent
  NoAgent = NoAgent
  MaxRuns = 1
  QueueSize = 1
  DrainCap = 1
  HasStore = FALSE
  MaxCrashes = 0
SPECIFICATION LiveSpec
INVARIANTS NoLostRun
PROPERTIES WaiterWakes DrainEmpties
CHECK_DEADLOCK FALSE
